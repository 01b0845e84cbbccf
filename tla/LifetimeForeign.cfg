SPECIFICATION Spec
CONSTANTS
    Schedulers = {s1}
    Workers = {w1}
    Main = main
    Lists = {l1, l2}
    NoList = nolist
    Wild = wild
    MaxFaults = 0
    StaleHeap = FALSE
    RacingDelete = FALSE
INVARIANT BorrowedIsKept
CHECK_DEADLOCK FALSE
