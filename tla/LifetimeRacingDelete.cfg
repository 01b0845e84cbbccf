SPECIFICATION Spec
CONSTANTS
    Schedulers = {s1}
    Workers = {w1}
    Main = main
    Lists = {l1}
    NoList = nolist
    Wild = wild
    MaxFaults = 0
    StaleHeap = FALSE
    RacingDelete = TRUE
INVARIANT NoUseAfterFree
CHECK_DEADLOCK FALSE
