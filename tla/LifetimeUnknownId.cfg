SPECIFICATION Spec
CONSTANTS
    Schedulers = {s1}
    Workers = {w1, w2}
    Main = main
    Lists = {l1}
    NoList = nolist
    Wild = wild
    MaxFaults = 0
    StaleHeap = TRUE
    RacingDelete = FALSE
INVARIANT RefCountExact
CHECK_DEADLOCK FALSE
