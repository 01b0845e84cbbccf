SPECIFICATION FairSpec
CONSTANTS
    Schedulers = {s1}
    Workers = {w1, w2}
    Main = main
    Lists = {l1, l2}
    NoList = nolist
    Wild = wild
    MaxFaults = 1
    StaleHeap = FALSE
    RacingDelete = FALSE
INVARIANTS TypeOK RefCountExact NoUseAfterFree EmptyWhenDestroyed IdNamesLiveList
PROPERTIES ReleaseFreesAll
CHECK_DEADLOCK FALSE
