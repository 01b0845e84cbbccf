SPECIFICATION FairSpec
CONSTANTS
    Schedulers = {s1, s2}
    Workers = {w1, w2}
    CompList = CompList
    Uninit = Uninit
    MaxFaults = 0
    MaxSignals = 1
PROPERTIES
    PublishedIsRun
    AllWorkersFinish
