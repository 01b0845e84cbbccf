SPECIFICATION Spec
CONSTANTS
    Schedulers = {s1, s2}
    Workers = {w1, w2, w3}
    CompList = CompList
    Uninit = Uninit
    MaxFaults = 0
    MaxSignals = 1
SYMMETRY ThreadSymmetry
INVARIANTS
    TypeOK
    OneToken
    LinkedOnce
    RunsOnlyParked
    OneOwnerOfContextList
    ParentIsRegistered
    NoWorkerLost
    NoLostWakeUp
