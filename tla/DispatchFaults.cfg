SPECIFICATION Spec
CONSTANTS
    Schedulers = {s1, s2}
    Workers = {w1, w2}
    CompList = CompList
    Uninit = Uninit
    MaxFaults = 2
    MaxSignals = 1
\* A scheduler that lost its worker to a failure waits for ever.
CHECK_DEADLOCK FALSE
INVARIANTS
    OneToken
    LinkedOnce
    RunsOnlyParked
    ParentIsRegistered
PROPERTIES
    TakesAllInOrder
    ImplementsUserScheduling
