SPECIFICATION Spec
CONSTANTS
    Producers = {w1, w2}
    Consumers = {s1, s2}
    NoThread = NoThread
    MaxFaults = 1
    MaxSignals = 2
INVARIANTS
    TypeOK
    TakesFromNonEmpty
    SleepsOnlyWhenEmpty
PROPERTY ImplementsBlockingQueue
