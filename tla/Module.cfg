SPECIFICATION Spec
CONSTANTS
    Pids = {p1, p2}
    Files = {f1, f2, f3}
    NoFile = NoFile
    MaxFaults = 2
    MaxCallbacks = 3
\* Nothing follows a crash.
CHECK_DEADLOCK FALSE
INVARIANTS
    TypeOK
    ModuleOutlivesUse
    OneTreePerFile
    SeparatePools
