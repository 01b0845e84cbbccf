SPECIFICATION SignalSpec
CONSTANTS
    Schedulers = {s1}
    Workers = {w1}
    CompList = CompList
    Uninit = Uninit
    MaxFaults = 0
    MaxSignals = 1
INVARIANT BeginsRunningWhenSelected
