SPECIFICATION LinksSpec
CONSTANTS
    Schedulers = {s1, s2}
    Workers = {w1, w2}
    CompList = CompList
    Uninit = Uninit
    MaxFaults = 2
    MaxSignals = 1
    NoLink = NoLink
    ULong = 8
    MaxNames = 3
    MaxLinkFaults = 1
SYMMETRY ThreadSymmetry
\* A scheduler that lost its worker to a failure waits for ever.
CHECK_DEADLOCK FALSE
INVARIANTS
    FolderShowsOwned
    RemovesOwnLink
    NextNameIsFree
