SPECIFICATION Spec
CONSTANTS
    Heads = {h1, h2}
    Entries = {a, b, c}
    Poison1 = Poison1
    Poison2 = Poison2
    NoLoop = NoLoop
SYMMETRY NodeSymmetry
INVARIANTS
    TypeOK
    RingsClosed
    SafeLoopVisitsAll
PROPERTY ImplementsSequenceLists
