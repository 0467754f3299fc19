\* Two ids, three calls (an id is used again), chunks of up to two lines.
CONSTANTS
    Ids = {i1, i2}
    PoolThreads = 1
    MaxCalls = 3
    MaxLines = 2
SPECIFICATION Spec
SYMMETRY IdSymmetry
INVARIANTS
    ModernCallsExact
    EraKept
    QuitExactlyWhenDrained
    SafeTeardown
    StreamsClosed
    OneUsePerId
PROPERTIES
    OwnResponse
    NeverForgotten
