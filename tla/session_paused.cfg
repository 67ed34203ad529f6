\* Sends may suspend in drain().
SPECIFICATION Spec
CONSTANTS
    Cancellers = {c1, c2}
    FrameUnits = 2
    FramesPerEvent = 2
    ChunkSizes = {1, 4}
    MaxUnits = 3
    Backpressure = TRUE
    Aborts = TRUE
    Losses = TRUE
    Idle = Idle
SYMMETRY Symmetry
INVARIANT TypeOK
INVARIANT FlushExclusive
INVARIANT SendExclusive
INVARIANT DataOrdered
INVARIANT EosComplete
INVARIANT LocksGivenBack
PROPERTY ImplementsSessionLife
