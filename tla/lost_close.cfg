\* A dataSend/close that arrives right behind the open response.
SPECIFICATION Spec
CONSTANTS
    Cancellers = {c1}
    FrameUnits = 2
    FramesPerEvent = 2
    ChunkSizes = {1, 4}
    MaxUnits = 3
    Backpressure = FALSE
    Aborts = FALSE
    Losses = FALSE
    Idle = Idle
INVARIANT CloseHandled
