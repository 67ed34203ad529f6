\* Sends never suspend, so that a send needs no help from the Apple TV.
SPECIFICATION FairSpec
CONSTANTS
    Cancellers = {c1}
    FrameUnits = 2
    FramesPerEvent = 2
    ChunkSizes = {1, 4}
    MaxUnits = 4
    Backpressure = FALSE
    Aborts = TRUE
    Losses = TRUE
    Idle = Idle
INVARIANT RegisteredStreamsAreClosed
PROPERTY ImplementsAudioStream
PROPERTY CancelTakesEffect
PROPERTY FinishEnds
