\* Bytes written and read back: TLV8 in chunks of 4, the target list, HDS
\* documents around their limits, HDS messages.
SPECIFICATION Spec
CONSTANTS
    MaxChunk = 4
    None = None
    MaxDepth = 2
    References = 4
    MaxItems = 3
    MaxPairs = 2
    MaxHeader = 255
    MaxPayload = 300
    MaxEntries = 3
    Lengths = {0, 1, 3, 4, 5, 8, 9}
    MaxTargets = 2
    Samples <- SampleTargets
    MaxCount = 7
INVARIANT TlvRoundTrip
INVARIANT CutOffNoticed
INVARIANT TargetsReadBack
INVARIANT DocumentsReadBack
INVARIANT MessageRoundTrip
CHECK_DEADLOCK FALSE
