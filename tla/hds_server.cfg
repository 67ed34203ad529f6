\* Three HAP sessions of which two may have a session pending; the second TCP
\* connection may claim the keys of the first.
SPECIFICATION FairSpec
CONSTANTS
    Client = {tv1, tv2, tv3}
    Session = {s1, s2, s3}
    Tcp = {x1, x2}
    MaxPrepared = 2
    NoClient = NoClient
    NoSession = NoSession
CHECK_DEADLOCK FALSE
INVARIANT TypeOK
INVARIANT KeysUsedOnce
INVARIANT StreamsHaveHapSession
INVARIANT OpenAreListed
INVARIANT PendingBounded
PROPERTY PendingEnds
