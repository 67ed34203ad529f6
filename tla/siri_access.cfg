\* Three calls of start_siri() over two connections, a recovery, stop and start.
\* No symmetry: it would not be sound for what must happen.
SPECIFICATION FairSpec
CONSTANTS
    Caller = {a, b, c}
    StreamId = {i, j}
    Conn = {h1, h2}
    Recoverer = {r1}
    LateOpen = TRUE
    None = None
CHECK_DEADLOCK FALSE
INVARIANT TypeOK
INVARIANT OneUtterance
INVARIANT LockOwned
INVARIANT WithdrawnQuiet
INVARIANT StoppedQuiet
INVARIANT MessagesReach
PROPERTY SessionsLive
PROPERTY TurnsAreTaken
PROPERTY LockHandedOn
