\* Two Apple TVs that read, write and are notified; saves that fail, stops
\* and crashes; a button is held meanwhile.
SPECIFICATION CharSpec
CONSTANTS
    tv1 = tv1
    tv2 = tv2
    Target = {1, 2}
    Client = {tv1, tv2}
    Owner <- MCOwner
    Conn = {}
    Button = {b}
    Presser = {p1}
    MaxTargets = 2
    NoClient = NoClient
    NoConn = NoConn
INVARIANT CharTypeOK
INVARIANT IdentifierKnown
INVARIANT ActiveKnown
INVARIANT Durable
