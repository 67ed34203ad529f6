\* Three targets of which two fit, HAP sessions of two Apple TVs, two HDS
\* connections, saves that fail, stops and crashes.
SPECIFICATION Spec
CONSTANTS
    tv1 = tv1
    tv2 = tv2
    Target = {1, 2, 3}
    Client = {tv1, tv2}
    Owner <- MCOwner
    Conn = {h1, h2}
    Button = {}
    MaxTargets = 2
    NoClient = NoClient
    NoConn = NoConn
SYMMETRY Symmetry
INVARIANT TypeOK
INVARIANT ActiveConfigured
INVARIANT ActiveClientConnected
INVARIANT ConnectionsRegistered
INVARIANT SessionFollowsTarget
