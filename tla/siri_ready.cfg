\* An Active=1 of the Apple TV that was selected before.
SPECIFICATION CharSpec
CONSTANTS
    tv1 = tv1
    tv2 = tv2
    Target = {1, 2}
    Client = {tv1, tv2}
    Owner <- MCOwner
    Conn = {h1}
    Button = {}
    Presser = {}
    MaxTargets = 2
    NoClient = NoClient
    NoConn = NoConn
INVARIANT SiriReadyMeansActivated
