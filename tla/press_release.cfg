\* The selection changes while a button is held.
SPECIFICATION CharSpec
CONSTANTS
    tv1 = tv1
    tv2 = tv2
    Target = {1, 2}
    Client = {tv1, tv2}
    Owner <- MCOwner
    Conn = {}
    Button = {}
    Presser = {p1}
    MaxTargets = 2
    NoClient = NoClient
    NoConn = NoConn
PROPERTY PressReleased
