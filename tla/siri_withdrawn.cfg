\* A recovery that is cancelled in its sleep.
SPECIFICATION Spec
CONSTANTS
    Caller = {a, b, c}
    StreamId = {i, j}
    Conn = {h1, h2}
    Recoverer = {r1, r2}
    LateOpen = TRUE
    None = None
SYMMETRY Symmetry
CHECK_DEADLOCK FALSE
INVARIANT TemporarilyDisabled
