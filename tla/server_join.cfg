SPECIFICATION Spec
CONSTANTS
    Conn = {c1, c2}
    Worker = {w1, w2}
    None = None
    MaxConnections = 2
    MaxPending = 1
    CloseWakes = FALSE
    MaxFrames = 1
PROPERTY ShutdownJoins
CHECK_DEADLOCK FALSE
