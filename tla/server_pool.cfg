SPECIFICATION Spec
CONSTANTS
    Conn = {c1, c2}
    Worker = {w1, w2}
    None = None
    MaxConnections = 2
    MaxPending = 1
    CloseWakes = TRUE
    MaxFrames = 1
INVARIANTS NoLostWakeup OpenTracked RunReturnsLast
PROPERTIES StopCompletes QueueDrains
CHECK_DEADLOCK FALSE
