SPECIFICATION SubmitSpec
CONSTANTS
    Actor = {a}
    NoActor = nobody
    Doc = {good, better}
    Valid = {good, better}
    Client = {c}
    MaxPending = 2
    MaxSubscribers = 0
    MaxQueue = 1
    RejectEmptyDiff = FALSE
    MaxProposals = 4
    MaxGeneration = 2
    MaxIncarnation = 1
    MaxSubscriptions = 0
INVARIANT CaptureKept
CHECK_DEADLOCK FALSE
