SPECIFICATION SessionSpec
CONSTANTS
    Actor = {a}
    NoActor = nobody
    Doc = {good, better}
    Valid = {good, better}
    Client = {}
    MaxPending = 2
    MaxSubscribers = 1
    MaxQueue = 1
    RejectEmptyDiff = FALSE
    MaxProposals = 2
    MaxGeneration = 2
    MaxIncarnation = 2
    MaxSubscriptions = 1
    Conn = {c1, c2}
    Foreign = Foreign
    NoAnswer = NoAnswer
SYMMETRY Symmetry
INVARIANTS AckedIsCommitted BuildsOnWhatItSaw DropsAccounted GapsAnnounced
PROPERTIES NothingAfterFarewell
CHECK_DEADLOCK FALSE
