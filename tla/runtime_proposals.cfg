SPECIFICATION Spec
CONSTANTS
    Actor = {a, b}
    NoActor = nobody
    Doc = {good, bad}
    Valid = {good}
    Client = {c}
    MaxPending = 2
    MaxSubscribers = 1
    MaxQueue = 1
    RejectEmptyDiff = FALSE
    MaxProposals = 3
    MaxGeneration = 2
    MaxIncarnation = 2
    MaxSubscriptions = 1
SYMMETRY Symmetry
INVARIANTS IndexExact DiffMatchesParent CommitOnce CancelledNeverCommitted
PROPERTIES LogSpec
CHECK_DEADLOCK FALSE
