SPECIFICATION Spec
CONSTANTS
    Writer = {w}
    NoWriter = nobody
    Payload = {1, 2, 3, 4}
    None = None
    Damaged = Damaged
    NotFound = NotFound
    Pruned = Pruned
    MaxGeneration = 3
    MaxEpoch = 2
    MaxGenerations = 3
    PruneOrphans = TRUE
    KeepCounts = {}
    MaxIncarnation = 3
    MaxFailures = 0
    MaxDamages = 0
PROPERTY CommitsAreDurable
CHECK_DEADLOCK FALSE
