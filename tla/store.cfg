SPECIFICATION Spec
CONSTANTS
    Writer = {w}
    NoWriter = nobody
    Payload = {1, 2, 3}
    None = None
    Damaged = Damaged
    NotFound = NotFound
    Pruned = Pruned
    MaxGeneration = 3
    MaxEpoch = 2
    MaxGenerations = 3
    PruneOrphans = TRUE
    KeepCounts = {1, 2}
    MaxIncarnation = 3
    MaxFailures = 1
    MaxDamages = 2
INVARIANTS TypeOK NoLostUpdate MemoryMatchesDisk BackupTrails HeadRecordKept LoadServesCommitted Reopenable
PROPERTIES NoSilentLoss LogSpec
CHECK_DEADLOCK FALSE
