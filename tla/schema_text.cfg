SPECIFICATION Spec
CONSTANTS
    MaxInt64 = 15
    MaxUint32 = 3
    MaxMembers = 1
    MaxSpeed = 5
    Unit <- MCUnit
    Json <- MCJson
    Versions <- MCVersions
INVARIANTS FaithfulUpgrade NothingIgnored RoundTrip
CHECK_DEADLOCK FALSE
