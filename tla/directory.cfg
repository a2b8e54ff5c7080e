SPECIFICATION Spec
CONSTANTS
    Process = {p1, p2, p3}
    Domain = {d1, d2}
    Payload = {x, y}
    LockFile = {f1, f2}
    None = None
    MaxCreations = 2
    MaxCommits = 2
INVARIANTS OneWriter HolderIsCurrent Serviceable
PROPERTY CommittedStay
