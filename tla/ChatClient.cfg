SPECIFICATION Spec
CHECK_DEADLOCK FALSE
INVARIANTS
    TypeOK
    StoredRepliesWhole
    RepliesInPlace
    AbortsAttributed
PROPERTIES
    Settles
    ThreadsReleased
CONSTANTS
    Requests = {r1, r2}
    NoRequest = NoRequest
    PoolSize = 1
    MaxWire = 2
    r1 = r1
    r2 = r2
