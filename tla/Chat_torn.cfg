SPECIFICATION Spec
CHECK_DEADLOCK FALSE
INVARIANT RepliesWhole
CONSTANTS
    Requests = {r1}
    NoRequest = NoRequest
    PoolSize = 1
    MaxWire = 2
    r1 = r1
