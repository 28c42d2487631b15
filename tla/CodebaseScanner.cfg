SPECIFICATION Spec
CHECK_DEADLOCK FALSE
INVARIANTS
    TypeOK
    EstimateHolds
    PackedGreedily
    FilesAccounted
    SearchComplete
CONSTANTS
    Entries = {a, b, c, d, text, old, lock, dir}
    Files = {a, b, c, d, text, old}
    Dangling = {lock}
    Excluded = {old}
    Tracked = {a, b, c, d, old}
    Matching = {a, c, d, old, text}
    Flaky = {b, c}
    Vanishing = TRUE
    Position <- MCPosition
    Header <- MCHeader
    Content <- MCContent
    Budget = 6
    MaxResults = 2
    a = a
    b = b
    c = c
    d = d
    text = text
    old = old
    lock = lock
    dir = dir
