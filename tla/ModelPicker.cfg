SPECIFICATION Spec
CHECK_DEADLOCK FALSE
INVARIANTS
    TypeOK
    PulledIsPulled
    MessagesToPulled
    ButtonComesBack
    BannerMatches
CONSTANTS
    Models = {a, b}
    Suggested = {a, b}
    Uncensored = {b}
    Default = a
    Refreshes = {r1, r2}
    Pulls = {p1, p2}
    NoModel = NoModel
    a = a
    b = b
    r1 = r1
    r2 = r2
    p1 = p1
    p2 = p2
