SPECIFICATION ViewSpec
CHECK_DEADLOCK FALSE
INVARIANTS
    TypeOK
    OnePlace
    SearchTree
    NoTaskLost
    BreadthFirst
    LeadsFollowed
    OneVisitPerIteration
    ReasonHonest
    ScanBudget
    GraphMirrorsRun
    GreenMeansFound
PROPERTIES
    ImplementsAreaSearch
CONSTANTS
    Areas = {probe, f1, f2, bad, gone}
    Probe = probe
    Files = {f1, f2}
    Readable = {f1, f2, bad}
    Undumpable = {bad}
    MaxIterations = 3
    MaxWallClock = 1
    MaxSeeds = 2
    MaxDirections = 1
    MaxKeep = 2
    Horizon = 1
    SizeModulus = 16
    probe = probe
    f1 = f1
    f2 = f2
    bad = bad
    gone = gone
