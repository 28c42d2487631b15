SPECIFICATION Spec
CHECK_DEADLOCK FALSE
INVARIANTS
    TypeOK
    EditsAccounted
    DryRunWritesNothing
    ReportCoversDisk
PROPERTIES
    EditsReplaceWhatWasShown
    ImplementsAreaSearch
CONSTANTS
    Areas = {probe, f, g, bad, new}
    Probe = probe
    Files = {f, g, bad, new}
    Existing = {f, g, bad}
    Escaping = {outside}
    Unresolvable = {loop}
    Position <- MCPosition
    Content <- MCContent
    Undumpable = {bad}
    MaxIterations = 2
    MaxSeeds = 2
    Paths = {f, g, new, outside, loop}
    MaxEdits = 1
    MaxDirections = 1
    probe = probe
    f = f
    g = g
    new = new
    outside = outside
    loop = loop
    bad = bad
