SPECIFICATION Spec
CHECK_DEADLOCK FALSE
PROPERTY WrittenIsOnDisk
CONSTANTS
    Areas = {probe, f, g}
    Probe = probe
    Files = {f, g}
    Existing = {f, g}
    Escaping = {outside}
    Unresolvable = {}
    Position <- MCPosition
    Content <- MCContent
    Undumpable = {}
    MaxIterations = 2
    MaxSeeds = 2
    Paths = {f, g, outside}
    MaxEdits = 1
    MaxDirections = 1
    probe = probe
    f = f
    g = g
    new = new
    outside = outside
    loop = loop
    bad = bad
