SPECIFICATION Spec
CHECK_DEADLOCK FALSE
PROPERTY KeptAndRejectedAddUp
CONSTANTS
    Areas = {probe, f1, f2, gone}
    Probe = probe
    Files = {f1, f2}
    Readable = {f1, f2}
    Undumpable = {}
    MaxIterations = 3
    MaxWallClock = 1
    MaxSeeds = 2
    MaxDirections = 1
    MaxKeep = 2
    Horizon = 1
    SizeModulus = 16
    probe = probe
    f1 = f1
    f2 = f2
    gone = gone
