SPECIFICATION Spec
CHECK_DEADLOCK FALSE
INVARIANT AckedOnDisk
CONSTANTS
    Threads = {t1}
    NoThread = NoThread
    Facts = {name, NAME, age}
    Key <- MCKey
    Extracted <- MCExtracted
    MayFail = {TRUE}
    MaxRequests = 1
    MaxCrashes = 0
    name = name
    NAME = NAME
    age = age
    t1 = t1
    t2 = t2
