SPECIFICATION Spec
CHECK_DEADLOCK FALSE
INVARIANTS
    TypeOK
    FileUpToDate
PROPERTIES
    AllOrNothing
    AnswerHasOwnFacts
    RequestsAnswered
    ImplementsFactStore
CONSTANTS
    Threads = {t1, t2}
    NoThread = NoThread
    Facts = {name, NAME, age}
    Key <- MCKey
    Extracted <- MCExtracted
    MayFail = {TRUE, FALSE}
    MaxRequests = 2
    MaxCrashes = 2
    name = name
    NAME = NAME
    age = age
    t1 = t1
    t2 = t2
