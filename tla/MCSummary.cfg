SPECIFICATION MCSpec
CONSTANTS
    Tasks = {t1, t2}
    NoRequest = NoRequest
    Changed = Changed
    CacheSize = 1
    MaxVersion = 1
    MaxRequests = 2
    Input = 2
    Room = 1
    Limit = 1
    MaxWrites = 2
INVARIANTS
    OneProvider
    ActiveIsServed
    NothingOutlives
    AnswersAreSound
PROPERTIES
    SentOnlyIfWanted
    AllEnds
CHECK_DEADLOCK FALSE
