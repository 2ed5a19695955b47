CONSTANTS
    c1 = c1
    c2 = c2
    c3 = c3
    Commands <- TwoCommands
    BusCap = 1
    RespCap = 1
    MaxAnswers = 2
    MaxFaults = 1
    MaxCrashes = 1
SPECIFICATION FairSpec
CHECK_DEADLOCK FALSE
INVARIANTS
    TypeOK
    LogIsTrue
    PublishedInOrder
    PendingIsUnderWay
PROPERTIES
    EventuallyDecided
