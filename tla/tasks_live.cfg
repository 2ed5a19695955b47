CONSTANTS
    w1 = w1
    w2 = w2
    Once <- TwoTasks
    Periodic <- TwoPeriodic
    Bad = {}
    Dateless = {}
    Plans <- AtOnce
    Keep <- FirstExpire
    Workers = {w1}
    Limit = 1
    Cycle = 1
    MayExpire = FALSE
    MaxTime = 2
    MaxSwitches = 1
    MaxFaults = 0
    MaxCrashes = 1
SPECIFICATION FairSpec
CHECK_DEADLOCK FALSE
PROPERTIES
    DueIsTaken
    PeriodicGoesOn
