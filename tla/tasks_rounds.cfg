CONSTANTS
    w1 = w1
    w2 = w2
    Once <- TwoTasks
    Periodic <- TwoPeriodic
    Bad <- SecondPeriodic
    Dateless = {}
    Plans <- FewPlans
    Keep <- FirstExpire
    Workers = {w1, w2}
    Limit = 2
    Cycle = 1
    MayExpire = FALSE
    MaxTime = 3
    MaxSwitches = 0
    MaxFaults = 1
    MaxCrashes = 1
SPECIFICATION Spec
CHECK_DEADLOCK FALSE
SYMMETRY Symmetry
INVARIANTS
    TypeOK
    OnceAtMostOnce
    ExecutedMeansRun
    PeriodicOncePerTime
