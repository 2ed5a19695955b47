CONSTANTS
    Uplinks = {"telemetry", "event"}
    Handlers <- OneHandler
    Modes = {"heartbeat"}
    MayMiss = TRUE
    MaxBusiness = 2
    MaxStatus = 1
    MaxMessages = 3
    MaxFaults = 1
    MaxConfigs = 1
SPECIFICATION Spec
CHECK_DEADLOCK FALSE
INVARIANTS
    TypeOK
    NoMissedNotice
