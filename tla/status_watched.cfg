CONSTANTS
    Uplinks = {"telemetry", "event"}
    Handlers <- OneHandler
    Modes = {"message", "heartbeat", "timeout"}
    MayMiss = FALSE
    MaxBusiness = 2
    MaxStatus = 2
    MaxMessages = 3
    MaxFaults = 0
    MaxConfigs = 0
SPECIFICATION FairSpec
CHECK_DEADLOCK FALSE
INVARIANTS
    OnlineIsWatched
    FollowsBusOrder
PROPERTIES
    SilentGoesOffline
