CONSTANTS
    s1 = s1
    s2 = s2
    DataTypes = {"telemetry", "attribute", "event"}
    Series <- OneSeries
    MsgPoints <- SinglePoint
    ChanCap = 2
    BatchSize = 2
    TickerOn = TRUE
    MayStop = TRUE
    MaxMsgs = 3
    MaxDbErrors = 1
SPECIFICATION Spec
CHECK_DEADLOCK FALSE
INVARIANTS
    TypeOK
    Conservation
    HandedOffOnce
    GracefulStopQuiescent
PROPERTIES
    AttributeMonotone
