CONSTANTS
    s1 = s1
    s2 = s2
    DataTypes = {"telemetry"}
    Series <- OneSeries
    MsgPoints <- SinglePoint
    ChanCap = 1
    BatchSize = 2
    TickerOn = TRUE
    MayStop = FALSE
    MaxMsgs = 3
    MaxDbErrors = 0
SPECIFICATION Spec
CHECK_DEADLOCK FALSE
INVARIANTS
    CurrentIsLatest
