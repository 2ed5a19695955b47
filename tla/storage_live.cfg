CONSTANTS
    s1 = s1
    s2 = s2
    DataTypes = {"telemetry"}
    Series <- BothSeries
    MsgPoints <- TwoKinds
    ChanCap = 1
    BatchSize = 2
    TickerOn = TRUE
    MayStop = FALSE
    MaxMsgs = 3
    MaxDbErrors = 0
SPECIFICATION FairSpec
CHECK_DEADLOCK FALSE
INVARIANTS
    CurrentCovered
PROPERTIES
    EventuallyStored
