CONSTANTS
    s1 = s1
    s2 = s2
    DataTypes = {"telemetry"}
    Series <- BothSeries
    MsgPoints <- EachOrBoth
    ChanCap = 2
    BatchSize = 2
    TickerOn = FALSE
    MayStop = TRUE
    MaxMsgs = 5
    MaxDbErrors = 0
SPECIFICATION Spec
CHECK_DEADLOCK FALSE
PROPERTIES
    ImplementsStore
