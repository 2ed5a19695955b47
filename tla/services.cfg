CONSTANTS
    OtaDetails <- OtaTwoDetails
    OtaDevice <- OtaOwnDevice
    OtaCalls = {"call 1", "call 2"}
    OtaMaxCalls = 3
    OtaMaxFaults = 1
    WsServers = {"server 1"}
    WsHome <- OneServer
    WsByKey = {"client 2"}
    WsQueueSize = 1
    WsMayExpire = FALSE
    WsMaxUpdates = 1
    WsMaxFaults = 1
    WsMaxCrashes = 1
    LcOrder <- LcFour
    LcHanging = {"downlink"}
    LcCallbacks = {"callback 1", "callback 2"}
    LcBusSize = 1
    LcMaxMessages = 3
    LcWaitFirst = FALSE
    EdValues = {"value 1", "value 2"}
    EdCalls = {"call 1"}
    EdNotices = {"notice 1"}
    EdMaxOnline = 1
    EdMaxFaults = 1
    EdMaxCrashes = 1
    Scenes = {"scene 1"}
    ScAtStart = {"scene 1"}
    ScOf <- ScOneOf
    ScKindOf <- ScOneKind
    ScPasses <- ScOne
    ScEdits = {"edit 1"}
    ScMayExpire = FALSE
    ScMaxEdits = 2
    ScMaxFaults = 1
    AlDevices = {"device 1", "device 2"}
    AlSources <- AlTwoGroups
    AlOfKind = {}
    AlConfigs = {"config 1"}
    AlBreaks = {"check", "row", "alarm", "mark"}
    AlTimed = TRUE
    AlMaxFaults = 1
    DsScripts = {"script 1", "script 2"}
    DsTypes = {"type 1"}
    DsEdits = {"edit 1"}
    DsMessages = {"message 1", "message 2"}
    DsBreaks = {"get", "load", "set", "del", "stop"}
    DsMayMove = FALSE
    DsMayOverlap = FALSE
    DsMaxEdits = 3
    DsMaxFaults = 1
    BiTemplates <- BiOneTemplate
    BiBoards <- BiOneBoard
    BiNeeds <- BiOneNeed
    BiRequired = {"board 1"}
    BiInstalls = {"install"}
    BiDownloads = {"download"}
    BiCalls = {"call 1", "call 2"}
    BiUpgrade = FALSE
    BiMayRepeat = FALSE
    BiMayOverlap = FALSE
    BiMaxCalls = 3
    BiMaxTemplates = 2
    BiMaxFaults = 1
    GtDevices = {"top", "mid", "sub 1", "sub 2"}
    GtKinds <- GtFour
    GtAbsent = {"sub 2"}
    GtRequests <- GtFew
    GtCallers = {"call 1"}
    GtDownLevels = 10
    GtUpLevels = 5
    GtMaxCalls = 3
    GtMaxSends = 1
SPECIFICATION ServicesSafety
CHECK_DEADLOCK FALSE
INVARIANTS
    ServicesTypeOK
    OtaWaitingIsPushed
    WsFed
    WsPushSafe
    LcBackpressure
    EdRowsAreTrue
    
    AlHistoryTellsTruth
    
    BiRecordsAreTrue
    
    
