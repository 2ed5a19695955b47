CONSTANTS
    OtaDetails <- OtaTwoDetails
    OtaDevice <- OtaOwnDevice
    OtaCalls = {"call 1"}
    OtaMaxCalls = 1
    OtaMaxFaults = 1
    WsServers = {"server 1"}
    WsHome <- OneServer
    WsByKey = {"client 2"}
    WsQueueSize = 1
    WsMayExpire = FALSE
    WsMaxUpdates = 0
    WsMaxFaults = 0
    WsMaxCrashes = 1
    LcOrder <- LcFour
    LcHanging = {"downlink"}
    LcCallbacks = {"callback 1", "callback 2"}
    LcBusSize = 1
    LcMaxMessages = 2
    LcWaitFirst = FALSE
    EdValues = {"value 1", "value 2"}
    EdCalls = {"call 1"}
    EdNotices = {"notice 1"}
    EdMaxOnline = 1
    EdMaxFaults = 0
    EdMaxCrashes = 0
    Scenes = {"scene 1", "scene 2"}
    ScAtStart = {"scene 1"}
    ScOf <- ScTwoOf
    ScKindOf <- ScOneKind
    ScPasses <- ScOne
    ScEdits = {"edit 1"}
    ScMayExpire = TRUE
    ScMaxEdits = 1
    ScMaxFaults = 0
    AlDevices = {"device 1"}
    AlSources <- AlOneGroup
    AlOfKind = {}
    AlConfigs = {"config 1"}
    AlBreaks = {}
    AlTimed = FALSE
    AlMaxFaults = 0
    DsScripts = {"script 1"}
    DsTypes = {"type 1", "type 2"}
    DsEdits = {"edit 1", "edit 2"}
    DsMessages = {"message 1"}
    DsBreaks = {"delete"}
    DsMayMove = TRUE
    DsMayOverlap = TRUE
    DsMaxEdits = 2
    DsMaxFaults = 1
    BiTemplates <- BiOneTemplate
    BiBoards <- BiOneBoard
    BiNeeds <- BiOneNeed
    BiRequired = {"board 1"}
    BiInstalls = {"install"}
    BiDownloads = {"download"}
    BiCalls = {"call 1"}
    BiUpgrade = TRUE
    BiMayRepeat = TRUE
    BiMayOverlap = TRUE
    BiMaxCalls = 1
    BiMaxTemplates = 1
    BiMaxFaults = 0
    GtDevices = {"top", "mid", "sub 1", "sub 2"}
    GtKinds <- GtFour
    GtAbsent = {"sub 2"}
    GtRequests <- GtOthers
    GtCallers = {"call 1", "call 2"}
    GtDownLevels = 10
    GtUpLevels = 5
    GtMaxCalls = 2
    GtMaxSends = 0
SPECIFICATION ServicesSpec
CHECK_DEADLOCK FALSE
PROPERTIES
    ServicesDecide
    WsKeyGoes
    
    
