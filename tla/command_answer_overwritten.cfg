CONSTANTS
    c1 = c1
    c2 = c2
    c3 = c3
    Commands <- OneCommand
    BusCap = 1
    RespCap = 1
    MaxAnswers = 1
    MaxFaults = 0
    MaxCrashes = 0
SPECIFICATION Spec
CHECK_DEADLOCK FALSE
PROPERTIES
    AnswerStays
