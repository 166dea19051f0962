CONSTANTS
    NWatch = 1
    Sys = FALSE
    Clean = TRUE
    Verbose = FALSE
    Qos = 2
    PubCap = 1
    OutCap = 3
    MaxMsgs = 2
    MaxLines = 1
    MayRefuse = FALSE
    MayPanic = TRUE
SPECIFICATION FairSpec
CHECK_DEADLOCK FALSE
PROPERTIES  EveryMessageStored ReceivedPublishReturns
