CONSTANTS
    NWatch = 1
    Sys = FALSE
    Clean = TRUE
    Verbose = FALSE
    Qos = 1
    PubCap = 1
    OutCap = 1
    MaxMsgs = 3
    MaxLines = 1
    MayRefuse = FALSE
    MayPanic = FALSE
SPECIFICATION FairSpec
CHECK_DEADLOCK FALSE
PROPERTIES ReceivedPublishReturns
