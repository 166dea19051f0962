CONSTANTS
    NWatch = 1
    Sys = FALSE
    Clean = FALSE
    Verbose = TRUE
    Qos = 2
    PubCap = 1
    OutCap = 1
    MaxMsgs = 3
    MaxLines = 0
    MayRefuse = FALSE
    MayPanic = FALSE
SPECIFICATION Spec
CHECK_DEADLOCK FALSE
PROPERTIES ImplementsIngest
