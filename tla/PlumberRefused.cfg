CONSTANTS
    NWatch = 1
    Sys = FALSE
    Clean = TRUE
    Verbose = FALSE
    Qos = 1
    PubCap = 1
    OutCap = 1
    MaxMsgs = 1
    MaxLines = 1
    MayRefuse = TRUE
    MayPanic = FALSE
SPECIFICATION Spec
CHECK_DEADLOCK FALSE
INVARIANTS SubscriptionsGranted
