CONSTANTS
    NWatch = 1
    Sys = TRUE
    Clean = TRUE
    Verbose = TRUE
    Qos = 1
    PubCap = 2
    OutCap = 1
    MaxMsgs = 3
    MaxLines = 1
    MayRefuse = TRUE
    MayPanic = TRUE
SPECIFICATION Spec
CHECK_DEADLOCK FALSE
INVARIANTS TypeOK StoredInOrder NothingLost AckedIsQueued ConfirmedPublish CountedIsStored NoWedge
