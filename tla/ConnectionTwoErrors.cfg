CONSTANTS
    Setups <- Writing
    MaxConns = 1
    MaxPackets = 0
SPECIFICATION FairSpec
CHECK_DEADLOCK FALSE
PROPERTIES Reported
