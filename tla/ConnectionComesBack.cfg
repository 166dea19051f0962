CONSTANTS
    Setups <- Disconnecting
    MaxConns = 2
    MaxPackets = 0
SPECIFICATION Spec
CHECK_DEADLOCK FALSE
PROPERTIES NotReported
