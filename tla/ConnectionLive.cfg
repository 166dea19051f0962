CONSTANTS
    Setups <- Simple
    MaxConns = 2
    MaxPackets = 2
SPECIFICATION FairSpec
CHECK_DEADLOCK FALSE
PROPERTIES  Reconnects DisconnectReturns
