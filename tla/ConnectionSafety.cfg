CONSTANTS
    Setups <- Mixed
    MaxConns = 3
    MaxPackets = 1
SPECIFICATION Spec
CONSTRAINT Explored
CHECK_DEADLOCK FALSE
INVARIANTS TypeOK NoPanic ConnInUse OneLogic WorkersEndFirst  Released
 
