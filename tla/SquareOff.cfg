SPECIFICATION Spec
CONSTANTS
    Tasks = {t1, t2}
    MaxOrders = 3
    Lot = 2
    Spare = 2
    Funds = 2
    Exits = TRUE
    MaxFaults = 1
SYMMETRY Symmetry
CHECK_DEADLOCK FALSE
INVARIANTS
    TypeOK
    
    RowsTell
    
    ClaimsHeld
