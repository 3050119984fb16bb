SPECIFICATION Spec
CONSTANTS
    Tasks = {t1}
    MaxOrders = 3
    Lot = 1
    Spare = 1
    Funds = 1
    Exits = FALSE
    MaxFaults = 0
CHECK_DEADLOCK FALSE
INVARIANTS
    ClosedOnce
