SPECIFICATION Spec
CONSTANTS
    Clients = {c1, c2}
    Kinds = {"candles", "books", "signals"}
    MaxVersion = 2
CHECK_DEADLOCK FALSE
INVARIANTS
    TypeOK
    NoLostWakeup
    CauseFirst
PROPERTIES
    Arrives
