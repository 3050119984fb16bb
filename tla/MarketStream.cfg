SPECIFICATION LiveSpec
CONSTANTS
    Symbols = {s1, s2}
    Users = {u1}
    Clients = {c1, c2}
    MaxStreams = 3
    MaxDrops = 1
    Loop = Loop
CHECK_DEADLOCK FALSE
INVARIANTS
    TypeOK
    InSync
    WithinLimit
    BooksForViewers
PROPERTIES
    TicksArrive
    StopEnds
