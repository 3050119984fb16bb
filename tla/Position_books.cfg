SPECIFICATION LiveSpec
CONSTANTS
    Keys = {k1}
    Workers = {loop, w1}
    Loop = loop
    MaxOpen = 1
    Lot = 2
    Spare = 0
    MaxEntries = 2
    MaxFlips = 3
    MaxLogouts = 0
    MaxCrashes = 1
    FaultKinds = {"buyLost", "stopLost", "stopRefused", "unwindRefused", "takeRefused", "takeLost", "queryFails", "cancelFails", "sellRefused", "sellLost", "saveFails", "breaks"}
    MaxFaults = 1
    NoKey = NoKey
INVARIANTS
    BooksMatch
PROPERTIES
    ClaimsEnd
