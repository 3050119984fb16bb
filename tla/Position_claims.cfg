SPECIFICATION Spec
CONSTANTS
    Keys = {k1, k2}
    Workers = {loop, w1, w2}
    Loop = loop
    MaxOpen = 1
    Lot = 1
    Spare = 0
    MaxEntries = 1
    MaxFlips = 2
    MaxLogouts = 1
    MaxCrashes = 1
    FaultKinds = {"buyLost", "stopLost", "stopRefused", "unwindRefused", "takeRefused", "takeLost", "queryFails", "cancelFails", "sellRefused", "sellLost", "saveFails", "breaks"}
    MaxFaults = 1
    NoKey = NoKey
SYMMETRY Symmetry
INVARIANTS
    OneWorkerPerKey
    EntryLimit
