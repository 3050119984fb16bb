SPECIFICATION LiveSpec
CONSTANTS
    Browsers = {b1, b2}
    Boot = Boot
    Keys = {good, weak}
    Trading = {good}
    Reading = {weak}
    MaxCrashes = 1
    NoKey = NoKey
CHECK_DEADLOCK FALSE
INVARIANTS
    TypeOK
    OnlyAcceptedTradeUnlessMixed
    LiveIsStored
    KeysForPositions
PROPERTIES
    KeysReturn
