SPECIFICATION Spec
CONSTANTS
    o1 = o1
    o2 = o2
    Orders <- MCOrders
    Loops = {}
    Reconnects = {sweep}
    Users = {user}
    Amount <- MCAmount
    HasClient <- MCFirst
    Capped <- MCSecond
    Balance = 4
    MaxUtilization = 80
    Attempts = 1
    MaxCrashes = 1
    MaxFaults = 2
    NoTask = NoTask
INVARIANTS
    TypeOK
    LedgerExact
    NoOvercommit
    DurableWhileLive
PROPERTIES
    LifecycleSpec
