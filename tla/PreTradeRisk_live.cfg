SPECIFICATION LiveSpec
CONSTANTS
    o1 = o1
    o2 = o2
    Orders <- MCOrders
    Loops = {loop}
    Reconnects = {}
    Users = {}
    Amount <- MCAmount
    HasClient <- MCBoth
    Capped <- MCSecond
    Balance = 6
    MaxUtilization = 80
    Attempts = 1
    MaxCrashes = 1
    MaxFaults = 0
    NoTask = NoTask
PROPERTIES
    TerminalReleased
