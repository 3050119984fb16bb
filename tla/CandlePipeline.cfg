SPECIFICATION Spec
CONSTANTS
    Fast = 2
    Slow = 2
    Prices = {1, 3}
    History = 2
    Limit = 2
    MaxMinute = 5
    MaxWire = 1
    MaxAdds = 2
    MaxLosses = 1
    Loads = {l1, l2}
CHECK_DEADLOCK FALSE
INVARIANTS
    TypeOK
    FollowsHistory
    RollingExact
    
    OrderedUnlessStraddled
