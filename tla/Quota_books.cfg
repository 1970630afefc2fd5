CONSTANTS
    c1 = c1
    v1 = v1
    v2 = v2
    w1 = w1
    NoOne = NoOne
    NoKey = NoKey
    Chats = {c1}
    Videos = {v1, v2}
    Offline = {v2}
    Processes = {w1}
    Budget = 2
    MaxPeriods = 2
    MaxLost = 1
    MaxSeeds = 1
SPECIFICATION FairSpec
INVARIANTS TypeOK QuietIsExact
PROPERTIES LifetimeExplained 
CHECK_DEADLOCK FALSE
