CONSTANTS
    c1 = c1
    v1 = v1
    v2 = v2
    w1 = w1
    NoOne = NoOne
    NoKey = NoKey
    Chats = {}
    Videos = {v1, v2}
    Offline = {}
    Processes = {w1}
    Budget = 1
    MaxPeriods = 2
    MaxLost = 0
    MaxSeeds = 0
SPECIFICATION Spec
INVARIANT ReservationsFit
CHECK_DEADLOCK FALSE
