SPECIFICATION FairSpec
CONSTANTS
    Workers = {w1, w2}
    Requests = {r1, r2}
    Server <- OneServer
    Busy = w1
    Value <- SameValue
    Clean = "clean"
    QueueMax = 1
    MaxConsumers = 2
    Interval = 1
    Second = 2
    MaxClock = 3
    MaxFaults = 1
CHECK_DEADLOCK FALSE
INVARIANTS TypeOK SuppressionExplained 
PROPERTIES RepeatsExplained QueueDrains
