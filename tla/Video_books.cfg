CONSTANTS
    g1 = g1
    g2 = g2
    NoOne = NoOne
    Runners = {g1, g2}
    Jobs = {1}
    MaxRetries = 1
    MaxFaults = 1
    MaxRefunds = 1
SPECIFICATION FairSpec
INVARIANTS TypeOK UnservedIsRefunded
PROPERTIES KeepsPromise  
