CONSTANTS
    w1 = w1
    w2 = w2
    r1 = r1
    r2 = r2
    Workers = {w1}
    Requests = {r1, r2}
    MaxConcurrent = 1
    MaxFaults = 2
    Owner <- OwnerOf
SPECIFICATION FairSpec
INVARIANTS TypeOK LocalExact
PROPERTIES DriftRepaired 
