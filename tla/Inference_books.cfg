CONSTANTS
    j1 = j1
    j2 = j2
    j3 = j3
    b1 = b1
    b2 = b2
    Jobs = {j1, j2, j3}
    Streams = {j1}
    Backends = {b1}
    Suits <- SuitsAll
    MaxConcurrent = 1
    MaxAttempts = 1
    Managed = {b1}
    Reuse = TRUE
    NoBackend = NoBackend
SPECIFICATION Spec
INVARIANTS NoPhantomSlots 
PROPERTIES MiscountsExplained
SYMMETRY LikeJobs
