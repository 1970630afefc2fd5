CONSTANTS
    j1 = j1
    j2 = j2
    j3 = j3
    b1 = b1
    b2 = b2
    Jobs = {j1, j2, j3}
    Streams = {}
    Backends = {b1}
    Suits <- SuitsAll
    MaxConcurrent = 1
    MaxAttempts = 2
    Managed = {}
    Reuse = TRUE
    NoBackend = NoBackend
SPECIFICATION Spec
INVARIANT CapacityRespected
