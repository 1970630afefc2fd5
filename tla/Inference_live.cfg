CONSTANTS
    j1 = j1
    j2 = j2
    j3 = j3
    b1 = b1
    b2 = b2
    Jobs = {j1, j2}
    Streams = {j1}
    Backends = {b1, b2}
    Suits <- SuitsMixed
    MaxConcurrent = 1
    MaxAttempts = 2
    Managed = {}
    Reuse = FALSE
    NoBackend = NoBackend
SPECIFICATION FairSpec
INVARIANTS TypeOK SlotDiscipline
PROPERTIES RequestsEnd LeaksReclaimed RowsSettle
