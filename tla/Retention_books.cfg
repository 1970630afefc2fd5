CONSTANTS
    w1 = w1
    w2 = w2
    q1 = q1
    q2 = q2
    c1 = c1
    p1 = p1
    Workers = {w1, w2}
    Requests = {q1, q2}
    Chats = {c1}
    Plain = {p1}
    Stubborn = {q2}
    BatchSize = 2
    MaxEvents = 1
SPECIFICATION FairSpec
INVARIANTS TypeOK RemovedOnce
PROPERTIES LossesExplained 
