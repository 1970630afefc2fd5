SPECIFICATION Spec
CONSTANTS
    u1 = u1
    u2 = u2
    j1 = j1
    j2 = j2
    j3 = j3
    j4 = j4
    Users = {u1, u2}
    Jobs = {j1, j2, j3, j4}
    Owner <- Owners
    Weight <- Weights
    Costs = {1, 3}
    DebtPerWeight = 4
    RebalanceBelow = 2
    RebalanceTo = 1
    CreditCap = 2
    CreditRate = 1
    MaxStarts = 4
INVARIANTS TypeOK DebtsFollowUsage 
