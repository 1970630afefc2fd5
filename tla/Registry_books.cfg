CONSTANTS
    w1 = w1
    Workers = {w1}
    BreakerThreshold = 2
    UnhealthyThreshold = 2
    Crashing = {w1}
    MaxInflight = 2
SPECIFICATION FairSpec
INVARIANTS TrippedCircuitsRetrip
PROPERTIES AdminStatusExplained RecoversWhenUp 
