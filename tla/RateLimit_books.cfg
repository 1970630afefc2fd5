CONSTANTS
    u1 = u1
    u2 = u2
    Users = {u1, u2}
    Slots = {1, 2}
    Limit = 1
    MaxKeys = 1
    MaxFailed = 2
SPECIFICATION RateFairSpec
INVARIANTS RateTypeOK WindowWithinLimit
 
