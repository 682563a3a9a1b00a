SPECIFICATION FairSpec
CONSTANTS
    Users = {u1, u2}
    Codes = {c1, c2}
    Requests = {r1, r2}
    Admins = {}
    Limits = {2}
    Retries = 1
    Days = 1
    MaxTime = 1
    MaxCrashes = 1
INVARIANTS NoTimeWithoutRedemption TimeInv RedemptionsAreKept KeptInv
PROPERTIES CallsReturn RedemptionsAreGranted
CHECK_DEADLOCK FALSE
