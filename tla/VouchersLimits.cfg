SPECIFICATION Spec
CONSTANTS
    Users = {u1, u2}
    Codes = {c1}
    Requests = {r1, r2, r3}
    Admins = {a1}
    Limits = {1, 2}
    Retries = 1
    Days = 1
    MaxTime = 1
    MaxCrashes = 1
SYMMETRY Symmetry
INVARIANTS TypeOK CountMatchesRows ReservationInv
PROPERTIES RedeemedWithinLimits
CHECK_DEADLOCK FALSE
