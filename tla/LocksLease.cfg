SPECIFICATION FairSpec
CONSTANTS
    t1 = t1
    t2 = t2
    t3 = t3
    p1 = p1
    p2 = p2
    Tasks = {t1, t2, t3}
    None = none
    Timeout = 3
    MaxDelay = 1
    MaxShutdowns = 1
    Procs = {p1, p2}
    Proc <- TwoAndOne
INVARIANTS RegisteredLockIsKept LockInv
PROPERTIES LeaseSpec WaitersGetIn
CHECK_DEADLOCK FALSE
