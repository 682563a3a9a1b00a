SPECIFICATION FairSpec
CONSTANTS
    l1 = l1
    l2 = l2
    p1 = p1
    p2 = p2
    t1 = t1
    t2 = t2
    t3 = t3
    Locks = {l1, l2}
    Procs = {p1, p2}
    Timeout = 1
    Tasks = {t1, t2, t3}
    Proc <- TwoAndOne
    Wants <- Overlapping
    Writes = {t1}
INVARIANTS WritersAreAlone RWInv
PROPERTIES NobodyWaitsForEver
CHECK_DEADLOCK FALSE
