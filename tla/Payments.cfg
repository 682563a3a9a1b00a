SPECIFICATION Spec
CONSTANTS
    p1 = p1
    p2 = p2
    p3 = p3
    Orders = {p1, p2, p3}
    Via <- Mixed
    Requests = {r1, r2, r3, r4}
    MaxRestarts = 1
SYMMETRY Symmetry
INVARIANTS TimeMatchesReports ShownPaidIsPaid PaidIsShown PendingIsKnown OrderInv
CHECK_DEADLOCK FALSE
