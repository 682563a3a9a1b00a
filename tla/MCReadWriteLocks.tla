-------------------------- MODULE MCReadWriteLocks --------------------------
(* ReadWriteLocks for TLC: tasks that want one lock or two.                  *)
EXTENDS ReadWriteLocks, TLC

CONSTANTS l1, l2, p1, p2, t1, t2, t3

TwoAndOne == t1 :> p1 @@ t2 :> p1 @@ t3 :> p2
Overlapping == t1 :> {l1, l2} @@ t2 :> {l1, l2} @@ t3 :> {l1}

=============================================================================
