---------------------------- MODULE MCWorkerLocks ----------------------------
(* WorkerLocks for TLC: the tasks of the instances, by process.              *)
EXTENDS WorkerLocks, TLC

CONSTANTS t1, t2, t3, p1, p2

TwoAndOne == t1 :> p1 @@ t2 :> p1 @@ t3 :> p2

=============================================================================
