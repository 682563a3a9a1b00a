------------------------------ MODULE LeaseLock ------------------------------
(***************************************************************************)
(* What a lock of LockStore promises (storage/databases/main/lock.py,      *)
(* class docstring): whoever has taken it holds it until it is dropped or  *)
(* times out.  The code keeps this between processes.  Within one it does  *)
(* not: the release of an earlier holder may unregister the Lock of the    *)
(* next one, and the upsert of a third then takes it, which is Overtake.   *)
(***************************************************************************)
EXTENDS Naturals

CONSTANTS
    Tasks,
    Proc,       \* Proc[t]: the process of task t
    None        \* no task

VARIABLES
    holder,     \* who holds the lock, or None
    over        \* those whose hold has been dropped or has timed out

Init == holder = None /\ over = {}

(* A hold is over for good.                                                 *)
End == over \subseteq over'

(* Someone takes a lock that is free, or was left behind.                   *)
Take ==
    /\ holder \in over \cup {None}
    /\ holder' \in Tasks

(* A lock is dropped.                                                       *)
Drop ==
    /\ holder \in over
    /\ holder' = None

(* A task takes the lock from another one of its process, of which a third   *)
(* has held it earlier.                                                     *)
Overtake ==
    /\ holder' \in Tasks
    /\ \E t \in over \ {holder} : Proc[t] = Proc[holder] /\ Proc[t] = Proc[holder']

Next == End /\ (UNCHANGED holder \/ Take \/ Drop \/ Overtake)

Spec == Init /\ [][Next]_<<holder, over>>

=============================================================================
