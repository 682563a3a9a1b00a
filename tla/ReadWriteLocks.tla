--------------------------- MODULE ReadWriteLocks ---------------------------
(***************************************************************************)
(* The read/write locks between workers: the table                         *)
(* worker_read_write_locks (storage/databases/main/lock.py, schema deltas  *)
(* 78 to 80) and the tasks that wait for one lock or for several at once   *)
(* (WaitingLock and WaitingMultiLock in handlers/worker_lock.py).          *)
(*                                                                         *)
(* A lock is taken by inserting a row, which the constraints of the tables *)
(* refuse while there is a writer, or a reader of a writer's lock; several *)
(* are inserted in one transaction.  Rows that are not renewed are only    *)
(* removed by the reaper.  A notice of a release ends a wait early, which  *)
(* the retry timer may do at any time as well.                             *)
(***************************************************************************)
EXTENDS Naturals

CONSTANTS
    Locks,
    Procs,
    Tasks,
    Proc,      \* Proc[t]: the process of task t
    Wants,     \* Wants[t]: the locks task t acquires
    Writes,    \* the tasks that acquire in write mode
    Timeout    \* _LOCK_TIMEOUT_MS, in ticks

ASSUME TaskAssumption == /\ Proc \in [Tasks -> Procs]
                         /\ Wants \in [Tasks -> SUBSET Locks]
                         /\ Writes \subseteq Tasks
ASSUME TimeoutAssumption == Timeout \in Nat

VARIABLES
    rows,     \* worker_read_write_locks: pairs of a lock and the task that took it
    age,      \* age[l, t]: the time since last_renewed_ts of that row
    at,       \* at[t]: where task t is
    drops,    \* drops[t]: the locks that t has still to release
    lapsed    \* history: the pairs that reached an age at which they may be reaped

vars == <<rows, age, at, drops, lapsed>>

Points == {"new", "try", "wait", "held", "dropped", "release", "done", "dead"}

Held(l, t) == at[t] = "held" /\ l \in Wants[t]

Init ==
    /\ rows = {}
    /\ age = [r \in Locks \X Tasks |-> 0]
    /\ at = [t \in Tasks |-> "new"]
    /\ drops = [t \in Tasks |-> {}]
    /\ lapsed = {}

(* acquire_read_write_lock or acquire_multi_read_write_lock, and __aenter__. *)
Enter(t) ==
    /\ at[t] = "new"
    /\ at' = [at EXCEPT ![t] = "try"]
    /\ UNCHANGED <<rows, age, drops, lapsed>>

(* The ages of the rows that are left.                                      *)
AgesOf(left) == [r \in Locks \X Tasks |-> IF r \in left THEN age[r] ELSE 0]

(* Mutant: the mode of the lock is not compared.                             *)
ConflictMutant(t, l) == \E u \in Tasks : <<l, u>> \in rows /\ {t, u} \subseteq Writes

(* What the foreign key to worker_read_write_locks_mode and the unique index *)
(* on write locks refuse: rows of both modes, and two rows in write mode.   *)
Conflict(t, l) == \E u \in Tasks : <<l, u>> \in rows /\ {t, u} \cap Writes # {}

(* Mutant: the locks that are free are taken, and kept while waiting.        *)
AcquireMutant(t) ==
    LET free == {l \in Wants[t] : <<l, t>> \in rows \/ ~ Conflict(t, l)} IN
    /\ at[t] = "try"
    /\ rows' = rows \cup (free \X {t})
    /\ at' = [at EXCEPT ![t] = IF free = Wants[t] THEN "held" ELSE "wait"]
    /\ UNCHANGED <<age, drops, lapsed>>

(* try_acquire_read_write_lock and try_acquire_multi_read_write_lock: all    *)
(* rows are inserted, or an IntegrityError rolls the transaction back.      *)
Acquire(t) ==
    /\ at[t] = "try"
    /\ \A l \in Wants[t] : ~ Conflict(t, l)
    /\ rows' = rows \cup (Wants[t] \X {t})
    /\ age' = [r \in Locks \X Tasks |-> IF r \in Wants[t] \X {t} THEN 0 ELSE age[r]]
    /\ at' = [at EXCEPT ![t] = "held"]
    /\ UNCHANGED <<drops, lapsed>>

Refused(t) ==
    /\ at[t] = "try"
    /\ \E l \in Wants[t] : Conflict(t, l)
    /\ at' = [at EXCEPT ![t] = "wait"]
    /\ UNCHANGED <<rows, age, drops, lapsed>>

Retry(t) ==
    /\ at[t] = "wait"
    /\ at' = [at EXCEPT ![t] = "try"]
    /\ UNCHANGED <<rows, age, drops, lapsed>>

(* _renew of one lock, which its Lock repeats until it is released: the     *)
(* update finds the row, or nothing.                                        *)
Renew(l, t) ==
    /\ at[t] \notin {"release", "dropped", "done", "dead"}
    /\ <<l, t>> \in rows
    /\ age' = [age EXCEPT ![<<l, t>>] = 0]
    /\ UNCHANGED <<rows, at, drops, lapsed>>

(* __aexit__, and the exit of the stack of locks, one after the other.      *)
Exit(t) ==
    /\ at[t] \in {"held", "dropped"}
    /\ at' = [at EXCEPT ![t] = IF at[t] = "held" THEN "release" ELSE "done"]
    /\ drops' = [drops EXCEPT ![t] = IF at[t] = "held" THEN Wants[t] ELSE {}]
    /\ UNCHANGED <<rows, age, lapsed>>

(* release: the row with this token is deleted.                             *)
Release(t) ==
    /\ at[t] = "release"
    /\ \E l \in drops[t] :
          /\ rows' = rows \ {<<l, t>>}
          /\ drops' = [drops EXCEPT ![t] = @ \ {l}]
          /\ at' = [at EXCEPT ![t] = IF drops[t] = {l} THEN "done" ELSE @]
    /\ age' = AgesOf(rows')
    /\ UNCHANGED lapsed

(* Mutant: rows are reaped one tick early.                                   *)
ReapMutant ==
    /\ rows' = {r \in rows : age[r] < Timeout}
    /\ rows' # rows
    /\ age' = AgesOf(rows')
    /\ UNCHANGED <<at, drops, lapsed>>

(* _reap_stale_read_write_locks, of any process.                            *)
Reap ==
    /\ rows' = {r \in rows : age[r] <= Timeout}
    /\ rows' # rows
    /\ age' = AgesOf(rows')
    /\ UNCHANGED <<at, drops, lapsed>>

(* _on_shutdown: the locks of p go while its tasks still work.              *)
OnShutdown(p) ==
    LET holders == {t \in Tasks : Proc[t] = p /\ at[t] = "held"} IN
    /\ holders # {}
    /\ rows' = {r \in rows : r[2] \notin holders}
    /\ age' = AgesOf(rows')
    /\ at' = [t \in Tasks |-> IF t \in holders THEN "dropped" ELSE at[t]]
    /\ UNCHANGED <<drops, lapsed>>

(* A process dies; its rows stay for the reaper.                            *)
Crash(p) ==
    /\ \E t \in Tasks : Proc[t] = p /\ at[t] \notin {"done", "dead"}
    /\ at' = [t \in Tasks |-> IF Proc[t] = p THEN "dead" ELSE at[t]]
    /\ drops' = [t \in Tasks |-> IF Proc[t] = p THEN {} ELSE drops[t]]
    /\ UNCHANGED <<rows, age, lapsed>>

(* Time passes; ages beyond the timeout need no more telling apart.         *)
Tick ==
    /\ age' = [r \in Locks \X Tasks |->
                 IF r \in rows /\ age[r] <= Timeout THEN age[r] + 1 ELSE age[r]]
    /\ lapsed' = lapsed \cup {r \in rows : age[r] >= Timeout}
    /\ UNCHANGED <<rows, at, drops>>

Step(t) == Acquire(t) \/ Refused(t) \/ Retry(t) \/ Exit(t) \/ Release(t)

Next ==
    \/ \E t \in Tasks : Enter(t) \/ Step(t)
    \/ \E t \in Tasks : \E l \in Wants[t] : Renew(l, t)
    \/ \E p \in Procs : OnShutdown(p) \/ Crash(p)
    \/ Reap \/ Tick

Spec == Init /\ [][Next]_vars

(* A task that lives goes on, time passes and some process reaps.           *)
Fairness == WF_vars(Tick) /\ WF_vars(Reap) /\ \A t \in Tasks : WF_vars(Step(t))

FairSpec == Spec /\ Fairness

-----------------------------------------------------------------------------
(* Every variable keeps its type.                                           *)
TypeOK ==
    /\ rows \subseteq Locks \X Tasks
    /\ age \in [Locks \X Tasks -> 0 .. Timeout + 1]
    /\ at \in [Tasks -> Points]
    /\ drops \in [Tasks -> SUBSET Locks]
    /\ lapsed \subseteq Locks \X Tasks

(* Of those who hold a lock and have renewed it in time, a writer is alone:  *)
(* read xor write, across processes, crashes and reaping.                   *)
WritersAreAlone ==
    \A l \in Locks : \A t, u \in Tasks :
        /\ Held(l, t) /\ <<l, t>> \notin lapsed
        /\ Held(l, u) /\ <<l, u>> \notin lapsed
        /\ t # u
        => {t, u} \cap Writes = {}

(* Tasks that need several locks never wait for each other for ever.        *)
NobodyWaitsForEver ==
    \A t \in Tasks : at[t] = "wait" ~> at[t] \in {"held", "dead"}

-----------------------------------------------------------------------------
(* The inductive invariant: the rows obey the constraints of the tables, a  *)
(* holder that renews in time has its rows, and an old row has lapsed.      *)
RWInv ==
    /\ TypeOK
    /\ \A l \in Locks : \A t, u \in Tasks :
          <<l, t>> \in rows /\ <<l, u>> \in rows /\ t # u => {t, u} \cap Writes = {}
    /\ \A t \in Tasks : \A l \in Wants[t] :
          at[t] = "held" /\ <<l, t>> \notin lapsed => <<l, t>> \in rows
    /\ \A r \in rows : age[r] > Timeout => r \in lapsed

=============================================================================
