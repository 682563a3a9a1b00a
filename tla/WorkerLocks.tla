----------------------------- MODULE WorkerLocks -----------------------------
(***************************************************************************)
(* A lock between workers: the row of one (lock_name, lock_key) in the     *)
(* table worker_locks (storage/databases/main/lock.py) and the tasks that  *)
(* wait for it (handlers/worker_lock.py).                                  *)
(*                                                                         *)
(* A holder renews the row; a row that was not renewed for Timeout ticks   *)
(* may be taken over.  Time is kept as ages: of the row since its          *)
(* last_renewed_ts, of what a task has read, and of the `now` it took      *)
(* before its upsert.  A task runs `async with acquire_lock(...)` once.    *)
(* The instance name in the row is the ID of a process run, so a restarted *)
(* process is another member of Procs.                                     *)
(***************************************************************************)
EXTENDS Naturals, FiniteSets

CONSTANTS
    Procs,
    Tasks,
    Proc,           \* Proc[t]: the process of task t
    None,           \* no task
    Timeout,        \* _LOCK_TIMEOUT_MS, in ticks
    MaxDelay,       \* bound: the ticks that a statement may take
    MaxShutdowns    \* bound: the processes that shut down

ASSUME ProcAssumption == Proc \in [Tasks -> Procs] /\ None \notin Tasks
ASSUME TimeAssumption == Timeout \in Nat \ {0} /\ MaxDelay \in Nat
ASSUME BoundAssumption == MaxShutdowns \in Nat

VARIABLES
    row,      \* the row: its token (a task takes the lock once, so the task) and age
    live,     \* live[p]: _live_lock_tokens of p
    task,     \* task[t]: a WaitingLock
    wakes,    \* the processes that a LOCK_RELEASED notice is on its way to
    shut,     \* shut[p]: _on_shutdown of p
    lapsed    \* history: the holders whose row has come within MaxDelay of Timeout

vars == <<row, live, task, wakes, shut, lapsed>>

(* The points of try_acquire_lock, and of all of __aenter__.                *)
Attempt == {"check", "judge", "upsert"}

Entering == Attempt \cup {"try", "wait"}

Points == Entering \cup {"held", "release", "pop", "dropped", "done", "dead"}

(* The oldest age that any comparison tells apart.                          *)
MaxAge == Timeout + MaxDelay + 1

(* A task: its point, whether its deferred has been called, the Lock of the *)
(* process it looks at, the age its SELECT has found, and the ticks since   *)
(* that SELECT or since `now`.                                              *)
TaskState == [at : Points, woken : BOOLEAN, seen : Tasks \cup {None}, read : 0 .. MaxAge,
              delay : 0 .. MaxDelay]

Fresh(point) == [at |-> point, woken |-> FALSE, seen |-> None, read |-> 0, delay |-> 0]

NoRow == [token |-> None, age |-> 0]

(* A shutdown: the next step of release, and the Lock it is called on.      *)
ShutState == [at : {"run", "delete", "pop", "done"}, lock : Tasks \cup {None}]

-----------------------------------------------------------------------------
(* The processes with a WaitingLock that a notice could wake up.            *)
Waiting == {Proc[t] : t \in {u \in Tasks : task[u].at \in Entering}}

(* A process that has something left to do.                                 *)
Running(p) == \E t \in Tasks : Proc[t] = p /\ task[t].at \notin {"done", "dead"}

(* _acquiring_locks of process p.                                           *)
Acquiring(p) == \E t \in Tasks : Proc[t] = p /\ task[t].at \in Attempt

Init ==
    /\ row = NoRow
    /\ live = [p \in Procs |-> None]
    /\ task = [t \in Tasks |-> Fresh("try")]
    /\ wakes = {}
    /\ shut = [p \in Procs |-> [at |-> "run", lock |-> None]]
    /\ lapsed = {}

(* Mutant: a task does not mind that another one of its process is at it.    *)
TryMutant(t) ==
    /\ task[t].at = "try"
    /\ task' = [task EXCEPT ![t] =
          [at    |-> IF live[Proc[t]] # None THEN "check" ELSE "upsert",
           woken |-> FALSE, seen |-> live[Proc[t]], read |-> 0, delay |-> 0]]
    /\ UNCHANGED <<row, live, wakes, shut, lapsed>>

(* A turn of the loop in __aenter__: a new deferred, then try_acquire_lock   *)
(* up to its first await.  It fails while another task of the process is     *)
(* acquiring.                                                               *)
Try(t) ==
    LET p == Proc[t] IN
    /\ task[t].at = "try"
    /\ task' = [task EXCEPT ![t] =
          [at    |-> CASE Acquiring(p) -> "wait"
                       [] ~ Acquiring(p) /\ live[p] # None -> "check"
                       [] OTHER -> "upsert",
           woken |-> FALSE,
           seen  |-> IF Acquiring(p) THEN None ELSE live[p],
           read  |-> 0, delay |-> 0]]
    /\ UNCHANGED <<row, live, wakes, shut, lapsed>>

(* is_still_valid reads the row of the Lock that this process has ...       *)
IsStillValid(t) ==
    /\ task[t].at = "check"
    /\ task' = [task EXCEPT ![t] = IF row.token = @.seen
                                   THEN [@ EXCEPT !.at = "judge", !.read = row.age]
                                   ELSE [@ EXCEPT !.at = "judge", !.seen = None]]
    /\ UNCHANGED <<row, live, wakes, shut, lapsed>>

(* ... and then the clock: the row may have been renewed meanwhile.  A Lock  *)
(* that is not valid is passed over, and `now` is taken.                    *)
Judge(t) ==
    LET valid == task[t].seen # None /\ task[t].read + task[t].delay < Timeout IN
    /\ task[t].at = "judge"
    /\ task' = [task EXCEPT ![t] = [Fresh(IF valid THEN "wait" ELSE "upsert")
                                       EXCEPT !.woken = task[t].woken]]
    /\ UNCHANGED <<row, live, wakes, shut, lapsed>>

(* Mutant: ON CONFLICT DO UPDATE without the WHERE.                          *)
MayTakeMutant(t) == TRUE

(* WHERE last_renewed_ts < now - timeout OR the row is of this instance.    *)
MayTake(t) ==
    \/ row.token = None
    \/ row.age > Timeout + task[t].delay
    \/ Proc[row.token] = Proc[t]

(* The upsert, and the registration of the new Lock.                        *)
Upsert(t) ==
    /\ task[t].at = "upsert"
    /\ IF MayTake(t)
       THEN /\ row' = [token |-> t, age |-> task[t].delay]
            /\ live' = [live EXCEPT ![Proc[t]] = t]
            /\ lapsed' = IF task[t].delay + MaxDelay < Timeout THEN lapsed
                         ELSE lapsed \cup {t}
            /\ task' = [task EXCEPT ![t] = Fresh("held")]
       ELSE /\ task' = [task EXCEPT ![t].at = "wait", ![t].delay = 0]
            /\ UNCHANGED <<row, live, lapsed>>
    /\ UNCHANGED <<wakes, shut>>

(* The wait ends with the deferred ...                                      *)
WakeUp(t) ==
    /\ task[t].at = "wait"
    /\ task[t].woken
    /\ task' = [task EXCEPT ![t] = Fresh("try")]
    /\ UNCHANGED <<row, live, wakes, shut, lapsed>>

(* Mutant: without the timeout of the wait.                                  *)
RetryMutant(t) == WakeUp(t)

(* ... or with its timeout, the retry interval.                             *)
Retry(t) ==
    /\ task[t].at = "wait"
    /\ task' = [task EXCEPT ![t] = Fresh("try")]
    /\ UNCHANGED <<row, live, wakes, shut, lapsed>>

(* _renew: the time it writes was taken before the update.  One that is      *)
(* underway when release stops the loop may still arrive.                   *)
Renew(t) ==
    /\ task[t].at \in {"held", "release"}
    /\ row.token = t
    /\ \E age \in 0 .. MaxDelay : age <= row.age /\ row' = [row EXCEPT !.age = age]
    /\ UNCHANGED <<live, task, wakes, shut, lapsed>>

(* __aexit__ notifies this process and, over replication, the others, of    *)
(* which any may miss it; then it starts to release, unless a shutdown has  *)
(* dropped the Lock.                                                        *)
Exit(t) ==
    /\ task[t].at \in {"held", "dropped"}
    /\ \E others \in SUBSET (Waiting \ {Proc[t]}) :
          wakes' = wakes \cup others \cup (Waiting \cap {Proc[t]})
    /\ task' = [task EXCEPT ![t].at = IF task[t].at = "held" THEN "release" ELSE "done"]
    /\ lapsed' = lapsed \ {t}
    /\ UNCHANGED <<row, live, shut>>

(* Mutant: the row is deleted whatever its token.                            *)
ReleaseMutant(t) ==
    /\ task[t].at = "release"
    /\ row' = NoRow
    /\ task' = [task EXCEPT ![t].at = "pop"]
    /\ UNCHANGED <<live, wakes, shut, lapsed>>

(* release deletes the row if it has this token ...                         *)
Release(t) ==
    /\ task[t].at = "release"
    /\ row' = IF row.token = t THEN NoRow ELSE row
    /\ task' = [task EXCEPT ![t].at = "pop"]
    /\ UNCHANGED <<live, wakes, shut, lapsed>>

(* ... and pops what the process has registered for the name and key.       *)
Pop(t) ==
    /\ task[t].at = "pop"
    /\ live' = [live EXCEPT ![Proc[t]] = None]
    /\ task' = [task EXCEPT ![t].at = "done"]
    /\ UNCHANGED <<row, wakes, shut, lapsed>>

(* A notice arrives: _on_lock_released calls the deferreds of the process.  *)
OnLockReleased(p) ==
    /\ p \in wakes
    /\ wakes' = wakes \ {p}
    /\ task' = [t \in Tasks |->
                  IF Proc[t] = p /\ task[t].at \in Attempt \cup {"wait"}
                  THEN [task[t] EXCEPT !.woken = TRUE] ELSE task[t]]
    /\ UNCHANGED <<row, live, shut, lapsed>>

(* _on_shutdown calls release on the Lock of the process, whose task may    *)
(* still be working ...                                                     *)
OnShutdown(p) ==
    /\ Running(p) /\ shut[p].at = "run"
    /\ Cardinality({q \in Procs : shut[q].at # "run"}) < MaxShutdowns
    /\ shut' = [shut EXCEPT ![p] = [at |-> IF live[p] = None THEN "done" ELSE "delete",
                                    lock |-> live[p]]]
    /\ UNCHANGED <<row, live, task, wakes, lapsed>>

(* ... which deletes the row if it has its token ...                        *)
ShutdownDelete(p) ==
    /\ shut[p].at = "delete"
    /\ row' = IF row.token = shut[p].lock THEN NoRow ELSE row
    /\ shut' = [shut EXCEPT ![p].at = "pop"]
    /\ UNCHANGED <<live, task, wakes, lapsed>>

(* ... and pops what is registered by then.  The Lock is dropped, so that a  *)
(* task that still works will not release it again.                         *)
ShutdownPop(p) ==
    LET k == shut[p].lock IN
    /\ shut[p].at = "pop"
    /\ live' = [live EXCEPT ![p] = None]
    /\ task' = IF task[k].at = "held" THEN [task EXCEPT ![k].at = "dropped"] ELSE task
    /\ shut' = [shut EXCEPT ![p] = [at |-> "done", lock |-> None]]
    /\ lapsed' = lapsed \ {k}
    /\ UNCHANGED <<row, wakes>>

(* A process dies; its row stays.                                           *)
Crash(p) ==
    /\ Running(p)
    /\ task' = [t \in Tasks |-> IF Proc[t] = p THEN Fresh("dead") ELSE task[t]]
    /\ live' = [live EXCEPT ![p] = None]
    /\ shut' = [shut EXCEPT ![p] = [at |-> "run", lock |-> None]]
    /\ wakes' = wakes \ {p}
    /\ lapsed' = {t \in lapsed : Proc[t] # p}
    /\ UNCHANGED row

(* Time passes.                                                             *)
Tick ==
    LET query == {t \in Tasks : task[t].at \in {"judge", "upsert"}} IN
    /\ \A t \in query : task[t].delay < MaxDelay
    /\ row' = IF row.token # None /\ row.age < MaxAge
              THEN [row EXCEPT !.age = @ + 1] ELSE row
    /\ task' = [t \in Tasks |-> IF t \in query
                                THEN [task[t] EXCEPT !.delay = @ + 1] ELSE task[t]]
    /\ lapsed' = lapsed \cup {t \in Tasks : row.token = t /\ task[t].at = "held"
                                            /\ row.age + 1 + MaxDelay >= Timeout}
    /\ UNCHANGED <<live, wakes, shut>>

-----------------------------------------------------------------------------
Step(t) ==
    \/ Try(t) \/ IsStillValid(t) \/ Judge(t) \/ Upsert(t) \/ WakeUp(t) \/ Retry(t)
    \/ Exit(t) \/ Release(t) \/ Pop(t)

Next ==
    \/ \E t \in Tasks : Step(t) \/ Renew(t)
    \/ \E p \in Procs : \/ OnLockReleased(p) \/ Crash(p)
                        \/ OnShutdown(p) \/ ShutdownDelete(p) \/ ShutdownPop(p)
    \/ Tick

Spec == Init /\ [][Next]_vars

(* A task that lives goes on: statements return, waits time out, work under *)
(* the lock ends.  Time passes.  Renewing needs no fairness.                *)
FairSpec == Spec /\ WF_vars(Tick) /\ \A t \in Tasks : WF_vars(Step(t))

-----------------------------------------------------------------------------
(* Every variable keeps its type.                                           *)
TypeOK ==
    /\ row \in [token : Tasks \cup {None}, age : 0 .. MaxAge]
    /\ live \in [Procs -> Tasks \cup {None}]
    /\ task \in [Tasks -> TaskState]
    /\ wakes \subseteq Procs
    /\ shut \in [Procs -> ShutState]
    /\ lapsed \subseteq Tasks

(* The tasks whose hold of the lock is over: they drop it, or it is dropped  *)
(* for them at a shutdown, they have died, or were not renewed in time.     *)
Over ==
    lapsed \cup {t \in Tasks : \/ task[t].at \in {"release", "pop", "dropped", "done", "dead"}
                              \/ shut[Proc[t]].lock = t}

(* The refinement mapping: who has the row holds the abstract lock, whose    *)
(* specification says that the row goes on to another task only once the     *)
(* hold of the last is over, or, within a process, after an earlier one's.   *)
Lease == INSTANCE LeaseLock WITH holder <- row.token, over <- Over

LeaseSpec == Lease!Spec

(* Holders that their process knows of.                                     *)
Safe == {t \in Tasks : task[t].at = "held" /\ live[Proc[t]] = t /\ t \notin Over}

(* A lock that is renewed in time and registered stays in the table under   *)
(* its token: nobody takes it over, no late release removes it.             *)
RegisteredLockIsKept == \A t \in Safe : row.token = t

(* Every task that waits for the lock gets it or dies with its process,     *)
(* also when holders crash and notices are lost.                            *)
WaitersGetIn ==
    \A t \in Tasks : task[t].at = "wait" ~> task[t].at \in {"held", "dead"}

-----------------------------------------------------------------------------
(* The inductive invariant of the refinement.                               *)

(* At most one task of a process is between the check and the upsert.       *)
OneAttempt ==
    \A t, u \in Tasks :
        Proc[t] = Proc[u] /\ task[t].at \in Attempt /\ task[u].at \in Attempt => t = u

(* That task looks at the Lock of its process, unless that is gone; what it  *)
(* has read of one that is renewed in time makes it valid, however long the  *)
(* answer takes; and it goes on past one that is not.                       *)
AttemptInv ==
    \A t \in Tasks :
        /\ task[t].at = "check" => live[Proc[t]] \in {None, task[t].seen}
        /\ task[t].at = "judge" /\ live[Proc[t]] \in Safe =>
              task[t].seen # None /\ task[t].read + MaxDelay < Timeout
        /\ task[t].at = "upsert" => live[Proc[t]] \notin Safe

(* The Locks that a process has registered or releases are its own.         *)
OwnInv ==
    \A p \in Procs :
        /\ \A k \in {live[p], shut[p].lock} :
              k # None => Proc[k] = p /\ task[k].at \notin Entering
        /\ shut[p].at \in {"delete", "pop"} <=> shut[p].lock # None

(* The row is that of a holder, and it is old only after its hold is over.   *)
RowInv ==
    row.token # None =>
        /\ row.token \in Over \/ task[row.token].at = "held"
        /\ row.age + MaxDelay >= Timeout => row.token \in Over

(* A holder that is not registered has been unregistered by another of its   *)
(* process.                                                                 *)
LooseInv ==
    \A t \in Tasks : task[t].at = "held" =>
        t \in Over \cup Safe \/ \E u \in Over \ {t} : Proc[u] = Proc[t]

(* All of it together: no task takes a lock over that is registered and     *)
(* renewed in time.                                                         *)
LockInv ==
    /\ TypeOK /\ RegisteredLockIsKept
    /\ OneAttempt /\ AttemptInv /\ OwnInv /\ RowInv /\ LooseInv

=============================================================================
