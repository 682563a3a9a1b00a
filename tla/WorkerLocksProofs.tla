-------------------------- MODULE WorkerLocksProofs --------------------------
(* The lock of WorkerLocks keeps the promise of LeaseLock, for any number of *)
(* processes and tasks, any timeout and any delay.                           *)
EXTENDS WorkerLocks, TLAPS

-----------------------------------------------------------------------------
(* A step of a shutdown of process p: it releases the Lock that p has.       *)
ShutStep(p) ==
    /\ shut'[p].lock \in {None, shut[p].lock, live[p]}
    /\ shut'[p].at \in {"delete", "pop"} <=> shut'[p].lock # None

(* A step that gives nobody the lock: holds that are over stay over, Locks   *)
(* are unregistered by those whose hold is over, the row goes only after a   *)
(* hold that is over, and what the tasks have read is true.                 *)
Orderly ==
    /\ TypeOK' /\ OneAttempt'
    /\ Over \subseteq Over'
    /\ \A t \in Tasks : /\ task'[t].at = "held" => task[t].at = "held"
                        /\ task'[t].at \in Entering => task[t].at \in Entering
    /\ \A t \in Tasks : task[t].at = "held" => task'[t].at = "held" \/ t \in Over'
    /\ \A p \in Procs : live'[p] \in {None, live[p]}
    /\ \A t \in Tasks : live[Proc[t]] = t /\ live'[Proc[t]] # t =>
          t \in Over' \/ \E u \in Over' \ {t} : Proc[u] = Proc[t]
    /\ row'.token = row.token \/ (row'.token = None /\ row.token \in Over)
    /\ row'.token # None /\ row'.age + MaxDelay >= Timeout => row'.token \in Over'
    /\ \A p \in Procs : ShutStep(p)
    /\ \A t \in Tasks :
          /\ task'[t].at = "check" => live[Proc[t]] \in {None, task'[t].seen}
          /\ task'[t].at = "judge" /\ live[Proc[t]] \in Safe =>
                task'[t].seen # None /\ task'[t].read + MaxDelay < Timeout
          /\ task'[t].at = "upsert" => live[Proc[t]] \notin Safe

(* Such a step keeps the invariant.                                         *)
LEMMA OrderlyInv ==
    ASSUME LockInv, Orderly
    PROVE  LockInv'
<1>1. TypeOK' /\ OneAttempt'
  BY DEF Orderly
<1>2. \A t \in Tasks : Proc[t] \in Procs /\ t # None
  BY ProcAssumption
<1>3. Safe' \subseteq Safe
  <2> SUFFICES ASSUME NEW t \in Safe' PROVE t \in Safe
    OBVIOUS
  <2>1. t \in Tasks /\ task'[t].at = "held" /\ live'[Proc[t]] = t /\ t \notin Over'
    BY DEF Safe
  <2>2. live[Proc[t]] = t
    BY <2>1, <1>2 DEF Orderly
  <2> QED BY <2>1, <2>2 DEF Orderly, Safe
<1>4. RegisteredLockIsKept'
  <2> SUFFICES ASSUME NEW t \in Safe' PROVE row'.token = t
    BY DEF RegisteredLockIsKept
  <2>1. row.token = t /\ t \notin Over
    BY <1>3 DEF LockInv, RegisteredLockIsKept, Safe
  <2> QED BY <2>1 DEF Orderly
<1>5. AttemptInv'
  <2> SUFFICES ASSUME NEW t \in Tasks
               PROVE  /\ task'[t].at = "check" => live'[Proc[t]] \in {None, task'[t].seen}
                      /\ task'[t].at = "judge" /\ live'[Proc[t]] \in Safe' =>
                            task'[t].seen # None /\ task'[t].read + MaxDelay < Timeout
                      /\ task'[t].at = "upsert" => live'[Proc[t]] \notin Safe'
    BY DEF AttemptInv
  <2>1. live'[Proc[t]] \in {None, live[Proc[t]]}
    BY <1>2 DEF Orderly
  <2>2. None \notin Safe'
    BY ProcAssumption DEF Safe
  <2>3. live'[Proc[t]] \in Safe' => live[Proc[t]] \in Safe
    BY <2>1, <2>2, <1>3
  <2> QED BY <2>1, <2>3 DEF Orderly
<1>6. OwnInv'
  <2> SUFFICES ASSUME NEW p \in Procs
               PROVE  /\ \A k \in {live'[p], shut'[p].lock} :
                            k # None => Proc[k] = p /\ task'[k].at \notin Entering
                      /\ shut'[p].at \in {"delete", "pop"} <=> shut'[p].lock # None
    BY DEF OwnInv
  <2>1. ASSUME NEW k \in {live'[p], shut'[p].lock}, k # None
        PROVE  Proc[k] = p /\ task'[k].at \notin Entering
    <3>1. k \in {live[p], shut[p].lock}
      BY <2>1 DEF Orderly, ShutStep
    <3>2. k \in Tasks
      BY <2>1, <3>1 DEF LockInv, TypeOK, ShutState
    <3> QED BY <2>1, <3>1, <3>2 DEF Orderly, LockInv, OwnInv
  <2> QED BY <2>1 DEF Orderly, ShutStep
<1>7. RowInv'
  <2> SUFFICES ASSUME row'.token # None
               PROVE  row'.token \in Over' \/ task'[row'.token].at = "held"
    BY DEF Orderly, RowInv
  <2>1. row'.token = row.token /\ row.token \in Tasks
    BY DEF Orderly, LockInv, TypeOK
  <2> QED BY <2>1 DEF Orderly, LockInv, RowInv
<1>8. LooseInv'
  <2> SUFFICES ASSUME NEW t \in Tasks, task'[t].at = "held", t \notin Over', t \notin Safe'
               PROVE  \E u \in Over' \ {t} : Proc[u] = Proc[t]
    BY DEF LooseInv
  <2>1. task[t].at = "held" /\ t \notin Over
    BY DEF Orderly
  <2>2. CASE t \in Safe
    <3>1. live[Proc[t]] = t /\ live'[Proc[t]] # t
      BY <2>2 DEF Safe
    <3> QED BY <3>1 DEF Orderly
  <2>3. CASE t \notin Safe
    <3>1. PICK u \in Over \ {t} : Proc[u] = Proc[t]
      BY <2>1, <2>3 DEF LockInv, LooseInv
    <3> QED BY <3>1 DEF Orderly
  <2> QED BY <2>2, <2>3
<1> QED BY <1>1, <1>4, <1>5, <1>6, <1>7, <1>8 DEF LockInv

(* Such a step is one of LeaseLock.                                         *)
LEMMA OrderlyLease ==
    ASSUME Orderly
    PROVE  Lease!Next
BY DEF Orderly, Lease!Next, Lease!End, Lease!Drop

(* Nothing happens.                                                         *)
LEMMA StutterInv ==
    ASSUME LockInv, UNCHANGED vars
    PROVE  LockInv'
BY DEF vars, LockInv, TypeOK, RegisteredLockIsKept, OneAttempt, AttemptInv, OwnInv, RowInv,
       LooseInv, Over, Safe

(* Nobody has the lock at the start.                                        *)
LEMMA InitInv == Init => LockInv
<1> SUFFICES ASSUME Init PROVE LockInv
  OBVIOUS
<1>1. 0 \in 0 .. MaxAge /\ 0 \in 0 .. MaxDelay
  BY TimeAssumption DEF MaxAge
<1>2. Fresh("try") \in TaskState /\ Fresh("try").at = "try"
  BY <1>1 DEF Fresh, TaskState, Points, Entering
<1>3. \A t \in Tasks : task[t] = Fresh("try") /\ task[t].at = "try"
  BY <1>2 DEF Init
<1>4. \A p \in Procs : shut[p].at = "run" /\ live[p] = None
  BY DEF Init
<1>5. TypeOK
  BY <1>1, <1>2 DEF Init, TypeOK, NoRow, ShutState
<1>6. Safe = {}
  BY <1>3 DEF Safe
<1>7. OneAttempt /\ LooseInv /\ RegisteredLockIsKept
  BY <1>3, <1>6 DEF OneAttempt, LooseInv, RegisteredLockIsKept, Attempt
<1>8. AttemptInv
  BY <1>3 DEF AttemptInv
<1>9. OwnInv /\ RowInv
  BY <1>4 DEF OwnInv, RowInv, Init, NoRow
<1> QED BY <1>5, <1>7, <1>8, <1>9 DEF LockInv

-----------------------------------------------------------------------------
(* The steps of a task.                                                     *)

(* A step of one task that changes nothing else but notices is orderly if    *)
(* it does not get the task into the lock, and what it has read is true.    *)
LEMMA TaskStep ==
    ASSUME LockInv, NEW t \in Tasks, NEW s \in TaskState, task' = [task EXCEPT ![t] = s],
           task[t].at \in Entering, s.at \in Entering,
           s.at \in Attempt => task[t].at \in Attempt \/ ~ Acquiring(Proc[t]),
           s.at = "check" => live[Proc[t]] \in {None, s.seen},
           s.at = "judge" /\ live[Proc[t]] \in Safe => s.seen # None /\ s.read + MaxDelay < Timeout,
           s.at = "upsert" => live[Proc[t]] \notin Safe,
           UNCHANGED <<row, live, wakes, shut, lapsed>>
    PROVE  Orderly
<1>1. task'[t] = s /\ \A u \in Tasks : u # t => task'[u] = task[u]
  BY DEF LockInv, TypeOK
<1>2. TypeOK'
  BY DEF LockInv, TypeOK
<1>3. OneAttempt'
  <2> SUFFICES ASSUME NEW a \in Tasks, NEW b \in Tasks, Proc[a] = Proc[b],
                      task'[a].at \in Attempt, task'[b].at \in Attempt
               PROVE  a = b
    BY DEF OneAttempt
  <2>1. CASE a # t /\ b # t
    BY <2>1, <1>1 DEF LockInv, OneAttempt
  <2>2. CASE task[t].at \in Attempt
    BY <2>2, <1>1 DEF LockInv, OneAttempt
  <2>3. CASE (a = t \/ b = t) /\ task[t].at \notin Attempt
    BY <2>3, <1>1 DEF Acquiring
  <2> QED BY <2>1, <2>2, <2>3
<1>4. Over' = Over
  BY <1>1 DEF Over, Entering, Attempt
<1>5. \A u \in Tasks : /\ task'[u].at = "held" <=> task[u].at = "held"
                       /\ task'[u].at \in Entering => task[u].at \in Entering
  BY <1>1 DEF Entering, Attempt
<1>6. \A u \in Tasks :
          /\ task'[u].at = "check" => live[Proc[u]] \in {None, task'[u].seen}
          /\ task'[u].at = "judge" /\ live[Proc[u]] \in Safe =>
                task'[u].seen # None /\ task'[u].read + MaxDelay < Timeout
          /\ task'[u].at = "upsert" => live[Proc[u]] \notin Safe
  BY <1>1 DEF LockInv, AttemptInv
<1>7. row'.token # None /\ row'.age + MaxDelay >= Timeout => row'.token \in Over'
  BY <1>4 DEF LockInv, RowInv
<1>8. \A p \in Procs : ShutStep(p)
  BY DEF LockInv, OwnInv, ShutStep
<1>9. live' = live /\ row'.token = row.token
  OBVIOUS
<1>10. \A u \in Tasks : ~ (live[Proc[u]] = u /\ live'[Proc[u]] # u)
  BY <1>9
<1>11. \A p \in Procs : live'[p] \in {None, live[p]}
  BY <1>9
<1>12. Over \subseteq Over' /\ \A u \in Tasks : task[u].at = "held" => task'[u].at = "held"
  BY <1>4, <1>5
<1> QED BY <1>2, <1>3, <1>12, <1>5, <1>6, <1>7, <1>8, <1>9, <1>10, <1>11 DEF Orderly

(* The records that these steps write.                                      *)
LEMMA RecordTypes ==
    /\ \A a \in Points : Fresh(a) \in TaskState /\ Fresh(a).at = a
    /\ \A s \in TaskState, a \in Points :
          [s EXCEPT !.at = a] \in TaskState /\ [s EXCEPT !.at = a].at = a
<1>1. 0 \in 0 .. MaxAge /\ 0 \in 0 .. MaxDelay
  BY TimeAssumption DEF MaxAge
<1> QED BY <1>1 DEF Fresh, TaskState

(* _acquiring_locks lets one task of a process go on.                       *)
LEMMA TryOrderly == \A t \in Tasks : LockInv /\ Try(t) => Orderly
<1> SUFFICES ASSUME LockInv, NEW t \in Tasks, Try(t) PROVE Orderly
  OBVIOUS
<1>1. PICK s : /\ s = [at    |-> CASE Acquiring(Proc[t]) -> "wait"
                                  [] ~ Acquiring(Proc[t]) /\ live[Proc[t]] # None -> "check"
                                  [] OTHER -> "upsert",
                       woken |-> FALSE,
                       seen  |-> IF Acquiring(Proc[t]) THEN None ELSE live[Proc[t]],
                       read  |-> 0, delay |-> 0]
               /\ task' = [task EXCEPT ![t] = s]
  BY DEF Try
<1>2. Proc[t] \in Procs /\ live[Proc[t]] \in Tasks \cup {None}
  BY ProcAssumption DEF LockInv, TypeOK
<1>3. 0 \in 0 .. MaxAge /\ 0 \in 0 .. MaxDelay
  BY TimeAssumption DEF MaxAge
<1>4. /\ s.at \in {"wait", "check", "upsert"} /\ s.seen \in Tasks \cup {None}
      /\ s.at \in {"check", "upsert"} => ~ Acquiring(Proc[t])
      /\ s.at = "check" => s.seen = live[Proc[t]]
      /\ s.at = "upsert" => live[Proc[t]] = None
  BY <1>1, <1>2
<1>5. s \in TaskState
  BY <1>1, <1>3, <1>4 DEF TaskState, Points, Entering, Attempt
<1>6. None \notin Safe
  BY ProcAssumption DEF Safe
<1>7. task[t].at \in Entering /\ s.at \in Entering
  BY <1>4 DEF Try, Entering, Attempt
<1> QED BY <1>1, <1>4, <1>5, <1>6, <1>7, TaskStep DEF Try, Attempt

(* What a check reads of a safe Lock is its row, and that is young.         *)
LEMMA CheckOrderly == \A t \in Tasks : LockInv /\ IsStillValid(t) => Orderly
<1> SUFFICES ASSUME LockInv, NEW t \in Tasks, IsStillValid(t) PROVE Orderly
  OBVIOUS
<1>1. PICK s : /\ s = IF row.token = task[t].seen
                      THEN [task[t] EXCEPT !.at = "judge", !.read = row.age]
                      ELSE [task[t] EXCEPT !.at = "judge", !.seen = None]
               /\ task' = [task EXCEPT ![t] = s]
  BY DEF IsStillValid, LockInv, TypeOK
<1>2. task[t] \in TaskState /\ row.age \in 0 .. MaxAge /\ task[t].at = "check"
  BY DEF LockInv, TypeOK, IsStillValid
<1>3. s \in TaskState /\ s.at = "judge"
  BY <1>1, <1>2 DEF TaskState, Points, Entering, Attempt
<1>4. ASSUME live[Proc[t]] \in Safe PROVE s.seen # None /\ s.read + MaxDelay < Timeout
  <2>1. PICK k \in Tasks : k = live[Proc[t]] /\ k \in Safe /\ k # None
    BY <1>4, ProcAssumption DEF Safe
  <2>2. task[t].seen = k
    BY <1>2, <2>1 DEF LockInv, AttemptInv
  <2>3. row.token = k /\ k \notin Over
    BY <2>1 DEF LockInv, RegisteredLockIsKept, Safe
  <2>4. ~ (row.age + MaxDelay >= Timeout)
    BY <2>1, <2>3 DEF LockInv, RowInv
  <2>5. s.seen = k /\ s.read = row.age
    BY <1>1, <1>2, <2>2, <2>3 DEF TaskState
  <2>6. row.age \in Nat
    BY <1>2
  <2> QED BY <2>1, <2>4, <2>5, <2>6, TimeAssumption
<1>5. task[t].at \in Entering /\ s.at \in Entering /\ task[t].at \in Attempt
  BY <1>2, <1>3 DEF Entering, Attempt
<1> QED BY <1>1, <1>3, <1>4, <1>5, TaskStep DEF IsStillValid

(* A task goes on to the upsert only past a Lock that is not safe.          *)
LEMMA JudgeOrderly == \A t \in Tasks : LockInv /\ Judge(t) => Orderly
<1> SUFFICES ASSUME LockInv, NEW t \in Tasks, Judge(t) PROVE Orderly
  OBVIOUS
<1> DEFINE valid == task[t].seen # None /\ task[t].read + task[t].delay < Timeout
<1>1. PICK s : /\ s = [Fresh(IF valid THEN "wait" ELSE "upsert") EXCEPT !.woken = task[t].woken]
               /\ task' = [task EXCEPT ![t] = s]
  BY DEF Judge
<1>2. task[t] \in TaskState /\ task[t].at = "judge"
  BY DEF LockInv, TypeOK, Judge
<1>3. 0 \in 0 .. MaxAge /\ 0 \in 0 .. MaxDelay
  BY TimeAssumption DEF MaxAge
<1>4. s \in TaskState /\ s.at = IF valid THEN "wait" ELSE "upsert"
  BY <1>1, <1>2, <1>3 DEF Fresh, TaskState, Points, Entering, Attempt
<1>5. ASSUME s.at = "upsert", live[Proc[t]] \in Safe PROVE FALSE
  <2>1. task[t].seen # None /\ task[t].read + MaxDelay < Timeout
    BY <1>2, <1>5 DEF LockInv, AttemptInv
  <2>2. ~ (task[t].read + task[t].delay < Timeout)
    BY <2>1, <1>4, <1>5
  <2>3. task[t].read \in Nat /\ task[t].delay \in Nat /\ task[t].delay <= MaxDelay
    BY <1>2, TimeAssumption DEF TaskState
  <2> QED BY <2>1, <2>2, <2>3, TimeAssumption
<1>6. /\ task[t].at \in Entering /\ s.at \in Entering /\ task[t].at \in Attempt
      /\ s.at # "check" /\ s.at # "judge"
  BY <1>2, <1>4 DEF Entering, Attempt
<1> QED BY <1>1, <1>4, <1>5, <1>6, TaskStep DEF Judge

(* A wait that ends leads back to the first check.                          *)
LEMMA WaitOrderly == \A t \in Tasks : LockInv /\ (WakeUp(t) \/ Retry(t)) => Orderly
<1> SUFFICES ASSUME LockInv, NEW t \in Tasks, WakeUp(t) \/ Retry(t) PROVE Orderly
  OBVIOUS
<1>1. PICK s : s = Fresh("try") /\ task' = [task EXCEPT ![t] = s]
  BY DEF WakeUp, Retry
<1>2. s \in TaskState /\ s.at = "try"
  BY <1>1, RecordTypes DEF Points, Entering
<1>3. task[t].at \in Entering /\ s.at \in Entering /\ s.at \notin Attempt
  BY <1>2 DEF WakeUp, Retry, Entering, Attempt
<1> QED BY <1>1, <1>2, <1>3, TaskStep DEF WakeUp, Retry

(* A task that leaves changes nothing for the others either: a step of one   *)
(* task that has had the lock, with what becomes of the row and of the Lock  *)
(* of its process.                                                          *)
LEMMA LeaveStep ==
    ASSUME LockInv, NEW t \in Tasks, NEW a \in {"release", "pop", "done"},
           task' = [task EXCEPT ![t].at = a],
           task[t].at \in {"held", "release", "pop", "dropped"},
           row' = row \/ (row' = NoRow /\ row.token = t /\ t \in Over),
           live' = live \/ live' = [live EXCEPT ![Proc[t]] = None],
           lapsed' \in {lapsed, lapsed \ {t}}, wakes' \subseteq Procs, UNCHANGED shut
    PROVE  Orderly
<1>1. task[t] \in TaskState /\ Proc[t] \in Procs
  BY ProcAssumption DEF LockInv, TypeOK
<1>2. /\ task'[t] = [task[t] EXCEPT !.at = a] /\ task'[t] \in TaskState /\ task'[t].at = a
      /\ \A u \in Tasks : u # t => task'[u] = task[u]
  <2>1. a \in Points
    BY DEF Points
  <2> QED BY <2>1, <1>1, RecordTypes DEF LockInv, TypeOK
<1>3. NoRow \in [token : Tasks \cup {None}, age : 0 .. MaxAge] /\ NoRow.token = None
  BY TimeAssumption DEF NoRow, MaxAge
<1>4. \A p \in Procs : live'[p] \in {None, live[p]} /\ (p # Proc[t] => live'[p] = live[p])
  BY DEF LockInv, TypeOK
<1>5. TypeOK'
  <2>1. task' \in [Tasks -> TaskState]
    BY <1>2 DEF LockInv, TypeOK
  <2>2. row' \in [token : Tasks \cup {None}, age : 0 .. MaxAge] /\ lapsed' \subseteq Tasks
    BY <1>3 DEF LockInv, TypeOK
  <2>3. live' \in [Procs -> Tasks \cup {None}]
    BY <1>1 DEF LockInv, TypeOK
  <2> QED BY <2>1, <2>2, <2>3 DEF LockInv, TypeOK
<1>6. OneAttempt'
  BY <1>2 DEF LockInv, OneAttempt, Attempt
<1>7. Over \subseteq Over' /\ t \in Over'
  BY <1>2 DEF Over
<1>8. \A u \in Tasks : /\ task'[u].at = "held" => task[u].at = "held"
                       /\ task[u].at = "held" => task'[u].at = "held" \/ u \in Over'
                       /\ task'[u].at \in Entering => task[u].at \in Entering
  BY <1>2, <1>7 DEF Entering, Attempt
<1>9. ASSUME NEW u \in Tasks, live[Proc[u]] = u, live'[Proc[u]] # u
      PROVE  u \in Over' \/ \E v \in Over' \ {u} : Proc[v] = Proc[u]
  <2>1. Proc[u] = Proc[t]
    BY <1>4, <1>9, ProcAssumption
  <2> QED BY <2>1, <1>7
<1>10. /\ row'.token = row.token \/ (row'.token = None /\ row.token \in Over)
       /\ row'.token # None /\ row'.age + MaxDelay >= Timeout => row'.token \in Over'
  BY <1>3, <1>7 DEF LockInv, RowInv
<1>11. \A p \in Procs : ShutStep(p)
  BY DEF LockInv, OwnInv, ShutStep
<1>12. \A u \in Tasks :
          /\ task'[u].at = "check" => live[Proc[u]] \in {None, task'[u].seen}
          /\ task'[u].at = "judge" /\ live[Proc[u]] \in Safe =>
                task'[u].seen # None /\ task'[u].read + MaxDelay < Timeout
          /\ task'[u].at = "upsert" => live[Proc[u]] \notin Safe
  BY <1>2 DEF LockInv, AttemptInv
<1> QED BY <1>4, <1>5, <1>6, <1>7, <1>8, <1>9, <1>10, <1>11, <1>12 DEF Orderly

(* A holder that leaves keeps the row until it is deleted.                  *)
LEMMA ExitOrderly == \A t \in Tasks : LockInv /\ Exit(t) => Orderly
<1> SUFFICES ASSUME LockInv, NEW t \in Tasks, Exit(t) PROVE Orderly
  OBVIOUS
<1>1. PICK a : a = IF task[t].at = "held" THEN "release" ELSE "done"
  OBVIOUS
<1>2. a \in {"release", "pop", "done"} /\ task' = [task EXCEPT ![t].at = a]
  BY <1>1 DEF Exit
<1>3. wakes' \subseteq Procs
  <2>1. Waiting \subseteq Procs
    BY ProcAssumption DEF Waiting
  <2>2. wakes \subseteq Procs
    BY DEF LockInv, TypeOK
  <2> QED BY <2>1, <2>2 DEF Exit
<1>4. /\ task[t].at \in {"held", "release", "pop", "dropped"} /\ lapsed' \in {lapsed, lapsed \ {t}}
      /\ UNCHANGED <<row, live, shut>>
  BY DEF Exit
<1> QED BY <1>2, <1>3, <1>4, LeaveStep

(* A release deletes the row of its own token.                              *)
LEMMA ReleaseOrderly == \A t \in Tasks : LockInv /\ Release(t) => Orderly
<1> SUFFICES ASSUME LockInv, NEW t \in Tasks, Release(t) PROVE Orderly
  OBVIOUS
<1>1. t \in Over
  BY DEF Release, Over
<1>2. row' = row \/ (row' = NoRow /\ row.token = t)
  BY DEF Release
<1>3. wakes' \subseteq Procs
  BY DEF Release, LockInv, TypeOK
<1>4. /\ task[t].at \in {"held", "release", "pop", "dropped"} /\ lapsed' \in {lapsed, lapsed \ {t}}
      /\ task' = [task EXCEPT ![t].at = "pop"] /\ UNCHANGED <<live, shut>>
  BY DEF Release
<1> QED BY <1>1, <1>2, <1>3, <1>4, LeaveStep

(* A late pop unregisters whatever is registered.                           *)
LEMMA PopOrderly == \A t \in Tasks : LockInv /\ Pop(t) => Orderly
<1> SUFFICES ASSUME LockInv, NEW t \in Tasks, Pop(t) PROVE Orderly
  OBVIOUS
<1>1. wakes' \subseteq Procs
  BY DEF Pop, LockInv, TypeOK
<1>2. /\ task[t].at \in {"held", "release", "pop", "dropped"} /\ lapsed' \in {lapsed, lapsed \ {t}}
      /\ task' = [task EXCEPT ![t].at = "done"] /\ live' = [live EXCEPT ![Proc[t]] = None]
      /\ UNCHANGED <<row, shut>>
  BY DEF Pop
<1> QED BY <1>1, <1>2, LeaveStep

-----------------------------------------------------------------------------
(* Steps that leave the points of all tasks alone.                          *)
LEMMA QuietStep ==
    ASSUME LockInv, TypeOK', UNCHANGED live,
           \A t \in Tasks : /\ task'[t].at = task[t].at /\ task'[t].seen = task[t].seen
                            /\ task'[t].read = task[t].read,
           Over \subseteq Over',
           row'.token = row.token \/ (row'.token = None /\ row.token \in Over),
           row'.token # None /\ row'.age + MaxDelay >= Timeout => row'.token \in Over',
           \A p \in Procs : ShutStep(p)
    PROVE  Orderly
<1>1. OneAttempt'
  BY DEF LockInv, OneAttempt
<1>2. \A u \in Tasks :
          /\ task'[u].at = "check" => live[Proc[u]] \in {None, task'[u].seen}
          /\ task'[u].at = "judge" /\ live[Proc[u]] \in Safe =>
                task'[u].seen # None /\ task'[u].read + MaxDelay < Timeout
          /\ task'[u].at = "upsert" => live[Proc[u]] \notin Safe
  BY DEF LockInv, AttemptInv
<1>3. /\ \A u \in Tasks : ~ (live[Proc[u]] = u /\ live'[Proc[u]] # u)
      /\ \A p \in Procs : live'[p] \in {None, live[p]}
  OBVIOUS
<1> QED BY <1>1, <1>2, <1>3 DEF Orderly

(* A renewal is of the row that still carries the token.                    *)
LEMMA RenewOrderly == \A t \in Tasks : LockInv /\ Renew(t) => Orderly
<1> SUFFICES ASSUME LockInv, NEW t \in Tasks, Renew(t) PROVE Orderly
  OBVIOUS
<1>1. PICK age \in 0 .. MaxDelay : age <= row.age /\ row' = [row EXCEPT !.age = age]
  BY DEF Renew
<1>2. row \in [token : Tasks \cup {None}, age : 0 .. MaxAge] /\ MaxAge \in Nat
  BY TimeAssumption DEF LockInv, TypeOK, MaxAge
<1>3. row'.token = row.token /\ row'.age = age /\ age \in 0 .. MaxAge
  BY <1>1, <1>2, TimeAssumption
<1>4. row' \in [token : Tasks \cup {None}, age : 0 .. MaxAge]
  BY <1>1, <1>2, <1>3
<1>5. TypeOK'
  BY <1>4 DEF Renew, LockInv, TypeOK
<1>6. Over' = Over
  BY DEF Renew, Over
<1>7. row'.token # None /\ row'.age + MaxDelay >= Timeout => row'.token \in Over'
  BY <1>1, <1>2, <1>3, <1>6, TimeAssumption DEF LockInv, RowInv
<1>8. \A p \in Procs : ShutStep(p)
  BY DEF Renew, LockInv, OwnInv, ShutStep
<1>9. UNCHANGED live /\ task' = task
  BY DEF Renew
<1> QED BY <1>3, <1>5, <1>6, <1>7, <1>8, <1>9, QuietStep

(* A notice only wakes.                                                     *)
LEMMA NoticeOrderly == \A p \in Procs : LockInv /\ OnLockReleased(p) => Orderly
<1> SUFFICES ASSUME LockInv, NEW p \in Procs, OnLockReleased(p) PROVE Orderly
  OBVIOUS
<1>1. ASSUME NEW u \in Tasks
      PROVE  /\ task'[u] \in TaskState /\ task'[u].at = task[u].at
             /\ task'[u].seen = task[u].seen /\ task'[u].read = task[u].read
  <2>1. task[u] \in TaskState
    BY DEF LockInv, TypeOK
  <2>2. task'[u] \in {task[u], [task[u] EXCEPT !.woken = TRUE]}
    BY DEF OnLockReleased
  <2> QED BY <2>1, <2>2 DEF TaskState
<1>2. TypeOK'
  BY <1>1 DEF OnLockReleased, LockInv, TypeOK
<1>3. Over' = Over
  BY <1>1 DEF OnLockReleased, Over
<1>4. row'.token # None /\ row'.age + MaxDelay >= Timeout => row'.token \in Over'
  BY <1>3 DEF OnLockReleased, LockInv, RowInv
<1>5. \A q \in Procs : ShutStep(q)
  BY DEF OnLockReleased, LockInv, OwnInv, ShutStep
<1>6. UNCHANGED live /\ row' = row
  BY DEF OnLockReleased
<1> QED BY <1>1, <1>2, <1>3, <1>4, <1>5, <1>6, QuietStep

(* A shutdown begins: the hold of the task that is registered is over.      *)
LEMMA ShutdownOrderly == \A p \in Procs : LockInv /\ OnShutdown(p) => Orderly
<1> SUFFICES ASSUME LockInv, NEW p \in Procs, OnShutdown(p) PROVE Orderly
  OBVIOUS
<1>1. PICK z : z = [at |-> IF live[p] = None THEN "done" ELSE "delete", lock |-> live[p]]
  OBVIOUS
<1>2. shut' = [shut EXCEPT ![p] = z] /\ live[p] \in Tasks \cup {None}
  BY <1>1 DEF OnShutdown, LockInv, TypeOK
<1>3. z \in ShutState /\ z.lock = live[p] /\ (z.at \in {"delete", "pop"} <=> live[p] # None)
  BY <1>1, <1>2 DEF ShutState
<1>4. shut'[p] = z /\ \A q \in Procs : q # p => shut'[q] = shut[q]
  BY <1>2 DEF LockInv, TypeOK
<1>5. TypeOK'
  BY <1>2, <1>3 DEF OnShutdown, LockInv, TypeOK
<1>6. Over \subseteq Over'
  <2> SUFFICES ASSUME NEW u \in Over PROVE u \in Over'
    OBVIOUS
  <2>1. CASE u \in Tasks /\ shut[Proc[u]].lock = u
    <3>1. CASE Proc[u] = p
      <4>1. u # None /\ shut[p].at = "run" /\ shut[p].lock = u
        BY <2>1, <3>1, ProcAssumption DEF OnShutdown
      <4> QED BY <4>1 DEF LockInv, OwnInv, ShutStep
    <3>2. CASE Proc[u] # p
      BY <2>1, <3>2, <1>4, ProcAssumption DEF Over
    <3> QED BY <3>1, <3>2
  <2>2. CASE ~ (u \in Tasks /\ shut[Proc[u]].lock = u)
    BY <2>2 DEF Over, OnShutdown
  <2> QED BY <2>1, <2>2
<1>7. row'.token # None /\ row'.age + MaxDelay >= Timeout => row'.token \in Over'
  BY <1>6 DEF OnShutdown, LockInv, RowInv
<1>8. \A q \in Procs : ShutStep(q)
  BY <1>3, <1>4 DEF LockInv, OwnInv, ShutStep
<1>9. UNCHANGED live /\ task' = task /\ row' = row
  BY DEF OnShutdown
<1> QED BY <1>5, <1>6, <1>7, <1>8, <1>9, QuietStep

(* The row of the Lock that is released at the shutdown is deleted.         *)
LEMMA DeleteOrderly == \A p \in Procs : LockInv /\ ShutdownDelete(p) => Orderly
<1> SUFFICES ASSUME LockInv, NEW p \in Procs, ShutdownDelete(p) PROVE Orderly
  OBVIOUS
<1>1. PICK k \in Tasks : k = shut[p].lock /\ Proc[k] = p /\ k # None
  BY DEF ShutdownDelete, LockInv, OwnInv, TypeOK, ShutState
<1>2. k \in Over
  BY <1>1 DEF Over
<1>3. row' = row \/ (row' = NoRow /\ row.token = k)
  BY <1>1 DEF ShutdownDelete
<1>4. NoRow \in [token : Tasks \cup {None}, age : 0 .. MaxAge] /\ NoRow.token = None
  BY TimeAssumption DEF NoRow, MaxAge
<1>5. shut[p] \in ShutState /\ shut' = [shut EXCEPT ![p].at = "pop"]
  BY DEF ShutdownDelete, LockInv, TypeOK
<1>6. /\ shut'[p] \in ShutState /\ shut'[p].at = "pop" /\ shut'[p].lock = k
      /\ \A q \in Procs : q # p => shut'[q] = shut[q]
  BY <1>1, <1>5 DEF LockInv, TypeOK, ShutState
<1>7. TypeOK'
  BY <1>3, <1>4, <1>5, <1>6 DEF ShutdownDelete, LockInv, TypeOK
<1>8. Over \subseteq Over'
  <2>1. \A q \in Procs : shut'[q].lock = shut[q].lock
    BY <1>1, <1>6
  <2> QED BY <2>1, ProcAssumption DEF Over, ShutdownDelete
<1>9. /\ row'.token = row.token \/ (row'.token = None /\ row.token \in Over)
      /\ row'.token # None /\ row'.age + MaxDelay >= Timeout => row'.token \in Over'
  BY <1>2, <1>3, <1>4, <1>8 DEF LockInv, RowInv
<1>10. \A q \in Procs : ShutStep(q)
  BY <1>1, <1>6 DEF LockInv, OwnInv, ShutStep
<1>11. UNCHANGED live /\ task' = task
  BY DEF ShutdownDelete
<1> QED BY <1>7, <1>8, <1>9, <1>10, <1>11, QuietStep

(* The tasks of a process p come to their end, or one of them does; what the *)
(* process has registered goes, and so does its shutdown.                   *)
LEMMA ProcessStep ==
    ASSUME LockInv, TypeOK', NEW p \in Procs,
           live' = [live EXCEPT ![p] = None], UNCHANGED row,
           \A q \in Procs : q # p => shut'[q] = shut[q],
           shut'[p].lock = None, shut'[p].at \in {"run", "done"},
           \A t \in Tasks : task'[t] = task[t]
                              \/ (task'[t].at \in {"dropped", "dead"} /\ Proc[t] = p),
           Over \subseteq Over', \E u \in Over' : Proc[u] = p
    PROVE  Orderly
<1>1. \A q \in Procs : live'[q] = IF q = p THEN None ELSE live[q]
  BY DEF LockInv, TypeOK
<1>2. OneAttempt'
  BY DEF LockInv, OneAttempt, Attempt
<1>3. \A t \in Tasks : task'[t].at \in {"dropped", "dead"} => t \in Over'
  BY DEF Over
<1>4. \A t \in Tasks : /\ task'[t].at = "held" => task[t].at = "held"
                       /\ task[t].at = "held" => task'[t].at = "held" \/ t \in Over'
                       /\ task'[t].at \in Entering => task[t].at \in Entering
  BY <1>3 DEF Entering, Attempt
<1>5. \A q \in Procs : live'[q] \in {None, live[q]}
  BY <1>1
<1>6. ASSUME NEW t \in Tasks, live[Proc[t]] = t, live'[Proc[t]] # t
      PROVE  t \in Over' \/ \E u \in Over' \ {t} : Proc[u] = Proc[t]
  <2>1. Proc[t] = p
    BY <1>1, <1>6, ProcAssumption
  <2> QED BY <2>1
<1>7. row'.token # None /\ row'.age + MaxDelay >= Timeout => row'.token \in Over'
  BY DEF LockInv, RowInv
<1>8. \A q \in Procs : ShutStep(q)
  BY DEF LockInv, OwnInv, ShutStep
<1>9. \A t \in Tasks :
          /\ task'[t].at = "check" => live[Proc[t]] \in {None, task'[t].seen}
          /\ task'[t].at = "judge" /\ live[Proc[t]] \in Safe =>
                task'[t].seen # None /\ task'[t].read + MaxDelay < Timeout
          /\ task'[t].at = "upsert" => live[Proc[t]] \notin Safe
  BY DEF LockInv, AttemptInv
<1> QED BY <1>2, <1>4, <1>5, <1>6, <1>7, <1>8, <1>9 DEF Orderly

(* The Lock is dropped, and another of the process may be unregistered.     *)
LEMMA DropOrderly == \A p \in Procs : LockInv /\ ShutdownPop(p) => Orderly
<1> SUFFICES ASSUME LockInv, NEW p \in Procs, ShutdownPop(p) PROVE Orderly
  OBVIOUS
<1>1. PICK k \in Tasks : k = shut[p].lock /\ Proc[k] = p /\ k # None
  BY DEF ShutdownPop, LockInv, OwnInv, TypeOK, ShutState
<1>2. /\ task' = IF task[k].at = "held" THEN [task EXCEPT ![k].at = "dropped"] ELSE task
      /\ live' = [live EXCEPT ![p] = None]
      /\ shut' = [shut EXCEPT ![p] = [at |-> "done", lock |-> None]]
      /\ lapsed' = lapsed \ {k} /\ UNCHANGED <<row, wakes>>
  BY <1>1 DEF ShutdownPop
<1>3. /\ task' \in [Tasks -> TaskState]
      /\ \A u \in Tasks : u # k => task'[u] = task[u]
      /\ task'[k] = task[k] \/ task'[k].at = "dropped"
      /\ task'[k].at # "held"
  <2>1. task[k] \in TaskState /\ [task[k] EXCEPT !.at = "dropped"] \in TaskState
        /\ [task[k] EXCEPT !.at = "dropped"].at = "dropped"
    BY RecordTypes DEF LockInv, TypeOK, Points
  <2> QED BY <1>2, <2>1 DEF LockInv, TypeOK
<1>4. /\ shut'[p] = [at |-> "done", lock |-> None]
      /\ \A q \in Procs : q # p => shut'[q] = shut[q]
  BY <1>2 DEF LockInv, TypeOK
<1>5. TypeOK'
  BY <1>2, <1>3 DEF LockInv, TypeOK, ShutState
<1>6. task'[k].at \in {"release", "pop", "dropped", "done", "dead"}
  <2>1. task[k].at \notin Entering /\ task[k] \in TaskState
    BY <1>1 DEF LockInv, OwnInv, TypeOK
  <2> QED BY <1>3, <2>1 DEF TaskState, Points
<1>7. Over \subseteq Over' /\ k \in Over'
  <2>1. k \in Over'
    BY <1>6 DEF Over
  <2>2. ASSUME NEW u \in Over, u # k PROVE u \in Over'
    <3>1. CASE u \in lapsed
      BY <1>2, <2>2, <3>1 DEF Over
    <3>2. CASE u \in Tasks /\ task[u].at \in {"release", "pop", "dropped", "done", "dead"}
      BY <1>3, <2>2, <3>2 DEF Over
    <3>3. CASE u \in Tasks /\ shut[Proc[u]].lock = u
      <4>1. Proc[u] # p
        BY <1>1, <2>2, <3>3
      <4> QED BY <1>4, <3>3, <4>1, ProcAssumption DEF Over
    <3> QED BY <2>2, <3>1, <3>2, <3>3 DEF Over
  <2> QED BY <2>1, <2>2
<1>8. \A t \in Tasks : task'[t] = task[t]
                           \/ (task'[t].at \in {"dropped", "dead"} /\ Proc[t] = p)
  BY <1>1, <1>3
<1>9. shut'[p].lock = None /\ shut'[p].at \in {"run", "done"}
  BY <1>4
<1>10. (\E u \in Over' : Proc[u] = p) /\ Over \subseteq Over'
  BY <1>1, <1>7
<1>11. live' = [live EXCEPT ![p] = None] /\ UNCHANGED row
  BY <1>2
<1>12. \A q \in Procs : q # p => shut'[q] = shut[q]
  BY <1>4
<1> QED BY <1>5, <1>8, <1>9, <1>10, <1>11, <1>12, ProcessStep

(* A process that crashes leaves its row to time out.                       *)
LEMMA CrashOrderly == \A p \in Procs : LockInv /\ Crash(p) => Orderly
<1> SUFFICES ASSUME LockInv, NEW p \in Procs, Crash(p) PROVE Orderly
  OBVIOUS
<1>1. Fresh("dead") \in TaskState /\ Fresh("dead").at = "dead"
  BY RecordTypes DEF Points
<1>2. \A u \in Tasks : task'[u] = IF Proc[u] = p THEN Fresh("dead") ELSE task[u]
  BY DEF Crash
<1>3. shut' = [shut EXCEPT ![p] = [at |-> "run", lock |-> None]] /\ wakes' = wakes \ {p}
        /\ lapsed' = {t \in lapsed : Proc[t] # p} /\ live' = [live EXCEPT ![p] = None]
        /\ UNCHANGED row
  BY DEF Crash
<1>4. shut'[p] = [at |-> "run", lock |-> None] /\ \A q \in Procs : q # p => shut'[q] = shut[q]
  BY <1>3 DEF LockInv, TypeOK
<1>5. TypeOK'
  <2>1. task' \in [Tasks -> TaskState]
    BY <1>1, <1>2 DEF Crash, LockInv, TypeOK
  <2> QED BY <2>1, <1>3 DEF LockInv, TypeOK, ShutState
<1>6. \A u \in Tasks : Proc[u] = p => u \in Over'
  BY <1>1, <1>2 DEF Over
<1>7. Over \subseteq Over'
  <2> SUFFICES ASSUME NEW u \in Over, u \in Tasks, Proc[u] # p PROVE u \in Over'
    BY <1>6 DEF Over, LockInv, TypeOK
  <2>1. task'[u] = task[u] /\ shut'[Proc[u]] = shut[Proc[u]]
    BY <1>2, <1>4, ProcAssumption
  <2>2. u \in lapsed => u \in lapsed'
    BY <1>3
  <2> QED BY <2>1, <2>2 DEF Over
<1>8. \E u \in Over' : Proc[u] = p
  BY <1>6 DEF Crash, Running
<1>9. \A t \in Tasks : task'[t] = task[t]
                           \/ (task'[t].at \in {"dropped", "dead"} /\ Proc[t] = p)
  BY <1>1, <1>2
<1>10. shut'[p].lock = None /\ shut'[p].at \in {"run", "done"}
  BY <1>4
<1> QED BY <1>3, <1>4, <1>5, <1>7, <1>8, <1>9, <1>10, ProcessStep

(* A tick makes the row older, and the hold of its holder is over in time.  *)
LEMMA TickOrderly == LockInv /\ Tick => Orderly
<1> SUFFICES ASSUME LockInv, Tick PROVE Orderly
  OBVIOUS
<1>1. row \in [token : Tasks \cup {None}, age : 0 .. MaxAge] /\ MaxAge \in Nat /\ Timeout \in Nat
        /\ MaxDelay \in Nat /\ Timeout < MaxAge
  BY TimeAssumption DEF LockInv, TypeOK, MaxAge
<1>2. /\ row' \in [token : Tasks \cup {None}, age : 0 .. MaxAge] /\ row'.token = row.token
      /\ row'.age = row.age \/ row'.age = row.age + 1
  BY <1>1 DEF Tick
<1>3. ASSUME NEW u \in Tasks
      PROVE  /\ task'[u] \in TaskState /\ task'[u].at = task[u].at
             /\ task'[u].seen = task[u].seen /\ task'[u].read = task[u].read
  <2>1. task[u] \in TaskState
    BY DEF LockInv, TypeOK
  <2>2. task[u].at \in {"judge", "upsert"} => task[u].delay + 1 \in 0 .. MaxDelay
    BY <2>1, TimeAssumption DEF Tick, TaskState
  <2>3. task'[u] = IF task[u].at \in {"judge", "upsert"}
                   THEN [task[u] EXCEPT !.delay = @ + 1] ELSE task[u]
    BY DEF Tick
  <2> QED BY <2>1, <2>2, <2>3 DEF TaskState
<1>4. lapsed \subseteq lapsed' /\ lapsed' \subseteq Tasks
  BY DEF Tick, LockInv, TypeOK
<1>5. TypeOK'
  BY <1>2, <1>3, <1>4 DEF Tick, LockInv, TypeOK
<1>6. Over \subseteq Over'
  BY <1>3, <1>4 DEF Over, Tick
<1>7. ASSUME row'.token # None, row'.age + MaxDelay >= Timeout PROVE row'.token \in Over'
  <2>1. PICK k \in Tasks : k = row.token /\ k # None
    BY <1>1, <1>2, <1>7
  <2>2. CASE k \in Over
    BY <1>2, <1>6, <2>1, <2>2
  <2>3. CASE k \notin Over
    <3>1. task[k].at = "held"
      BY <2>1, <2>3 DEF LockInv, RowInv
    <3>2. row.age + 1 + MaxDelay >= Timeout
      BY <1>1, <1>2, <1>7
    <3>3. k \in lapsed'
      BY <2>1, <3>1, <3>2 DEF Tick
    <3> QED BY <1>2, <2>1, <3>3 DEF Over
  <2> QED BY <2>2, <2>3
<1>8. \A q \in Procs : ShutStep(q)
  BY DEF Tick, LockInv, OwnInv, ShutStep
<1>9. UNCHANGED live
  BY DEF Tick
<1> QED BY <1>2, <1>3, <1>5, <1>6, <1>7, <1>8, <1>9, QuietStep

-----------------------------------------------------------------------------
(* The upsert.                                                              *)

(* One that finds the lock taken.                                           *)
LEMMA UpsertFails == \A t \in Tasks : LockInv /\ Upsert(t) /\ ~ MayTake(t) => Orderly
<1> SUFFICES ASSUME LockInv, NEW t \in Tasks, Upsert(t), ~ MayTake(t) PROVE Orderly
  OBVIOUS
<1>1. PICK s : s = [task[t] EXCEPT !.at = "wait", !.delay = 0]
  OBVIOUS
<1>2. task[t] \in TaskState /\ task[t].at = "upsert" /\ 0 \in 0 .. MaxDelay
  BY TimeAssumption DEF LockInv, TypeOK, Upsert
<1>3. s \in TaskState /\ s.at = "wait"
  BY <1>1, <1>2 DEF TaskState, Points, Entering
<1>4. task' = [task EXCEPT ![t] = s] /\ UNCHANGED <<row, live, wakes, shut, lapsed>>
  BY <1>1 DEF Upsert, LockInv, TypeOK
<1>5. task[t].at \in Entering /\ s.at \in Entering /\ s.at \notin Attempt
  BY <1>2, <1>3 DEF Entering, Attempt
<1> QED BY <1>3, <1>4, <1>5, TaskStep

(* What one that takes the lock does.                                       *)
LEMMA UpsertTakes ==
    ASSUME LockInv, NEW t \in Tasks, Upsert(t), MayTake(t)
    PROVE  /\ task[t].at = "upsert" /\ task[t].delay \in 0 .. MaxDelay
           /\ row' = [token |-> t, age |-> task[t].delay]
           /\ lapsed \subseteq lapsed' /\ lapsed' \subseteq lapsed \cup {t}
           /\ task[t].delay + MaxDelay >= Timeout => t \in lapsed'
           /\ shut' = shut /\ wakes' = wakes
           /\ task' \in [Tasks -> TaskState] /\ task'[t].at = "held"
           /\ \A u \in Tasks : u # t => task'[u] = task[u]
           /\ live' \in [Procs -> Tasks \cup {None}]
           /\ \A p \in Procs : live'[p] = IF p = Proc[t] THEN t ELSE live[p]
<1>1. task[t] \in TaskState /\ task[t].at = "upsert" /\ Proc[t] \in Procs
  BY ProcAssumption DEF LockInv, TypeOK, Upsert
<1>2. /\ row' = [token |-> t, age |-> task[t].delay]
      /\ live' = [live EXCEPT ![Proc[t]] = t]
      /\ lapsed' = IF task[t].delay + MaxDelay < Timeout THEN lapsed ELSE lapsed \cup {t}
      /\ task' = [task EXCEPT ![t] = Fresh("held")]
      /\ UNCHANGED <<wakes, shut>>
  BY DEF Upsert
<1>3. task[t].delay \in 0 .. MaxDelay /\ task[t].delay \in Nat
  BY <1>1, TimeAssumption DEF TaskState
<1>4. Fresh("held") \in TaskState /\ Fresh("held").at = "held"
  BY RecordTypes DEF Points
<1>5. /\ task' \in [Tasks -> TaskState] /\ task'[t].at = "held"
      /\ \A u \in Tasks : u # t => task'[u] = task[u]
  BY <1>2, <1>4 DEF LockInv, TypeOK
<1>6. /\ live' \in [Procs -> Tasks \cup {None}]
      /\ \A p \in Procs : live'[p] = IF p = Proc[t] THEN t ELSE live[p]
  BY <1>1, <1>2 DEF LockInv, TypeOK
<1>7. task[t].delay + MaxDelay >= Timeout => t \in lapsed'
  BY <1>2, <1>3, TimeAssumption
<1> QED BY <1>1, <1>2, <1>3, <1>5, <1>6, <1>7

(* A hold that is not over is not taken by another process, nor by its own   *)
(* while it is registered.                                                  *)
LEMMA NotTaken ==
    ASSUME LockInv, NEW t \in Tasks, Upsert(t), MayTake(t), NEW k \in Tasks, row.token = k,
           k \notin Over
    PROVE  Proc[k] = Proc[t] /\ k \notin Safe /\ k # t
<1>1. task[t] \in TaskState /\ task[t].at = "upsert" /\ k # None /\ row.age \in Nat
  BY ProcAssumption DEF LockInv, TypeOK, Upsert
<1>2. ~ (row.age + MaxDelay >= Timeout) /\ task[k].at = "held"
  BY <1>1 DEF LockInv, RowInv
<1>3. ~ (row.age > Timeout + task[t].delay)
  <2>1. task[t].delay \in Nat
    BY <1>1, TimeAssumption DEF TaskState
  <2> QED BY <2>1, <1>1, <1>2, TimeAssumption
<1>4. Proc[k] = Proc[t]
  BY <1>1, <1>3 DEF MayTake
<1>5. live[Proc[t]] \notin Safe
  BY <1>1 DEF LockInv, AttemptInv
<1> QED BY <1>1, <1>2, <1>4, <1>5 DEF Safe

(* An upsert that takes the lock keeps the invariant.                       *)
LEMMA UpsertInv == \A t \in Tasks : LockInv /\ Upsert(t) /\ MayTake(t) => LockInv'
<1> SUFFICES ASSUME LockInv, NEW t \in Tasks, Upsert(t), MayTake(t) PROVE LockInv'
  OBVIOUS
<1>1. /\ task[t].at = "upsert" /\ task[t].delay \in 0 .. MaxDelay
      /\ row' = [token |-> t, age |-> task[t].delay]
      /\ lapsed \subseteq lapsed' /\ lapsed' \subseteq lapsed \cup {t}
      /\ task[t].delay + MaxDelay >= Timeout => t \in lapsed'
      /\ shut' = shut /\ wakes' = wakes
      /\ task' \in [Tasks -> TaskState] /\ task'[t].at = "held"
      /\ \A u \in Tasks : u # t => task'[u] = task[u]
      /\ live' \in [Procs -> Tasks \cup {None}]
      /\ \A p \in Procs : live'[p] = IF p = Proc[t] THEN t ELSE live[p]
  BY UpsertTakes
<1>2. \A u \in Tasks : Proc[u] \in Procs /\ u # None
  BY ProcAssumption
<1>3. TypeOK'
  <2>1. task[t].delay \in 0 .. MaxAge
    BY <1>1, TimeAssumption DEF MaxAge
  <2> QED BY <1>1, <2>1 DEF LockInv, TypeOK
<1>4. Over \subseteq Over' /\ \A u \in Tasks : u # t => (u \in Over <=> u \in Over')
  <2>1. \A u \in Tasks : u # t => (u \in Over <=> u \in Over')
    BY <1>1 DEF Over
  <2>2. t \in Over => t \in Over'
    BY <1>1 DEF Over
  <2>3. Over \subseteq Tasks
    BY DEF Over, LockInv, TypeOK
  <2> QED BY <2>1, <2>2, <2>3
<1>5. ASSUME NEW u \in Safe', u # t PROVE u \in Safe /\ Proc[u] # Proc[t]
  <2>1. u \in Tasks /\ task[u].at = "held" /\ live'[Proc[u]] = u /\ u \notin Over
    BY <1>1, <1>4, <1>5 DEF Safe
  <2>2. Proc[u] # Proc[t] /\ live[Proc[u]] = u
    BY <1>1, <1>2, <1>5, <2>1
  <2> QED BY <2>1, <2>2 DEF Safe
<1>6. RegisteredLockIsKept'
  <2> SUFFICES ASSUME NEW u \in Safe', u # t PROVE FALSE
    BY <1>1 DEF RegisteredLockIsKept
  <2>1. u \in Tasks /\ u \in Safe /\ Proc[u] # Proc[t] /\ u \notin Over
    BY <1>5 DEF Safe
  <2>2. row.token = u
    BY <2>1 DEF LockInv, RegisteredLockIsKept
  <2> QED BY <2>1, <2>2, NotTaken
<1>7. OneAttempt'
  <2>1. task'[t].at \notin Attempt
    BY <1>1 DEF Attempt
  <2> QED BY <2>1, <1>1 DEF LockInv, OneAttempt
<1>8. AttemptInv'
  <2> SUFFICES ASSUME NEW u \in Tasks, task'[u].at \in Attempt
               PROVE  /\ task'[u].at = "check" => live'[Proc[u]] \in {None, task'[u].seen}
                      /\ task'[u].at = "judge" /\ live'[Proc[u]] \in Safe' =>
                            task'[u].seen # None /\ task'[u].read + MaxDelay < Timeout
                      /\ task'[u].at = "upsert" => live'[Proc[u]] \notin Safe'
    BY DEF AttemptInv, Attempt
  <2>1. u # t /\ task'[u] = task[u]
    BY <1>1 DEF Attempt
  <2>2. Proc[u] # Proc[t]
    BY <1>1, <2>1 DEF LockInv, OneAttempt, Attempt
  <2>3. live'[Proc[u]] = live[Proc[u]]
    BY <1>1, <1>2, <2>2
  <2>4. live'[Proc[u]] \in Safe' => live[Proc[u]] \in Safe
    <3> SUFFICES ASSUME live'[Proc[u]] \in Safe' PROVE live[Proc[u]] \in Safe
      OBVIOUS
    <3>1. live'[Proc[u]] # t
      <4> SUFFICES ASSUME live[Proc[u]] = t PROVE FALSE
        BY <2>3
      <4> QED BY <1>2, <2>2 DEF LockInv, OwnInv
    <3> QED BY <1>5, <2>3, <3>1
  <2> QED BY <2>1, <2>3, <2>4 DEF LockInv, AttemptInv
<1>9. OwnInv'
  <2> SUFFICES ASSUME NEW p \in Procs
               PROVE  /\ \A k \in {live'[p], shut'[p].lock} :
                            k # None => Proc[k] = p /\ task'[k].at \notin Entering
                      /\ shut'[p].at \in {"delete", "pop"} <=> shut'[p].lock # None
    BY DEF OwnInv
  <2>1. ASSUME NEW k \in {live'[p], shut'[p].lock}, k # None
        PROVE  Proc[k] = p /\ task'[k].at \notin Entering
    <3>1. CASE k \in {live[p], shut[p].lock}
      <4>1. k \in Tasks /\ Proc[k] = p /\ task[k].at \notin Entering
        BY <2>1, <3>1 DEF LockInv, TypeOK, ShutState, OwnInv
      <4> QED BY <4>1, <1>1 DEF Entering, Attempt
    <3>2. CASE k \notin {live[p], shut[p].lock}
      <4>1. k = t /\ p = Proc[t]
        BY <1>1, <2>1, <3>2
      <4> QED BY <4>1, <1>1 DEF Entering, Attempt
    <3> QED BY <3>1, <3>2
  <2> QED BY <2>1, <1>1 DEF LockInv, OwnInv
<1>10. RowInv'
  <2>1. row'.token = t /\ row'.age = task[t].delay
    BY <1>1
  <2>2. row'.age + MaxDelay >= Timeout => t \in Over'
    BY <2>1, <1>1 DEF Over
  <2> QED BY <2>1, <2>2, <1>1 DEF RowInv
<1>11. LooseInv'
  <2> SUFFICES ASSUME NEW u \in Tasks, task'[u].at = "held", u \notin Over', u \notin Safe'
               PROVE  \E v \in Over' \ {u} : Proc[v] = Proc[u]
    BY DEF LooseInv
  <2>1. u # t
    BY <1>1, <1>2 DEF Safe
  <2>2. task[u].at = "held" /\ u \notin Over
    BY <2>1, <1>1, <1>4
  <2>3. u \notin Safe
    <3> SUFFICES ASSUME u \in Safe PROVE FALSE
      OBVIOUS
    <3>1. live[Proc[u]] = u
      BY DEF Safe
    <3>2. Proc[u] # Proc[t]
      BY <3>1, <1>1 DEF LockInv, AttemptInv
    <3>3. live'[Proc[u]] = u
      BY <3>1, <3>2, <1>1, <1>2
    <3> QED BY <3>3 DEF Safe
  <2>4. PICK v \in Over \ {u} : Proc[v] = Proc[u]
    BY <2>2, <2>3 DEF LockInv, LooseInv
  <2> QED BY <2>4, <1>4
<1> QED BY <1>3, <1>6, <1>7, <1>8, <1>9, <1>10, <1>11 DEF LockInv

(* An upsert that takes the lock takes it from nobody whose hold is not      *)
(* over, or from another task of its process, after an earlier one.         *)
LEMMA UpsertLease == \A t \in Tasks : LockInv /\ Upsert(t) /\ MayTake(t) => Lease!Next
<1> SUFFICES ASSUME LockInv, NEW t \in Tasks, Upsert(t), MayTake(t) PROVE Lease!Next
  OBVIOUS
<1>1. /\ row'.token = t /\ task[t].at = "upsert" /\ shut' = shut /\ lapsed \subseteq lapsed'
      /\ \A u \in Tasks : u # t => task'[u] = task[u]
  BY UpsertTakes
<1>2. Over \subseteq Over'
  BY <1>1 DEF Over
<1>3. CASE row.token \in Over \cup {None}
  BY <1>1, <1>2, <1>3 DEF Lease!Next, Lease!End, Lease!Take
<1>4. CASE row.token \notin Over \cup {None}
  <2>1. PICK k \in Tasks : k = row.token /\ k # None /\ k \notin Over
    BY <1>4 DEF LockInv, TypeOK
  <2>2. Proc[k] = Proc[t] /\ k \notin Safe
    BY <2>1, NotTaken
  <2>3. task[k].at = "held"
    BY <2>1 DEF LockInv, RowInv
  <2>4. PICK u \in Over \ {k} : Proc[u] = Proc[k]
    BY <2>1, <2>2, <2>3 DEF LockInv, LooseInv
  <2>5. Lease!Overtake
    BY <1>1, <2>1, <2>2, <2>4 DEF Lease!Overtake
  <2> QED BY <1>2, <2>5 DEF Lease!Next, Lease!End
<1> QED BY <1>3, <1>4

-----------------------------------------------------------------------------
(* Every step is orderly, or an upsert that takes the lock, or a stutter.   *)
LEMMA NextCases ==
    ASSUME LockInv, [Next]_vars
    PROVE  \/ Orderly \/ UNCHANGED vars
           \/ \E t \in Tasks : Upsert(t) /\ MayTake(t)
<1>1. ASSUME NEW t \in Tasks, Upsert(t) PROVE Orderly \/ MayTake(t)
  BY <1>1, UpsertFails
<1>2. ASSUME NEW t \in Tasks, Step(t) \/ Renew(t), ~ Upsert(t) PROVE Orderly
  BY <1>2, TryOrderly, CheckOrderly, JudgeOrderly, WaitOrderly, ExitOrderly, ReleaseOrderly,
     PopOrderly, RenewOrderly DEF Step
<1>3. ASSUME NEW p \in Procs, \/ OnLockReleased(p) \/ Crash(p)
                              \/ OnShutdown(p) \/ ShutdownDelete(p) \/ ShutdownPop(p)
      PROVE  Orderly
  BY <1>3, NoticeOrderly, CrashOrderly, ShutdownOrderly, DeleteOrderly, DropOrderly
<1>4. CASE Tick
  BY <1>4, TickOrderly
<1> QED BY <1>1, <1>2, <1>3, <1>4 DEF Next

(* The invariant of the lock holds in every reachable state: one task of a  *)
(* process acquires at a time, what it reads of a lock that is renewed with *)
(* the slowest query to spare is enough to leave it alone, and a holder is  *)
(* unregistered only by its own process.                                    *)
THEOREM LocksInvariant == Spec => []LockInv
<1>1. LockInv /\ [Next]_vars => LockInv'
  BY NextCases, OrderlyInv, UpsertInv, StutterInv
<1> QED BY <1>1, InitInv, PTL DEF Spec

(* A lock that is renewed in time and registered stays in the table under   *)
(* its token: no takeover, no late release by an earlier holder removes it. *)
THEOREM LockIsKept == Spec => []RegisteredLockIsKept
<1>1. LockInv => RegisteredLockIsKept
  BY DEF LockInv
<1> QED BY <1>1, LocksInvariant, PTL

(* LockStore implements the abstract lock: the row goes from a holder to     *)
(* another only once the hold is dropped, at a shutdown too, or timed out,   *)
(* except within a process in which an earlier hold is over.                *)
THEOREM LockIsALease == Spec => LeaseSpec
<1>1. Init => Lease!Init
  <2> SUFFICES ASSUME Init PROVE Lease!Init
    OBVIOUS
  <2>1. \A t \in Tasks : task[t].at = "try" /\ shut[Proc[t]].lock = None /\ t # None
    BY ProcAssumption DEF Init, Fresh
  <2>2. Over = {}
    BY <2>1 DEF Over, Init
  <2> QED BY <2>2 DEF Init, NoRow, Lease!Init
<1>2. LockInv /\ [Next]_vars => [Lease!Next]_<<row.token, Over>>
  <2> SUFFICES ASSUME LockInv, [Next]_vars PROVE [Lease!Next]_<<row.token, Over>>
    OBVIOUS
  <2>1. CASE UNCHANGED vars
    BY <2>1 DEF vars, Over
  <2> QED BY <2>1, NextCases, OrderlyLease, UpsertLease
<1> QED BY <1>1, <1>2, LocksInvariant, PTL DEF Spec, LeaseSpec, Lease!Spec

=============================================================================
