------------------------- MODULE TaskSchedulerProofs -------------------------
(***************************************************************************)
(* Proofs about TaskScheduler: for any number of tasks, any limit, any     *)
(* order of the awaits, any failed updates and any restarts, no task runs  *)
(* twice at once and the limit of running tasks holds.                     *)
(***************************************************************************)
EXTENDS TaskScheduler, FiniteSetTheorems, TLAPS

(* Walking a list keeps _running_tasks within its limit, takes nothing from *)
(* it, and only launches a task that was not in it and then is.             *)
LEMMA WalkLaunches ==
    ASSUME IsFiniteSet(running), Cardinality(running) <= MaxRunning,
           NEW list, Walk(list)
    PROVE  /\ IsFiniteSet(running') /\ Cardinality(running') <= MaxRunning
           /\ running \subseteq running'
           /\ launcher'.at \in {"update", "start"} =>
                 launcher'.job \in running' /\ launcher'.job \notin running
<1>0. Cardinality(running) \in Nat /\ MaxRunning \in Nat
  BY FS_CardinalityType, SchedulerAssumption
<1>1. CASE /\ launcher' = IF launcher.phase = "active"
                          THEN [at |-> "read", phase |-> "scheduled"] ELSE Idle
           /\ UNCHANGED running
  BY <1>1 DEF Idle
<1>2. CASE launcher' = Idle /\ UNCHANGED running
  BY <1>2 DEF Idle
<1>3. ASSUME NEW i \in 1..Len(list), ~ PassedOver(list[i]), list[i] \notin Unknown,
             launcher' = [at |-> "update", phase |-> launcher.phase, job |-> list[i],
                          list |-> SubSeq(list, i + 1, Len(list))],
             running' = running \cup {list[i]}
      PROVE  /\ IsFiniteSet(running') /\ Cardinality(running') <= MaxRunning
             /\ running \subseteq running'
             /\ launcher'.job \in running' /\ launcher'.job \notin running
  <2>1. list[i] \notin running /\ ~ (Cardinality(running) >= MaxRunning)
    BY <1>3 DEF PassedOver
  <2>2. IsFiniteSet(running') /\ Cardinality(running') = Cardinality(running) + 1
    BY <1>3, <2>1, FS_AddElement
  <2>3. Cardinality(running') <= MaxRunning
    BY <1>0, <2>1, <2>2
  <2>4. launcher'.job = list[i]
    BY <1>3
  <2> QED
    BY <1>3, <2>1, <2>2, <2>3, <2>4
<1> QED
  BY <1>1, <1>2, <1>3 DEF Walk

(* Walking a list ends in front of an update, or at its end.               *)
LEMMA WalkEnds ==
    ASSUME NEW list, Walk(list)
    PROVE  launcher'.at # "start"
  BY DEF Walk, Idle

(* A smaller set of running tasks is within the limit as well.              *)
LEMMA FewerRunning ==
    ASSUME IsFiniteSet(running), Cardinality(running) <= MaxRunning,
           NEW S, S \subseteq running
    PROVE  IsFiniteSet(S) /\ Cardinality(S) <= MaxRunning
<1>1. IsFiniteSet(S) /\ Cardinality(S) <= Cardinality(running)
  BY FS_Subset
<1> QED
  BY <1>1, FS_CardinalityType, SchedulerAssumption

(* Nothing runs at the start.                                               *)
LEMMA InitTaskInv == Init => TaskInv
<1> SUFFICES ASSUME Init PROVE TaskInv
  OBVIOUS
<1>1. IsFiniteSet(running) /\ Cardinality(running) <= MaxRunning
  BY FS_EmptySet, SchedulerAssumption DEF Init
<1> QED
  BY <1>1 DEF Init, TaskInv, Idle, Over

(* Every step keeps TaskInv.                                                *)
LEMMA NextTaskInv == TaskInv /\ [Next]_vars => TaskInv'
<1> SUFFICES ASSUME TaskInv, [Next]_vars PROVE TaskInv'
  OBVIOUS
<1>fin. IsFiniteSet(running) /\ Cardinality(running) <= MaxRunning
  BY DEF TaskInv
<1>1. CASE LaunchScheduledTasks
  BY <1>1 DEF TaskInv, LaunchScheduledTasks
<1>2. CASE GetTasks
  <2>1. launcher'.at = "walk"
    BY <1>2 DEF GetTasks
  <2> QED
    BY <1>2, <2>1 DEF TaskInv, GetTasks
<1>3. CASE LaunchTask
  <2>1. /\ IsFiniteSet(running') /\ Cardinality(running') <= MaxRunning
        /\ running \subseteq running'
        /\ launcher'.at \in {"update", "start"} =>
              launcher'.job \in running' /\ launcher'.job \notin running
    BY <1>3, <1>fin, WalkLaunches DEF LaunchTask
  <2>2. alive' = alive /\ wrote' = wrote /\ status' = status /\ launcher'.at # "start"
    BY <1>3, WalkEnds DEF LaunchTask
  <2> QED
    BY <2>1, <2>2 DEF TaskInv
<1>4. CASE SetActive
  <2>1. launcher.at = "update" /\ launcher'.job = launcher.job
    BY <1>4 DEF SetActive
  <2>2. running' = running /\ alive' = alive /\ wrote' = wrote
    BY <1>4 DEF SetActive
  <2>3. \/ status[launcher.job] = "gone" /\ status' = status
        \/ status' = [status EXCEPT ![launcher.job] = "active"]
    BY <1>4 DEF SetActive
  <2>4. status' \in [Jobs -> Over \cup {"new", "scheduled", "active", "gone"}]
    BY <2>3 DEF TaskInv
  <2>5. \A t \in Jobs : status'[t] = status[t] \/ status'[t] = "active"
    BY <2>3 DEF TaskInv
  <2>6. launcher.job \in Jobs => status'[launcher.job] \in {"active", "gone"}
    BY <2>3 DEF TaskInv
  <2> QED
    BY <2>1, <2>2, <2>4, <2>5, <2>6 DEF TaskInv
<1>5. CASE StartTask
  <2>1. /\ IsFiniteSet(running') /\ Cardinality(running') <= MaxRunning
        /\ running \subseteq running'
        /\ launcher'.at \in {"update", "start"} =>
              launcher'.job \in running' /\ launcher'.job \notin running
    BY <1>5, <1>fin, WalkLaunches DEF StartTask
  <2>2. launcher.at = "start" /\ wrote' = wrote
        /\ alive' = [alive EXCEPT ![launcher.job] = @ + 1]
        /\ status' = status /\ launcher'.at # "start"
    BY <1>5, WalkEnds DEF StartTask
  <2>3. launcher.job \in running /\ (launcher.job \in Jobs => alive[launcher.job] = 0)
    BY <2>2 DEF TaskInv
  <2>4. alive' \in [Jobs -> {0, 1}]
    <3>1. alive \in [Jobs -> {0, 1}]
      BY DEF TaskInv
    <3>2. \A t \in Jobs : alive'[t] \in {0, 1}
      BY <2>2, <2>3, <3>1
    <3>3. alive' = [t \in Jobs |-> alive'[t]]
      BY <2>2, <3>1
    <3> QED
      BY <3>2, <3>3
  <2>5. \A t \in Jobs : t # launcher.job => alive'[t] = alive[t]
    BY <2>2 DEF TaskInv
  <2>6. \A t \in Jobs : alive'[t] = 1 => t \in running'
    BY <2>1, <2>3, <2>5 DEF TaskInv
  <2>7. \A t \in wrote' : t \in Jobs /\ alive'[t] = 1
    BY <2>2, <2>3, <2>5 DEF TaskInv
  <2>8. launcher'.at \in {"update", "start"} =>
           /\ launcher'.job \in running'
           /\ launcher'.job \in Jobs => alive'[launcher'.job] = 0
    BY <2>1, <2>3, <2>5 DEF TaskInv
  <2>9. \A t \in Jobs : alive'[t] = 1 /\ t \notin wrote' => status'[t] \in {"active", "gone"}
    BY <2>2, <2>5 DEF TaskInv
  <2> QED
    BY <2>1, <2>2, <2>4, <2>6, <2>7, <2>8, <2>9 DEF TaskInv
<1>6. CASE StartFails
  BY <1>6 DEF TaskInv, StartFails, Idle
<1>7. CASE Restart
  <2>1. IsFiniteSet(running') /\ Cardinality(running') <= MaxRunning
    BY <1>7, FS_EmptySet, SchedulerAssumption DEF Restart
  <2> QED
    BY <1>7, <2>1 DEF TaskInv, Restart, Idle
<1>8. ASSUME NEW t \in Jobs, StoreResult(t) PROVE TaskInv'
  <2>1. alive' = alive /\ running' = running /\ launcher' = launcher /\ wrote' = wrote \cup {t}
    BY <1>8 DEF StoreResult
  <2>2. alive[t] = 1
    BY <1>8 DEF StoreResult, TaskInv
  <2>3. status' = status \/ \E s \in Over : status' = [status EXCEPT ![t] = s]
    BY <1>8 DEF StoreResult
  <2>4. status' \in [Jobs -> Over \cup {"new", "scheduled", "active", "gone"}]
    BY <2>3 DEF TaskInv
  <2>5. \A u \in Jobs : u # t => status'[u] = status[u]
    BY <2>3 DEF TaskInv
  <2>6. launcher.at = "start" => launcher.job # t
    BY <2>2 DEF TaskInv
  <2> QED
    BY <2>1, <2>2, <2>4, <2>5, <2>6 DEF TaskInv
<1>9. ASSUME NEW t \in Jobs, Finish(t) PROVE TaskInv'
  <2>1. /\ wrote' = wrote \ {t} /\ running' = running \ {t} /\ launcher' = launcher
        /\ alive' = [alive EXCEPT ![t] = @ - 1] /\ status' = status
    BY <1>9 DEF Finish
  <2>2. alive[t] = 1
    BY <1>9 DEF Finish, TaskInv
  <2>3. IsFiniteSet(running') /\ Cardinality(running') <= MaxRunning
    BY <1>fin, <2>1, FewerRunning
  <2>4. alive' \in [Jobs -> {0, 1}]
    BY <2>1, <2>2 DEF TaskInv
  <2>5. alive'[t] = 0 /\ \A u \in Jobs : u # t => alive'[u] = alive[u]
    BY <2>1, <2>2 DEF TaskInv
  <2>6. \A u \in Jobs : alive'[u] = 1 => u \in running'
    BY <2>1, <2>5 DEF TaskInv
  <2>7. \A u \in wrote' : u \in Jobs /\ alive'[u] = 1
    BY <2>1, <2>5 DEF TaskInv
  <2>8. launcher'.at \in {"update", "start"} =>
           /\ launcher'.job \in running'
           /\ launcher'.job \in Jobs => alive'[launcher'.job] = 0
    BY <2>1, <2>2, <2>5 DEF TaskInv
  <2>9. \A u \in Jobs : alive'[u] = 1 /\ u \notin wrote' => status'[u] \in {"active", "gone"}
    BY <2>1, <2>5 DEF TaskInv
  <2> QED
    BY <2>1, <2>3, <2>4, <2>6, <2>7, <2>8, <2>9 DEF TaskInv
<1>10. ASSUME NEW t \in Jobs, StoreFails(t) PROVE TaskInv'
  <2>1. /\ running' = running /\ launcher' = launcher /\ wrote' = wrote
        /\ alive' = [alive EXCEPT ![t] = @ - 1] /\ t \notin wrote /\ status' = status
    BY <1>10 DEF StoreFails
  <2>2. alive[t] = 1
    BY <1>10 DEF StoreFails, TaskInv
  <2>3. alive' \in [Jobs -> {0, 1}]
    BY <2>1, <2>2 DEF TaskInv
  <2>4. alive'[t] = 0 /\ \A u \in Jobs : u # t => alive'[u] = alive[u]
    BY <2>1, <2>2 DEF TaskInv
  <2> QED
    BY <2>1, <2>3, <2>4 DEF TaskInv
<1>11. ASSUME NEW t \in Jobs,
              \/ ScheduleTask(t) \/ Due(t) \/ UpdateTask(t)
              \/ CleanTask(t) \/ GetTask(t) \/ DeleteTask(t)
       PROVE  TaskInv'
  <2>1. UNCHANGED <<running, alive, wrote, launcher>>
    BY <1>11 DEF ScheduleTask, Due, UpdateTask, CleanTask, GetTask, DeleteTask
  <2>2. \/ status' = status
        \/ status[t] = "new" /\ status' = [status EXCEPT ![t] = "scheduled"]
        \/ status' = [status EXCEPT ![t] = "gone"]
    BY <1>11 DEF ScheduleTask, Due, UpdateTask, CleanTask, GetTask, DeleteTask
  <2>3. status' \in [Jobs -> Over \cup {"new", "scheduled", "active", "gone"}]
    BY <2>2 DEF TaskInv
  <2>4. \A u \in Jobs : status[u] \in {"active", "gone"} => status'[u] \in {"active", "gone"}
    BY <2>2 DEF TaskInv
  <2> QED
    BY <2>1, <2>3, <2>4 DEF TaskInv
<1>12. CASE CleanScheduledTasks
  BY <1>12 DEF TaskInv, CleanScheduledTasks
<1>13. CASE UNCHANGED vars
  BY <1>13 DEF TaskInv, vars
<1> QED
  BY <1>1, <1>2, <1>3, <1>4, <1>5, <1>6, <1>7, <1>8, <1>9, <1>10, <1>11, <1>12, <1>13
     DEF Next, Launch, Step

(* What is running, or is about to be, has its own place in _running_tasks, *)
(* and there are never more places taken than MAX_CONCURRENT_RUNNING_TASKS; *)
(* and the row of a task that is run says it is active, until its wrapper    *)
(* has stored the result, or it has been deleted.                           *)
THEOREM SchedulerInvariant == Spec => []TaskInv
  BY InitTaskInv, NextTaskInv, PTL DEF Spec

(* What runs is in _running_tasks, whose size is bounded.                   *)
LEMMA TaskInvBounds == TaskInv => RunsAreBounded
<1> SUFFICES ASSUME TaskInv PROVE RunsAreBounded
  OBVIOUS
<1>1. \A t \in Jobs : alive[t] <= 1 /\ (alive[t] > 0 => t \in running)
  BY DEF TaskInv
<1>2. {t \in Jobs : alive[t] > 0} \subseteq running
  BY <1>1
<1>3. Cardinality({t \in Jobs : alive[t] > 0}) <= MaxRunning
  <2>1. IsFiniteSet(running) /\ Cardinality(running) <= MaxRunning
    BY DEF TaskInv
  <2> QED
    BY <1>2, <2>1, FewerRunning
<1> QED
  BY <1>1, <1>3 DEF RunsAreBounded

(* No task is run twice at the same time and no more than the limit are,     *)
(* also on stale lists, after a restart, a deletion or a failed update.      *)
THEOREM RunsBounded == Spec => []RunsAreBounded
  BY SchedulerInvariant, TaskInvBounds, PTL

=============================================================================
