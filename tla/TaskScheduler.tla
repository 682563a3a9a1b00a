---------------------------- MODULE TaskScheduler ----------------------------
(***************************************************************************)
(* The scheduler of resumable tasks (util/task_scheduler.py) and its table *)
(* scheduled_tasks (storage/databases/main/task_scheduler.py).             *)
(*                                                                         *)
(* One launcher at a time reads the active tasks and then the scheduled     *)
(* ones that are due, oldest first, and starts those that are not running.  *)
(* Every access to the table is an await: a list is out of date when the    *)
(* launcher gets to it.  What calls the launcher (a timer, the end of a     *)
(* task, schedule_task, a NEW_ACTIVE_TASK command) does not matter, as the  *)
(* timer may do so at any time.                                             *)
(***************************************************************************)
EXTENDS Naturals, FiniteSets, Sequences, SequencesExt

CONSTANTS
    Jobs,          \* the tasks
    Unknown,       \* the tasks whose action nobody has registered
    MaxRunning,    \* MAX_CONCURRENT_RUNNING_TASKS
    MaxFailures,   \* bound: the updates of the table that fail
    MaxCrashes     \* bound: the restarts of the process

ASSUME SchedulerAssumption == MaxRunning \in Nat /\ MaxFailures \in Nat /\ MaxCrashes \in Nat

VARIABLES
    status,     \* status[t]: of the row; "new" before and "gone" after there is one
    order,      \* the rows that are due and not over, by timestamp
    running,    \* _running_tasks
    alive,      \* alive[t]: the wrappers of t under way
    wrote,      \* the tasks whose wrapper has stored the result
    launcher,   \* the launcher: where it is, its statuses, its task and what is left of its list
    deletes,    \* the tasks that delete_task has looked at
    cleaner,    \* the ended tasks left on the list of _clean_scheduled_tasks
    failures, crashes

vars == <<status, order, running, alive, wrote, launcher, deletes, cleaner, failures, crashes>>

Over == {"complete", "failed"}

Idle == [at |-> "idle"]

Init ==
    /\ status = [t \in Jobs |-> "new"]
    /\ order = <<>>
    /\ running = {} /\ wrote = {} /\ deletes = {} /\ cleaner = {}
    /\ alive = [t \in Jobs |-> 0]
    /\ launcher = Idle
    /\ failures = 0 /\ crashes = 0

-----------------------------------------------------------------------------
(* The row of t gets the time as its timestamp.                             *)
Touched(t) == Append(Remove(order, t), t)

(* schedule_task, for now or for later.                                     *)
ScheduleTask(t) ==
    /\ status[t] = "new"
    /\ status' = [status EXCEPT ![t] = "scheduled"]
    /\ order' \in {order, Touched(t)}
    /\ UNCHANGED <<running, alive, wrote, launcher, deletes, cleaner, failures, crashes>>

(* The timestamp of a task passes.                                          *)
Due(t) ==
    /\ status[t] = "scheduled" /\ ~ Contains(order, t)
    /\ order' = Touched(t)
    /\ UNCHANGED <<status, running, alive, wrote, launcher, deletes, cleaner, failures, crashes>>

(* _launch_scheduled_tasks.                                                 *)
LaunchScheduledTasks ==
    /\ Cardinality(running) < MaxRunning
    /\ launcher.at = "idle"
    /\ launcher' = [at |-> "read", phase |-> "active"]
    /\ UNCHANGED <<status, order, running, alive, wrote, deletes, cleaner, failures, crashes>>

(* Mutant: the active tasks are not looked for.                              *)
GetTasksMutant ==
    LET rows == SelectSeq(order, LAMBDA t : status[t] = "scheduled") IN
    /\ launcher.at = "read"
    /\ launcher' = [at |-> "walk", phase |-> launcher.phase,
                    list |-> IF Len(rows) > MaxRunning THEN SubSeq(rows, 1, MaxRunning)
                             ELSE rows]
    /\ UNCHANGED <<status, order, running, alive, wrote, deletes, cleaner, failures, crashes>>

(* get_tasks: ORDER BY timestamp LIMIT MAX_CONCURRENT_RUNNING_TASKS.         *)
GetTasks ==
    LET rows == SelectSeq(order, LAMBDA t : status[t] = launcher.phase) IN
    /\ launcher.at = "read"
    /\ launcher' = [at |-> "walk", phase |-> launcher.phase,
                    list |-> IF Len(rows) > MaxRunning THEN SubSeq(rows, 1, MaxRunning)
                             ELSE rows]
    /\ UNCHANGED <<status, order, running, alive, wrote, deletes, cleaner, failures, crashes>>

(* Mutant: whether the task is running already is not asked.                 *)
PassedOverMutant(t) == t \notin Unknown /\ Cardinality(running) >= MaxRunning

(* The tasks that _launch_task returns from at once.                        *)
PassedOver(t) ==
    t \notin Unknown /\ (Cardinality(running) >= MaxRunning \/ t \in running)

(* The loops go over the list up to the next task to launch.  A task without *)
(* a function raises, which ends the launcher.                              *)
Walk(list) ==
    \/ /\ \A i \in 1..Len(list) : PassedOver(list[i])
       /\ launcher' = IF launcher.phase = "active"
                      THEN [at |-> "read", phase |-> "scheduled"] ELSE Idle
       /\ UNCHANGED running
    \/ \E i \in 1..Len(list) :
          /\ ~ PassedOver(list[i])
          /\ \A k \in 1..(i - 1) : PassedOver(list[k])
          /\ IF list[i] \in Unknown
             THEN launcher' = Idle /\ UNCHANGED running
             ELSE /\ launcher' = [at |-> "update", phase |-> launcher.phase, job |-> list[i],
                                  list |-> SubSeq(list, i + 1, Len(list))]
                  /\ running' = running \cup {list[i]}

(* _launch_task up to its await, on the list that was read or what is left.  *)
LaunchTask ==
    /\ launcher.at = "walk"
    /\ Walk(launcher.list)
    /\ UNCHANGED <<status, order, alive, wrote, deletes, cleaner, failures, crashes>>

(* Mutant: a row that is over is left as it is.                             *)
SetActiveMutant ==
    LET t == launcher.job IN
    /\ launcher.at = "update"
    /\ IF status[t] \in Over \cup {"gone"} THEN UNCHANGED <<status, order>>
       ELSE status' = [status EXCEPT ![t] = "active"] /\ order' = Touched(t)
    /\ launcher' = [at |-> "start", phase |-> launcher.phase, job |-> t, list |-> launcher.list]
    /\ UNCHANGED <<running, alive, wrote, deletes, cleaner, failures, crashes>>

(* update_task sets the task to active, if its row is still there ...        *)
SetActive ==
    LET t == launcher.job IN
    /\ launcher.at = "update"
    /\ IF status[t] = "gone" THEN UNCHANGED <<status, order>>
       ELSE status' = [status EXCEPT ![t] = "active"] /\ order' = Touched(t)
    /\ launcher' = [at |-> "start", phase |-> launcher.phase, job |-> t, list |-> launcher.list]
    /\ UNCHANGED <<running, alive, wrote, deletes, cleaner, failures, crashes>>

(* ... then the wrapper is started, and the loop goes on.                   *)
StartTask ==
    /\ launcher.at = "start"
    /\ alive' = [alive EXCEPT ![launcher.job] = @ + 1]
    /\ Walk(launcher.list)
    /\ UNCHANGED <<status, order, wrote, deletes, cleaner, failures, crashes>>

(* update_task raises: the launcher ends and the task stays in               *)
(* _running_tasks.                                                          *)
StartFails ==
    /\ launcher.at = "update"
    /\ failures < MaxFailures
    /\ failures' = failures + 1
    /\ launcher' = Idle
    /\ UNCHANGED <<status, order, running, alive, wrote, deletes, cleaner, crashes>>

-----------------------------------------------------------------------------
(* The function of a task stores how far it is.  Every one in the repository  *)
(* gives only a result: update_task then leaves the status and takes the      *)
(* current time.  (Nobody stages a task by setting it back to scheduled.)     *)
UpdateTask(t) ==
    /\ alive[t] > 0 /\ t \notin wrote
    /\ Contains(order, t)
    /\ order' = Touched(t)
    /\ UNCHANGED <<status, running, alive, wrote, launcher, deletes, cleaner, failures, crashes>>

(* The function returns, or raises; the wrapper stores the result ...       *)
StoreResult(t) ==
    /\ alive[t] > 0 /\ t \notin wrote
    /\ IF status[t] = "gone" THEN UNCHANGED status
       ELSE \E s \in Over : status' = [status EXCEPT ![t] = s]
    /\ order' = Remove(order, t)
    /\ wrote' = wrote \cup {t}
    /\ UNCHANGED <<running, alive, launcher, deletes, cleaner, failures, crashes>>

(* ... and takes the task from _running_tasks.                              *)
Finish(t) ==
    /\ t \in wrote
    /\ wrote' = wrote \ {t}
    /\ running' = running \ {t}
    /\ alive' = [alive EXCEPT ![t] = @ - 1]
    /\ UNCHANGED <<status, order, launcher, deletes, cleaner, failures, crashes>>

(* The update raises: the wrapper ends without that.                        *)
StoreFails(t) ==
    /\ alive[t] > 0 /\ t \notin wrote
    /\ failures < MaxFailures
    /\ failures' = failures + 1
    /\ alive' = [alive EXCEPT ![t] = @ - 1]
    /\ UNCHANGED <<status, order, running, wrote, launcher, deletes, cleaner, crashes>>

(* The launcher has t on its list, or is launching it.                      *)
InHand(t) ==
    \/ launcher.at \in {"walk", "update", "start"} /\ Contains(launcher.list, t)
    \/ launcher.at \in {"update", "start"} /\ launcher.job = t

(* _clean_scheduled_tasks reads the rows that have been over for a week: by   *)
(* then their wrappers have ended and the launcher's lists are newer.  The    *)
(* list may be any part of them, as the clock, or a deletion that fails, may  *)
(* leave out the others.                                                    *)
CleanScheduledTasks ==
    /\ cleaner = {}
    /\ cleaner' \in SUBSET {t \in Jobs : status[t] \in Over /\ t \notin wrote /\ ~ InHand(t)}
    /\ UNCHANGED <<status, order, running, alive, wrote, launcher, deletes, failures, crashes>>

(* The assertion that the next one is not in _running_tasks fails, which ends *)
(* it before the tasks behind, or the row is deleted.                       *)
CleanTask(t) ==
    /\ t \in cleaner
    /\ \/ t \in running /\ cleaner' = {} /\ UNCHANGED status
       \/ /\ t \notin running
          /\ cleaner' = cleaner \ {t}
          /\ status' = [status EXCEPT ![t] = "gone"]
    /\ UNCHANGED <<order, running, alive, wrote, launcher, deletes, failures, crashes>>

(* delete_task looks at the status ...                                      *)
GetTask(t) ==
    /\ status[t] \in Over \cup {"scheduled"} /\ t \notin deletes
    /\ deletes' = deletes \cup {t}
    /\ UNCHANGED <<status, order, running, alive, wrote, launcher, cleaner, failures, crashes>>

(* ... and deletes the row.                                                 *)
DeleteTask(t) ==
    /\ t \in deletes
    /\ deletes' = deletes \ {t}
    /\ status' = [status EXCEPT ![t] = "gone"]
    /\ order' = Remove(order, t)
    /\ UNCHANGED <<running, alive, wrote, launcher, cleaner, failures, crashes>>

(* The process restarts.                                                    *)
Restart ==
    /\ crashes < MaxCrashes
    /\ crashes' = crashes + 1
    /\ running' = {} /\ wrote' = {} /\ deletes' = {} /\ cleaner' = {}
    /\ alive' = [t \in Jobs |-> 0]
    /\ launcher' = Idle
    /\ UNCHANGED <<status, order, failures>>

-----------------------------------------------------------------------------
Launch == LaunchScheduledTasks \/ GetTasks \/ LaunchTask \/ SetActive \/ StartTask

Step(t) == StoreResult(t) \/ Finish(t)

Next ==
    \/ Launch \/ StartFails \/ CleanScheduledTasks \/ Restart
    \/ \E t \in Jobs : \/ ScheduleTask(t) \/ Due(t) \/ UpdateTask(t) \/ Step(t) \/ StoreFails(t)
                       \/ CleanTask(t) \/ GetTask(t) \/ DeleteTask(t)

Spec == Init /\ [][Next]_vars

(* The timer calls the launcher, queries return, tasks come due and end.    *)
Fairness == WF_vars(Launch) /\ \A t \in Jobs : WF_vars(Due(t)) /\ WF_vars(Step(t))

FairSpec == Spec /\ Fairness

-----------------------------------------------------------------------------
(* No task is ever run twice at the same time, and no more than MaxRunning   *)
(* are: also on lists that are out of date, and when a task is deleted,      *)
(* resumed after a restart, or its updates fail.                            *)
RunsAreBounded ==
    /\ \A t \in Jobs : alive[t] <= 1
    /\ Cardinality({t \in Jobs : alive[t] > 0}) <= MaxRunning

(* Tasks that count as running though nothing runs them any more.           *)
Leaked ==
    {t \in running : alive[t] = 0 /\ ~ (launcher.at \in {"update", "start"} /\ launcher.job = t)}

(* "FAILED and COMPLETE tasks should never be running": the assertion of       *)
(* _clean_scheduled_tasks holds of every task on its list, also of one that a *)
(* stale list has run again after its end, unless the update for its start    *)
(* failed and it has kept its place in _running_tasks.  (Then the assertion   *)
(* does fail, on every clean until a restart.)                              *)
CleanedIsNotRunning == \A t \in cleaner \cap running : t \in Leaked

(* A task that is scheduled or active ends, restarts and full queues         *)
(* notwithstanding, unless it is deleted, a failed update has taken a place  *)
(* for good, or the task of an unknown action is in the way.                *)
TasksEnd ==
    \A t \in Jobs :
        status[t] \in {"scheduled", "active"} ~>
            \/ status[t] \in Over \cup {"gone"}
            \/ Leaked # {}
            \/ \E u \in Unknown : Contains(order, u)

-----------------------------------------------------------------------------
(* The inductive invariant: what runs, or is about to, has its own place in  *)
(* _running_tasks, which is never over its limit, and a row that is not over. *)
TaskInv ==
    /\ IsFiniteSet(running) /\ Cardinality(running) <= MaxRunning
    /\ alive \in [Jobs -> {0, 1}]
    /\ \A t \in Jobs : alive[t] = 1 => t \in running
    /\ \A t \in wrote : t \in Jobs /\ alive[t] = 1
    /\ launcher.at \in {"update", "start"} =>
          /\ launcher.job \in running
          /\ launcher.job \in Jobs => alive[launcher.job] = 0
    /\ status \in [Jobs -> Over \cup {"new", "scheduled", "active", "gone"}]
    /\ \A t \in Jobs : alive[t] = 1 /\ t \notin wrote => status[t] \in {"active", "gone"}
    /\ launcher.at = "start" /\ launcher.job \in Jobs =>
          status[launcher.job] \in {"active", "gone"}

=============================================================================
