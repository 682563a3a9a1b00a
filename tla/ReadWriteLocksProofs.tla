------------------------ MODULE ReadWriteLocksProofs ------------------------
(* Read/write exclusion of ReadWriteLocks, for any locks, tasks, processes   *)
(* and timeout.                                                              *)
EXTENDS ReadWriteLocks, TLAPS

(* Nobody holds a row at the start.                                         *)
LEMMA InitInv == Init => RWInv
BY TaskAssumption, TimeoutAssumption DEF Init, RWInv, TypeOK, Points

(* A step that adds no row, no holder and no age, and takes rows only from   *)
(* those who no longer hold them or let them lapse, keeps the invariant.    *)
LEMMA ShrinkStep ==
    ASSUME RWInv, TypeOK', rows' \subseteq rows, lapsed' = lapsed,
           \A r \in rows' : age'[r] <= age[r],
           \A t \in Tasks : at'[t] = "held" => at[t] = "held",
           \A t \in Tasks : \A l \in Wants[t] :
               at'[t] = "held" /\ <<l, t>> \in rows /\ <<l, t>> \notin rows' => <<l, t>> \in lapsed
    PROVE  RWInv'
<1>1. \A l \in Locks : \A t, u \in Tasks :
          <<l, t>> \in rows' /\ <<l, u>> \in rows' /\ t # u => {t, u} \cap Writes = {}
  BY DEF RWInv
<1>2. \A t \in Tasks : \A l \in Wants[t] :
          at'[t] = "held" /\ <<l, t>> \notin lapsed' => <<l, t>> \in rows'
  BY DEF RWInv
<1>3. \A r \in rows' : age'[r] > Timeout => r \in lapsed'
  <2> SUFFICES ASSUME NEW r \in rows', age'[r] > Timeout PROVE r \in lapsed
    OBVIOUS
  <2>1. r \in rows /\ r \in Locks \X Tasks /\ age[r] \in Nat /\ age'[r] \in Nat /\ Timeout \in Nat
    BY TimeoutAssumption DEF RWInv, TypeOK
  <2> QED BY <2>1 DEF RWInv
<1> QED BY <1>1, <1>2, <1>3 DEF RWInv

(* A task that enters, waits or leaves changes no row.                      *)
LEMMA MoveInv ==
    ASSUME RWInv, NEW t \in Tasks, Enter(t) \/ Refused(t) \/ Retry(t) \/ Exit(t)
    PROVE  RWInv'
<1>1. TypeOK'
  BY TaskAssumption DEF Enter, Refused, Retry, Exit, RWInv, TypeOK, Points
<1>2. rows' = rows /\ age' = age /\ lapsed' = lapsed
  BY DEF Enter, Refused, Retry, Exit
<1>3. \A u \in Tasks : at'[u] = "held" => at[u] = "held"
  BY DEF Enter, Refused, Retry, Exit, RWInv, TypeOK
<1>4. \A r \in rows' : age'[r] <= age[r]
  BY <1>2, TimeoutAssumption DEF RWInv, TypeOK
<1> QED BY <1>1, <1>2, <1>3, <1>4, ShrinkStep

(* When rows go, the ages of those that stay do not grow.                   *)
LEMMA AgesOfRows ==
    ASSUME RWInv, rows' \subseteq rows, age' = AgesOf(rows')
    PROVE  /\ age' \in [Locks \X Tasks -> 0 .. Timeout + 1]
           /\ \A r \in rows' : age'[r] <= age[r]
<1>1. \A r \in Locks \X Tasks : age[r] \in 0 .. Timeout + 1 /\ 0 \in 0 .. Timeout + 1
  BY TimeoutAssumption DEF RWInv, TypeOK
<1>2. \A r \in rows' : r \in Locks \X Tasks
  BY DEF RWInv, TypeOK
<1> QED BY <1>1, <1>2, TimeoutAssumption DEF AgesOf

(* A release removes rows of its own task.                                  *)
LEMMA ReleaseInv == ASSUME RWInv, NEW t \in Tasks, Release(t) PROVE RWInv'
<1>1. PICK l \in drops[t] :
        /\ rows' = rows \ {<<l, t>>}
        /\ drops' = [drops EXCEPT ![t] = @ \ {l}]
        /\ at' = [at EXCEPT ![t] = IF drops[t] = {l} THEN "done" ELSE @]
        /\ age' = AgesOf(rows') /\ UNCHANGED lapsed /\ at[t] = "release"
  BY DEF Release
<1>2. /\ age' \in [Locks \X Tasks -> 0 .. Timeout + 1]
      /\ \A r \in rows' : age'[r] <= age[r]
  BY <1>1, AgesOfRows
<1>4. TypeOK'
  BY <1>1, <1>2 DEF RWInv, TypeOK, Points
<1>3. \A u \in Tasks : at'[u] = "held" => at[u] = "held" /\ u # t
  BY <1>1 DEF RWInv, TypeOK
<1> QED BY <1>1, <1>2, <1>3, <1>4, ShrinkStep

(* Reaping removes rows that were not renewed in time.                      *)
LEMMA ReapInv == ASSUME RWInv, Reap PROVE RWInv'
<1>1. rows' \subseteq rows /\ \A r \in rows : r \in rows' \/ r \in lapsed
  <2> SUFFICES ASSUME NEW r \in rows, r \notin rows' PROVE r \in lapsed
    BY DEF Reap
  <2>1. r \in Locks \X Tasks /\ age[r] \in Nat /\ Timeout \in Nat
    BY TimeoutAssumption DEF RWInv, TypeOK
  <2>2. age[r] > Timeout
    BY <2>1 DEF Reap
  <2> QED BY <2>2 DEF RWInv
<1>3. /\ age' \in [Locks \X Tasks -> 0 .. Timeout + 1]
      /\ \A r \in rows' : age'[r] <= age[r]
  BY <1>1, AgesOfRows DEF Reap
<1>2. TypeOK'
  BY <1>1, <1>3 DEF Reap, RWInv, TypeOK
<1> QED BY <1>1, <1>2, <1>3, ShrinkStep DEF Reap

(* A shutdown gives up the rows of its holders, a crash leaves them.        *)
LEMMA StopInv == ASSUME RWInv, NEW p \in Procs, OnShutdown(p) \/ Crash(p) PROVE RWInv'
<1>2. rows' \subseteq rows /\ age' \in {age, AgesOf(rows')} /\ lapsed' = lapsed
  BY DEF OnShutdown, Crash
<1>5. /\ age' \in [Locks \X Tasks -> 0 .. Timeout + 1]
      /\ \A r \in rows' : age'[r] <= age[r]
  <2>1. CASE age' = age
    BY <1>2, <2>1, TimeoutAssumption DEF RWInv, TypeOK
  <2> QED BY <1>2, <2>1, AgesOfRows
<1>1. TypeOK'
  BY <1>5 DEF OnShutdown, Crash, RWInv, TypeOK, Points
<1>3. \A u \in Tasks : at'[u] = "held" => at[u] = "held"
  BY DEF OnShutdown, Crash, RWInv, TypeOK
<1>4. \A u \in Tasks : \A l \in Wants[u] : at'[u] = "held" /\ <<l, u>> \in rows => <<l, u>> \in rows'
  BY DEF OnShutdown, Crash, RWInv, TypeOK
<1> QED BY <1>1, <1>2, <1>3, <1>4, <1>5, ShrinkStep

(* A renewal makes rows younger.                                            *)
LEMMA RenewInv == ASSUME RWInv, NEW t \in Tasks, NEW l \in Wants[t], Renew(l, t) PROVE RWInv'
<1>1. <<l, t>> \in Locks \X Tasks /\ age' = [age EXCEPT ![<<l, t>>] = 0]
  BY TaskAssumption DEF Renew
<1>2. TypeOK'
  BY <1>1, TimeoutAssumption DEF Renew, RWInv, TypeOK
<1>3. \A r \in rows' : age'[r] <= age[r]
  BY <1>1, TimeoutAssumption DEF Renew, RWInv, TypeOK
<1> QED BY <1>2, <1>3, ShrinkStep DEF Renew

(* A tick makes rows older, and lapsed when they are too old.               *)
LEMMA TickInv == ASSUME RWInv, Tick PROVE RWInv'
<1>1. \A r \in rows : age[r] \in 0 .. Timeout + 1 /\ Timeout \in Nat
  BY TimeoutAssumption DEF RWInv, TypeOK
<1>2. TypeOK'
  BY TimeoutAssumption DEF Tick, RWInv, TypeOK
<1>3. \A r \in rows' : age'[r] > Timeout => r \in lapsed'
  BY <1>1, TimeoutAssumption DEF Tick, RWInv, TypeOK
<1>4. \A l \in Locks : \A t, u \in Tasks :
          <<l, t>> \in rows' /\ <<l, u>> \in rows' /\ t # u => {t, u} \cap Writes = {}
  BY DEF Tick, RWInv
<1>5. \A t \in Tasks : \A l \in Wants[t] :
          at'[t] = "held" /\ <<l, t>> \notin lapsed' => <<l, t>> \in rows'
  BY DEF Tick, RWInv
<1> QED BY <1>2, <1>3, <1>4, <1>5 DEF RWInv

(* A task acquires all its rows, where no constraint refuses one.           *)
LEMMA AcquireInv == ASSUME RWInv, NEW t \in Tasks, Acquire(t) PROVE RWInv'
<1>1. Wants[t] \subseteq Locks
  BY TaskAssumption
<1>2. TypeOK'
  BY <1>1, TimeoutAssumption DEF Acquire, RWInv, TypeOK, Points
<1>3. \A l \in Locks : \A a, b \in Tasks :
          <<l, a>> \in rows' /\ <<l, b>> \in rows' /\ a # b => {a, b} \cap Writes = {}
  <2> SUFFICES ASSUME NEW l \in Locks, NEW a \in Tasks, NEW b \in Tasks,
                      <<l, a>> \in rows', <<l, b>> \in rows', a # b
               PROVE  {a, b} \cap Writes = {}
    OBVIOUS
  <2>1. \A u \in Tasks : <<l, u>> \in rows' => <<l, u>> \in rows \/ (u = t /\ l \in Wants[t])
    BY DEF Acquire
  <2>2. l \in Wants[t] => \A u \in Tasks : <<l, u>> \in rows => {t, u} \cap Writes = {}
    BY DEF Acquire, Conflict
  <2>3. CASE <<l, a>> \in rows /\ <<l, b>> \in rows
    BY <2>3 DEF RWInv
  <2>4. CASE <<l, a>> \notin rows
    BY <2>1, <2>2, <2>4
  <2>5. CASE <<l, b>> \notin rows
    BY <2>1, <2>2, <2>5
  <2> QED BY <2>3, <2>4, <2>5
<1>4. \A u \in Tasks : \A l \in Wants[u] :
          at'[u] = "held" /\ <<l, u>> \notin lapsed' => <<l, u>> \in rows'
  BY DEF Acquire, RWInv, TypeOK
<1>5. \A r \in rows' : age'[r] > Timeout => r \in lapsed'
  <2> SUFFICES ASSUME NEW r \in rows', age'[r] > Timeout PROVE r \in lapsed
    BY DEF Acquire
  <2>1. r \in Locks \X Tasks /\ age'[r] = IF r \in Wants[t] \X {t} THEN 0 ELSE age[r]
    BY <1>1 DEF Acquire, RWInv, TypeOK
  <2>2. age'[r] # 0
    BY TimeoutAssumption
  <2>3. r \in rows /\ age'[r] = age[r]
    BY <2>1, <2>2 DEF Acquire
  <2> QED BY <2>3 DEF RWInv
<1> QED BY <1>2, <1>3, <1>4, <1>5 DEF RWInv

(* Every step keeps RWInv.                                                  *)
LEMMA NextInv == RWInv /\ [Next]_vars => RWInv'
<1> SUFFICES ASSUME RWInv, [Next]_vars PROVE RWInv'
  OBVIOUS
<1>1. CASE UNCHANGED vars
  BY <1>1 DEF vars, RWInv, TypeOK
<1>2. ASSUME NEW t \in Tasks, Enter(t) \/ Step(t) PROVE RWInv'
  BY <1>2, MoveInv, AcquireInv, ReleaseInv DEF Step
<1>3. ASSUME NEW t \in Tasks, NEW l \in Wants[t], Renew(l, t) PROVE RWInv'
  BY <1>3, RenewInv
<1>4. ASSUME NEW p \in Procs, OnShutdown(p) \/ Crash(p) PROVE RWInv'
  BY <1>4, StopInv
<1> QED BY <1>1, <1>2, <1>3, <1>4, ReapInv, TickInv DEF Next

(* The rows obey the constraints of the tables, and a holder that renews in *)
(* time keeps its rows, whatever is reaped, released or lost.               *)
THEOREM RowsAreKept == Spec => []RWInv
BY InitInv, NextInv, PTL DEF Spec

(* Of the holders of a read/write lock that renew it in time, a writer is   *)
(* alone.                                                                   *)
THEOREM ReadXorWrite == Spec => []WritersAreAlone
<1>1. RWInv => WritersAreAlone
  BY DEF RWInv, WritersAreAlone, Held
<1> QED BY <1>1, RowsAreKept, PTL

=============================================================================
