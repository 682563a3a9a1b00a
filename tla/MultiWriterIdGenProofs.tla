----------------------- MODULE MultiWriterIdGenProofs -----------------------
(***************************************************************************)
(* TLAPS proofs about MultiWriterIdGen: IInv is an inductive invariant of  *)
(* Spec, for any sets of writers, readers and tasks and any bounds, and it *)
(* gives the stability of the positions that processes hand out.           *)
(***************************************************************************)
EXTENDS MultiWriterIdGen, ExtremaTheorems, TLAPS

-----------------------------------------------------------------------------
(* What RunEnd and MinCurr return.                                          *)

(* RunEnd ends the run of known positions that begins after p.              *)
LEMMA RunEndIsRun ==
  ASSUME NEW p \in Nat, NEW K, K \subseteq Nat, NEW b \in Nat, \A k \in K : k <= b
  PROVE  /\ RunEnd(p, K) \in Nat
         /\ RunEnd(p, K) \in {p} \cup K
         /\ RunEnd(p, K) >= p
         /\ (p + 1) .. RunEnd(p, K) \subseteq K
<1> DEFINE T == {q \in Nat : q >= p /\ q + 1 \notin K}
<1>1. T \subseteq Nat /\ T # {}
  <2>1. (p + b) \in T
    OBVIOUS
  <2> QED BY <2>1
<1>2. PICK q \in T : \A y \in T : q <= y
  <2> HIDE DEF T
  <2> QED BY <1>1, LeastNat
<1>3. ASSUME NEW r \in (p + 1) .. q PROVE r \in K
  <2>1. r - 1 \in Nat /\ r - 1 >= p /\ r - 1 < q
    BY <1>3, <1>2
  <2>2. r - 1 \notin T
    BY <2>1, <1>2
  <2> QED BY <2>1, <2>2
<1>4. q \in {p} \cup K
  <2>1. CASE q = p
    BY <2>1
  <2>2. CASE q # p
    BY <2>2, <1>2, <1>3
  <2> QED BY <2>1, <2>2
<1>5. \E x \in {p} \cup K : x >= p /\ (p + 1) .. x \subseteq K /\ x + 1 \notin K
  BY <1>2, <1>3, <1>4
<1> QED BY <1>5 DEF RunEnd

(* MinCurr is one of the positions, at most that of every other writer and, *)
(* for a writer with a write in progress, at most its own.                  *)
LEMMA MinCurrBound ==
  ASSUME NEW n \in Nodes, NEW cur \in [Writers -> Nat], NEW busy \in BOOLEAN
  PROVE  /\ MinCurr(n, cur, busy) \in Nat
         /\ \E w \in Writers : MinCurr(n, cur, busy) = cur[w]
         /\ \A w \in Writers \ {n} : MinCurr(n, cur, busy) <= cur[w]
         /\ n \in Writers /\ busy => MinCurr(n, cur, busy) <= cur[n]
<1> DEFINE others == {cur[w] : w \in Writers \ {n}}
           least  == IF others = {} THEN cur[n] ELSE Min(others)
<1>1. others \subseteq Nat
  OBVIOUS
<1>2. others # {} => Min(others) \in others /\ \A y \in others : Min(others) <= y
  <2> HIDE DEF others
  <2> QED BY <1>1, MinIsLeast
<1>3. others = {} => n \in Writers
  BY NodesAssumption DEF Nodes
<1>4. /\ least \in Nat
      /\ \E w \in Writers : least = cur[w]
      /\ \A w \in Writers \ {n} : least <= cur[w]
  <2>1. CASE others = {}
    BY <2>1, <1>3
  <2>2. CASE others # {}
    BY <2>2, <1>1, <1>2
  <2> QED BY <2>1, <2>2
<1>5. MinCurr(n, cur, busy) = IF n \in Writers /\ busy THEN Min({least, cur[n]}) ELSE least
  BY DEF MinCurr
<1> HIDE DEF least, others
<1>6. CASE n \in Writers /\ busy
  <2>1. {least, cur[n]} \subseteq Nat /\ {least, cur[n]} # {}
    BY <1>4, <1>6
  <2>2. /\ Min({least, cur[n]}) \in {least, cur[n]}
        /\ \A y \in {least, cur[n]} : Min({least, cur[n]}) <= y
    BY <2>1, MinIsLeast
  <2>3. Min({least, cur[n]}) <= least /\ Min({least, cur[n]}) <= cur[n]
    BY <2>2
  <2>4. Min({least, cur[n]}) = least \/ Min({least, cur[n]}) = cur[n]
    BY <2>2
  <2>5. MinCurr(n, cur, busy) = Min({least, cur[n]})
    BY <1>5, <1>6
  <2> QED BY <2>3, <2>4, <2>5, <1>4, <1>6
<1>7. CASE ~ (n \in Writers /\ busy)
  BY <1>4, <1>5, <1>7
<1> QED BY <1>6, <1>7

(* The positions of generator g and the IDs are naturals up to b.           *)
WithinBound(g, ids, b) ==
    /\ \A i \in ids \cup g.known : i <= b
    /\ g.upto <= b /\ g.maxSeen <= b /\ g.maxLocal <= b
    /\ \A w \in Writers : g.cur[w] <= b

(* What _add_persisted_position makes of g: h keeps its claims, and moves   *)
(* past no ID above the least current position that it is not told about.   *)
Extended(n, g, busy, ids, b, h) ==
    /\ h.cur = g.cur /\ h.finished = g.finished /\ h.maxSeen = g.maxSeen
    /\ h.known \subseteq g.known \cup ids
    /\ h.upto <= b /\ h.maxLocal <= b
    /\ h.upto >= g.upto /\ h.maxLocal >= g.maxLocal
    /\ \A i \in Nat :
          MinCurr(n, g.cur, busy) < i /\ g.upto < i /\ i \notin g.known \cup ids =>
             /\ h.upto < i
             /\ h.maxLocal = g.maxLocal \/ h.maxLocal < i \/ (~ busy /\ h.maxLocal = g.maxSeen)

(* What h tells is not behind what g told.                                  *)
NotBehind(g, h) ==
    /\ h.upto >= g.upto /\ h.maxLocal >= g.maxLocal
    /\ \A w \in Writers : h.cur[w] >= g.cur[w]

(* _add_persisted_position only moves the persisted position, the known     *)
(* positions and the local maximum; it never moves the persisted position   *)
(* to an ID above the least current position that it is not told about.     *)
LEMMA AddPersistedStep ==
  ASSUME TypeOK, NEW n \in Nodes, NEW g \in GenState, NEW busy \in BOOLEAN,
         NEW ids, ids \subseteq Nat, ids # {}, NEW b \in Nat,
         WithinBound(g, ids, b),
         AddPersistedPosition(n, g, busy, ids)
  PROVE  \E h \in GenState : gen' = [gen EXCEPT ![n] = h] /\ Extended(n, g, busy, ids, b, h)
<1> DEFINE low == Max({MinCurr(n, g.cur, busy), g.upto})
           earlier == ids \ {Max(ids)}
           before == IF earlier = {} THEN low ELSE RunEnd(low, g.known \cup earlier)
           after == RunEnd(before, g.known \cup ids)
           top == {g.maxLocal, before} \cup (IF busy THEN {} ELSE {g.maxSeen})
           h == [g EXCEPT !.upto = after,
                          !.known = {i \in g.known \cup ids : i > after},
                          !.maxLocal = Max(top)]
<1>0. /\ \A i \in ids \cup g.known : i <= b
      /\ g.upto <= b /\ g.maxSeen <= b /\ g.maxLocal <= b /\ \A w \in Writers : g.cur[w] <= b
  BY DEF WithinBound
<1>1. gen' = [gen EXCEPT ![n] = h]
  <2>1. PICK l \in {low}, e \in {earlier} :
           \E f \in {IF e = {} THEN l ELSE RunEnd(l, g.known \cup e)} :
           \E a \in {RunEnd(f, g.known \cup ids)} :
              gen' = [gen EXCEPT ![n] =
                        [g EXCEPT !.upto = a,
                                  !.known = {i \in g.known \cup ids : i > a},
                                  !.maxLocal = Max({g.maxLocal, f} \cup
                                                   (IF busy THEN {} ELSE {g.maxSeen}))]]
    <3> HIDE DEF h, top, after, before
    <3> QED BY DEF AddPersistedPosition
  <2>2. l = low /\ e = earlier
    OBVIOUS
  <2>3. PICK f \in {before} :
           \E a \in {RunEnd(f, g.known \cup ids)} :
              gen' = [gen EXCEPT ![n] =
                        [g EXCEPT !.upto = a,
                                  !.known = {i \in g.known \cup ids : i > a},
                                  !.maxLocal = Max({g.maxLocal, f} \cup
                                                   (IF busy THEN {} ELSE {g.maxSeen}))]]
    <3> HIDE DEF low, earlier
    <3> QED BY <2>1, <2>2
  <2>4. f = before
    OBVIOUS
  <2> HIDE DEF before
  <2> QED BY <2>3, <2>4
<1>2. g.cur \in [Writers -> Nat] /\ g.upto \in Nat /\ g.known \subseteq Nat
      /\ g.maxSeen \in Nat /\ g.maxLocal \in Nat /\ g.finished \subseteq Nat
  BY DEF GenState
<1>3. /\ MinCurr(n, g.cur, busy) \in Nat
      /\ MinCurr(n, g.cur, busy) <= b
  BY <1>0, <1>2, MinCurrBound
<1>4. /\ low \in Nat /\ low <= b /\ low >= g.upto
      /\ \A i \in Nat : MinCurr(n, g.cur, busy) < i /\ g.upto < i => low < i
  BY <1>0, <1>2, <1>3, MaxOfTwo
<1>5. /\ before \in Nat /\ before <= b /\ before >= low
      /\ (low + 1) .. before \subseteq g.known \cup ids
  <2>1. CASE earlier = {}
    BY <2>1, <1>4
  <2>2. CASE earlier # {}
    <3> DEFINE K == g.known \cup earlier
    <3>1. K \subseteq Nat /\ \A k \in K : k <= b
      BY <1>0, <1>2
    <3>2. before = RunEnd(low, K)
      BY <2>2
    <3> HIDE DEF K, before, low
    <3>3. before \in Nat /\ before \in {low} \cup K /\ before >= low
          /\ (low + 1) .. before \subseteq K
      BY <3>1, <3>2, <1>4, RunEndIsRun
    <3>4. K \subseteq g.known \cup ids
      BY DEF K
    <3> QED BY <3>1, <3>3, <3>4, <1>4
  <2> QED BY <2>1, <2>2
<1>6. /\ after \in Nat /\ after <= b /\ after >= before
      /\ (before + 1) .. after \subseteq g.known \cup ids
  <2> DEFINE K == g.known \cup ids
  <2>1. K \subseteq Nat /\ \A k \in K : k <= b
    BY <1>0, <1>2
  <2> HIDE DEF K, before
  <2>2. RunEnd(before, K) \in Nat /\ RunEnd(before, K) \in {before} \cup K
        /\ RunEnd(before, K) >= before /\ (before + 1) .. RunEnd(before, K) \subseteq K
    BY <2>1, <1>5, RunEndIsRun
  <2>3. after = RunEnd(before, K)
    BY DEF K
  <2> HIDE DEF after
  <2> QED BY <2>1, <2>2, <2>3, <1>5 DEF K
<1> HIDE DEF after, before, low, earlier
<1>7. Max(top) \in top /\ \A y \in top : y <= Max(top)
  <2>1. top \subseteq Nat /\ top # {} /\ \A y \in top : y <= b
    BY <1>0, <1>2, <1>5
  <2> HIDE DEF top
  <2> QED BY <2>1, MaxIsGreatest
<1>8. /\ Max(top) \in Nat /\ Max(top) <= b /\ Max(top) >= g.maxLocal
      /\ Max(top) = g.maxLocal \/ Max(top) = before \/ (~ busy /\ Max(top) = g.maxSeen)
  BY <1>0, <1>2, <1>5, <1>7
<1> HIDE DEF top
<1>9. h \in GenState
  BY <1>2, <1>6, <1>8 DEF GenState
<1>10. /\ h.cur = g.cur /\ h.finished = g.finished /\ h.maxSeen = g.maxSeen
       /\ h.upto = after /\ h.maxLocal = Max(top)
       /\ h.known = {i \in g.known \cup ids : i > after}
  BY DEF GenState
<1> HIDE DEF h
<1>11. ASSUME NEW i \in Nat, MinCurr(n, g.cur, busy) < i, g.upto < i, i \notin g.known \cup ids
       PROVE  before < i /\ after < i
  <2>1. low < i
    BY <1>4, <1>11
  <2>2. before < i
    BY <2>1, <1>4, <1>5, <1>11
  <2> QED BY <2>2, <1>5, <1>6, <1>11
<1> QED
  <2>1. h.known \subseteq g.known \cup ids
    BY <1>10
  <2>2. h.upto <= b /\ h.maxLocal <= b /\ h.upto >= g.upto /\ h.maxLocal >= g.maxLocal
    BY <1>2, <1>4, <1>5, <1>6, <1>8, <1>10
  <2>3. \A i \in Nat :
           MinCurr(n, g.cur, busy) < i /\ g.upto < i /\ i \notin g.known \cup ids =>
              /\ h.upto < i
              /\ h.maxLocal = g.maxLocal \/ h.maxLocal < i \/ (~ busy /\ h.maxLocal = g.maxSeen)
    BY <1>8, <1>10, <1>11
  <2>4. Extended(n, g, busy, ids, b, h)
    BY <1>10, <2>1, <2>2, <2>3 DEF Extended
  <2> QED BY <1>1, <1>9, <2>4

-----------------------------------------------------------------------------
(* The initial state, and one lemma for each action.                        *)

(* The invariant holds initially.                                           *)
LEMMA InitClaimInv == Init => ClaimInv
<1> SUFFICES ASSUME Init PROVE ClaimInv
  OBVIOUS
<1> USE DEF Init, Nodes
<1>1. TypeOK
  BY DEF TypeOK, GenState, TaskState, Phases, Idle
<1>2. TaskInv
  BY DEF TaskInv, SoundTask, Idle
<1>3. BoundInv
  BY DEF BoundInv, Idle
<1>4. \A v \in Writers : Pending(v) = {}
  BY DEF Pending, Idle
<1> QED BY <1>1, <1>2, <1>3, <1>4 DEF ClaimInv

(* What a step that changes only one task does to the tasks.                *)
LEMMA TaskStep ==
  ASSUME TypeOK, TaskInv, NEW w \in Writers, NEW t \in Tasks,
         task'[w][t] \in TaskState, task' = [task EXCEPT ![w][t] = task'[w][t]],
         seq' \in Nat, seq <= seq', SoundTask(task'[w][t], seq'),
         \A v \in Writers, u \in Tasks :
            <<v, u>> # <<w, t>> => task[v][u].ids \cap task'[w][t].ids = {}
  PROVE  /\ task' \in [Writers -> [Tasks -> TaskState]]
         /\ TaskInv'
         /\ \A v \in Writers, u \in Tasks : v # w \/ u # t => task'[v][u] = task[v][u]
<1>1. PICK k \in TaskState : k = task'[w][t]
  OBVIOUS
<1>2. task' = [task EXCEPT ![w][t] = k] /\ SoundTask(k, seq')
  BY <1>1
<1>3. task' \in [Writers -> [Tasks -> TaskState]]
  BY <1>2 DEF TypeOK
<1>4. \A v \in Writers, u \in Tasks : task'[v][u] = IF v = w /\ u = t THEN k ELSE task[v][u]
  BY <1>2 DEF TypeOK
<1>5. ASSUME NEW v \in Writers, NEW u \in Tasks PROVE SoundTask(task[v][u], seq')
  <2>1. SoundTask(task[v][u], seq) /\ task[v][u] \in TaskState /\ seq \in Nat
    BY DEF TaskInv, TypeOK
  <2> QED BY <2>1 DEF SoundTask, TaskState
<1>6. \A v \in Writers, u \in Tasks : SoundTask(task'[v][u], seq')
  BY <1>2, <1>4, <1>5
<1>7. \A x, v \in Writers : \A y, u \in Tasks :
         <<v, u>> # <<x, y>> => task'[v][u].ids \cap task'[x][y].ids = {}
  BY <1>1, <1>4 DEF TaskInv
<1> QED BY <1>3, <1>4, <1>6, <1>7 DEF TaskInv

(* The pending IDs are sound, and every writer with one is busy.            *)
LEMMA PendingFacts ==
  ASSUME TypeOK, TaskInv, NEW v \in Writers, NEW i \in Pending(v)
  PROVE  i \in Nat /\ 1 < i /\ i <= seq /\ Busy(v)
<1>1. PICK t \in Tasks :
         task[v][t].st \in {"fetching", "registered", "held"} /\ i \in task[v][t].ids
  BY DEF Pending
<1>2. task[v][t] \in TaskState /\ SoundTask(task[v][t], seq)
  BY DEF TypeOK, TaskInv
<1>3. i \in Nat /\ 1 < i /\ i <= seq
  BY <1>1, <1>2 DEF SoundTask, TaskState
<1>4. CASE task[v][t].st = "fetching"
  BY <1>3, <1>4 DEF Busy, InFlight
<1>5. CASE task[v][t].st \in {"registered", "held"}
  BY <1>1, <1>3, <1>5 DEF Busy, Unfinished
<1> QED BY <1>1, <1>3, <1>4, <1>5

(* A task that is not running a write.                                      *)
LEMMA IdleTask ==
  /\ Idle \in TaskState
  /\ Idle.st = "idle" /\ Idle.ids = {} /\ Idle.need = 0 /\ Idle.pos = 0 /\ Idle.snap = 0
BY DEF Idle, TaskState, Phases

(* A step of one task that draws no ID: it adds no pending ID, and it       *)
(* preserves the invariant when it writes neither rows nor positions.       *)
LEMMA QuietTaskStep ==
  ASSUME ClaimInv, NEW w \in Writers, NEW t \in Tasks,
         task'[w][t] \in TaskState, task' = [task EXCEPT ![w][t] = task'[w][t]],
         SoundTask(task'[w][t], seq),
         task'[w][t].ids \subseteq task[w][t].ids,
         task'[w][t].st \in {"fetching", "registered", "held"} /\ task'[w][t].ids # {}
            => task[w][t].st \in {"fetching", "registered", "held"},
         task'[w][t].pos \in {0, task[w][t].pos, gen[w].maxLocal},
         seq' = seq
  PROVE  /\ task' \in [Writers -> [Tasks -> TaskState]] /\ TaskInv'
         /\ \A v \in Writers : Pending(v)' \subseteq Pending(v)
         /\ \A v \in Writers : \A i \in Pending(v)' : \A u \in Tasks : task'[v][u].pos < i
         /\ UNCHANGED <<gen, rows, positions, sent, up, crashes>> => ClaimInv'
<1>1. TypeOK /\ TaskInv /\ BoundInv
  BY DEF ClaimInv
<1>2. seq' \in Nat /\ seq <= seq' /\ SoundTask(task'[w][t], seq')
  BY <1>1 DEF TypeOK
<1>3. \A v \in Writers, u \in Tasks :
         <<v, u>> # <<w, t>> => task[v][u].ids \cap task'[w][t].ids = {}
  BY <1>1 DEF TaskInv
<1>4. /\ task' \in [Writers -> [Tasks -> TaskState]] /\ TaskInv'
      /\ \A v \in Writers, u \in Tasks : v # w \/ u # t => task'[v][u] = task[v][u]
  BY <1>1, <1>2, <1>3, TaskStep
<1>5. \A v \in Writers : Pending(v)' \subseteq Pending(v)
  <2> SUFFICES ASSUME NEW v \in Writers, NEW i \in Pending(v)' PROVE i \in Pending(v)
    OBVIOUS
  <2>1. PICK u \in Tasks :
           task'[v][u].st \in {"fetching", "registered", "held"} /\ i \in task'[v][u].ids
    BY DEF Pending
  <2>2. task[v][u].st \in {"fetching", "registered", "held"} /\ i \in task[v][u].ids
    BY <2>1, <1>4
  <2> QED BY <2>2 DEF Pending
<1>6. \A v \in Writers : \A i \in Pending(v)' : Unclaimed(v, i) /\ i \in Nat /\ 1 < i
  BY <1>1, <1>5, PendingFacts DEF ClaimInv
<1>7. \A v \in Writers : \A i \in Pending(v)' : \A u \in Tasks : task'[v][u].pos < i
  BY <1>4, <1>6 DEF Unclaimed
<1>8. ASSUME UNCHANGED <<gen, rows, positions, sent, up, crashes>> PROVE ClaimInv'
  <2>1. TypeOK' /\ BoundInv'
    BY <1>1, <1>2, <1>4, <1>8 DEF TypeOK, BoundInv
  <2>2. \A v \in Writers : \A i \in Pending(v)' : Unclaimed(v, i)'
    BY <1>6, <1>7, <1>8 DEF Unclaimed
  <2> QED BY <2>1, <2>2, <1>4 DEF ClaimInv
<1> QED BY <1>4, <1>5, <1>7, <1>8

(* A new fetch holds no ID yet.                                             *)
LEMMA FetchStartClaimInv ==
  ASSUME ClaimInv, NEW w \in Writers, NEW t \in Tasks, FetchStart(w, t)
  PROVE  ClaimInv'
<1>1. TypeOK /\ TaskInv /\ BoundInv
  BY DEF ClaimInv
<1>2. PICK n \in 1 .. MaxBatch :
        task' = [task EXCEPT ![w][t] =
                   [Idle EXCEPT !.st = "fetching", !.need = n, !.snap = gen[w].maxSeen]]
  BY DEF FetchStart
<1>3. UNCHANGED <<seq, rows, positions, gen, sent, up, crashes>>
  BY DEF FetchStart
<1>4. n \in Nat /\ n > 0 /\ gen[w].maxSeen \in Nat /\ gen[w].maxSeen <= seq /\ seq \in Nat
  BY <1>1, BoundsAssumption DEF TypeOK, GenState, BoundInv, Nodes
<1>5. /\ task'[w][t] = [Idle EXCEPT !.st = "fetching", !.need = n, !.snap = gen[w].maxSeen]
      /\ task' = [task EXCEPT ![w][t] = task'[w][t]]
  BY <1>1, <1>2 DEF TypeOK
<1>6. /\ task'[w][t] \in TaskState
      /\ task'[w][t].st = "fetching" /\ task'[w][t].need = n /\ task'[w][t].snap = gen[w].maxSeen
      /\ task'[w][t].ids = {} /\ task'[w][t].pos = 0
  BY <1>4, <1>5, IdleTask DEF TaskState, Phases
<1>7. SoundTask(task'[w][t], seq)
  BY <1>4, <1>6 DEF SoundTask
<1>8. task' = [task EXCEPT ![w][t] = task'[w][t]]
  BY <1>5
<1> QED BY <1>3, <1>6, <1>7, <1>8, QuietTaskStep

(* A failed fetch gives up its IDs.                                         *)
LEMMA FetchFailClaimInv ==
  ASSUME ClaimInv, NEW w \in Writers, NEW t \in Tasks, FetchFail(w, t)
  PROVE  ClaimInv'
<1>1. TypeOK /\ TaskInv
  BY DEF ClaimInv
<1>2. task'[w][t] = Idle /\ task' = [task EXCEPT ![w][t] = task'[w][t]]
  BY <1>1 DEF FetchFail, TypeOK
<1>3. UNCHANGED <<seq, rows, positions, gen, sent, up, crashes>>
  BY DEF FetchFail
<1>4. SoundTask(task'[w][t], seq)
  BY <1>1, <1>2, IdleTask DEF SoundTask, TypeOK
<1> QED BY <1>2, <1>3, <1>4, IdleTask, QuietTaskStep

(* The IDs stay pending when the fetch ends.                                *)
LEMMA FetchEndClaimInv ==
  ASSUME ClaimInv, NEW w \in Writers, NEW t \in Tasks, FetchEnd(w, t)
  PROVE  ClaimInv'
<1>1. TypeOK /\ TaskInv
  BY DEF ClaimInv
<1>2. task[w][t] \in TaskState /\ SoundTask(task[w][t], seq) /\ seq \in Nat
  BY <1>1 DEF TypeOK, TaskInv
<1>3. /\ UNCHANGED <<seq, rows, positions, gen, sent, up, crashes>>
      /\ task[w][t].st = "registered"
  BY DEF FetchEnd
<1>4. /\ task'[w][t] = [task[w][t] EXCEPT !.st = "held", !.snap = 0]
      /\ task' = [task EXCEPT ![w][t] = task'[w][t]]
  BY <1>1, <1>2 DEF FetchEnd, TypeOK, TaskState
<1>5. /\ task'[w][t] \in TaskState /\ task'[w][t].st = "held"
      /\ task'[w][t].ids = task[w][t].ids /\ task'[w][t].need = task[w][t].need
      /\ task'[w][t].pos = task[w][t].pos
  <2>1. task'[w][t] = [task[w][t] EXCEPT !.st = "held", !.snap = 0]
    BY <1>4
  <2>2. "held" \in Phases /\ 0 \in Nat
    BY DEF Phases
  <2>3. task'[w][t] \in TaskState
    BY <2>1, <2>2, <1>2 DEF TaskState
  <2> QED BY <2>1, <2>3, <1>2 DEF TaskState
<1>6. SoundTask(task'[w][t], seq)
  BY <1>2, <1>3, <1>5 DEF SoundTask
<1>7. task' = [task EXCEPT ![w][t] = task'[w][t]]
  BY <1>4
<1> QED BY <1>3, <1>5, <1>6, <1>7, QuietTaskStep

(* A rolled back write no longer holds pending IDs.                         *)
LEMMA RollbackClaimInv ==
  ASSUME ClaimInv, NEW w \in Writers, NEW t \in Tasks, Rollback(w, t)
  PROVE  ClaimInv'
<1>1. TypeOK /\ TaskInv
  BY DEF ClaimInv
<1>2. task[w][t] \in TaskState /\ SoundTask(task[w][t], seq) /\ seq \in Nat
  BY <1>1 DEF TypeOK, TaskInv
<1>3. /\ UNCHANGED <<seq, rows, positions, gen, sent, up, crashes>>
      /\ task[w][t].st = "held"
  BY DEF Rollback
<1>4. /\ task'[w][t] = [task[w][t] EXCEPT !.st = "done"]
      /\ task' = [task EXCEPT ![w][t] = task'[w][t]]
  BY <1>1, <1>2 DEF Rollback, TypeOK, TaskState
<1>5. /\ task'[w][t] \in TaskState /\ task'[w][t].st = "done"
      /\ task'[w][t].ids = task[w][t].ids /\ task'[w][t].need = task[w][t].need
      /\ task'[w][t].pos = task[w][t].pos
  BY <1>2, <1>4 DEF TaskState, Phases
<1>6. SoundTask(task'[w][t], seq)
  BY <1>2, <1>3, <1>5 DEF SoundTask
<1>7. task' = [task EXCEPT ![w][t] = task'[w][t]]
  BY <1>4
<1> QED BY <1>3, <1>5, <1>6, <1>7, QuietTaskStep

(* The position that is read is below every pending ID of its writer.       *)
LEMMA ReadPositionClaimInv ==
  ASSUME ClaimInv, NEW w \in Writers, NEW t \in Tasks, ReadPosition(w, t)
  PROVE  ClaimInv'
<1>1. TypeOK /\ TaskInv /\ BoundInv
  BY DEF ClaimInv
<1>2. task[w][t] \in TaskState /\ SoundTask(task[w][t], seq) /\ seq \in Nat
      /\ gen[w].maxLocal \in Nat /\ gen[w].maxLocal <= seq
  BY <1>1 DEF TypeOK, TaskInv, BoundInv, GenState, Nodes
<1>3. /\ UNCHANGED <<seq, rows, positions, gen, sent, up, crashes>>
      /\ task[w][t].st = "update"
  BY DEF ReadPosition
<1>4. /\ task'[w][t] = [task[w][t] EXCEPT !.st = "upsert", !.pos = gen[w].maxLocal]
      /\ task' = [task EXCEPT ![w][t] = task'[w][t]]
  BY <1>1, <1>2 DEF ReadPosition, CurrentToken, TypeOK, TaskState
<1>5. /\ task'[w][t] \in TaskState /\ task'[w][t].st = "upsert"
      /\ task'[w][t].ids = task[w][t].ids /\ task'[w][t].need = task[w][t].need
      /\ task'[w][t].pos = gen[w].maxLocal
  BY <1>2, <1>4 DEF TaskState, Phases
<1>6. SoundTask(task'[w][t], seq)
  BY <1>2, <1>3, <1>5 DEF SoundTask
<1>7. task' = [task EXCEPT ![w][t] = task'[w][t]]
  BY <1>4
<1> QED BY <1>3, <1>5, <1>6, <1>7, QuietTaskStep

(* A new ID is above every position that anyone has claimed.                *)
LEMMA NextValClaimInv ==
  ASSUME ClaimInv, NEW w \in Writers, NEW t \in Tasks, NextVal(w, t)
  PROVE  ClaimInv'
<1> USE DEF Nodes
<1>1. TypeOK /\ TaskInv /\ BoundInv
  BY DEF ClaimInv
<1>2. seq \in Nat /\ 1 <= seq /\ task[w][t] \in TaskState /\ SoundTask(task[w][t], seq)
  BY <1>1 DEF TypeOK, BoundInv, TaskInv
<1>3. /\ task[w][t].st = "fetching" /\ task[w][t].need > 0
      /\ seq' = seq + 1
      /\ UNCHANGED <<rows, positions, gen, sent, up, crashes>>
      /\ task' = [task EXCEPT ![w][t].ids = @ \cup {seq + 1}, ![w][t].need = @ - 1]
  BY DEF NextVal
<1>4. /\ task' = [task EXCEPT ![w][t] = task'[w][t]]
      /\ task'[w][t].ids = task[w][t].ids \cup {seq + 1}
      /\ task'[w][t].need = task[w][t].need - 1
      /\ task'[w][t].st = "fetching" /\ task'[w][t].snap = task[w][t].snap
      /\ task'[w][t].pos = task[w][t].pos
  BY <1>1, <1>2, <1>3 DEF TypeOK, TaskState
<1>5. task'[w][t] \in TaskState
  <2> DEFINE ids == task[w][t].ids \cup {seq + 1}
             need == task[w][t].need - 1
  <2>1. task'[w][t] = [task[w][t] EXCEPT !.ids = ids, !.need = need]
    BY <1>1, <1>2, <1>3 DEF TypeOK, TaskState
  <2>2. ids \subseteq Nat /\ need \in Nat
    BY <1>2, <1>3 DEF TaskState
  <2> HIDE DEF ids, need
  <2> QED BY <2>1, <2>2, <1>2 DEF TaskState
<1>6. SoundTask(task'[w][t], seq')
  <2>1. /\ \A i \in task[w][t].ids : i \in Nat /\ 1 < i /\ i <= seq /\ task[w][t].snap < i
        /\ task[w][t].snap <= seq /\ task[w][t].pos <= seq
        /\ task[w][t].snap \in Nat /\ task[w][t].pos \in Nat
    BY <1>2, <1>3 DEF SoundTask, TaskState
  <2>2. seq' = seq + 1
    BY <1>3
  <2> QED BY <2>1, <2>2, <1>2, <1>4 DEF SoundTask
<1>7. \A v \in Writers, u \in Tasks :
         <<v, u>> # <<w, t>> => task[v][u].ids \cap task'[w][t].ids = {}
  <2>1. \A v \in Writers, u \in Tasks : seq + 1 \notin task[v][u].ids
    BY <1>1, <1>2 DEF TaskInv, SoundTask
  <2> QED BY <2>1, <1>1, <1>4 DEF TaskInv
<1>8. /\ task' \in [Writers -> [Tasks -> TaskState]] /\ TaskInv'
      /\ \A v \in Writers, u \in Tasks : v # w \/ u # t => task'[v][u] = task[v][u]
  <2>1. seq' \in Nat /\ seq <= seq'
    BY <1>2, <1>3
  <2> QED BY <2>1, <1>1, <1>4, <1>5, <1>6, <1>7, TaskStep
<1>9. TypeOK' /\ BoundInv'
  BY <1>1, <1>2, <1>3, <1>8 DEF TypeOK, BoundInv, GenState
<1>10. ASSUME NEW v \in Writers, NEW i \in Pending(v)' PROVE Unclaimed(v, i)'
  <2>1. CASE i \in Pending(v)
    <3>1. Unclaimed(v, i)
      BY <2>1 DEF ClaimInv
    <3>2. \A u \in Tasks : task'[v][u].pos = task[v][u].pos
      BY <1>4, <1>8
    <3> QED BY <3>1, <3>2, <1>3 DEF Unclaimed
  <2>2. CASE i \notin Pending(v)
    <3>1. i = seq + 1
      <4>1. PICK u \in Tasks :
               task'[v][u].st \in {"fetching", "registered", "held"} /\ i \in task'[v][u].ids
        BY <1>10 DEF Pending
      <4>2. \A x \in Tasks : task[v][x].st \in {"fetching", "registered", "held"}
                               => i \notin task[v][x].ids
        BY <2>2 DEF Pending
      <4>3. v = w /\ u = t
        BY <4>1, <4>2, <1>8
      <4>4. i \notin task[w][t].ids
        BY <4>2, <4>3, <1>3
      <4> QED BY <4>1, <4>3, <4>4, <1>4
    <3>2. ASSUME NEW u \in Tasks
          PROVE  task'[v][u].pos <= seq /\ task'[v][u].pos \in Nat
      <4>1. task[v][u] \in TaskState /\ SoundTask(task[v][u], seq)
        BY <1>1 DEF TypeOK, TaskInv
      <4>2. task[v][u].pos <= seq /\ task[v][u].pos \in Nat
        BY <4>1 DEF SoundTask, TaskState
      <4>3. task'[v][u].pos = task[v][u].pos
        BY <1>4, <1>8
      <4> QED BY <4>2, <4>3
    <3> QED BY <3>1, <3>2, <1>1, <1>2, <1>3 DEF Unclaimed, BoundInv, TypeOK, GenState
  <2> QED BY <2>1, <2>2
<1> QED BY <1>8, <1>9, <1>10 DEF ClaimInv

(* Committed IDs are no longer pending.                                     *)
LEMMA CommitClaimInv ==
  ASSUME ClaimInv, NEW w \in Writers, NEW t \in Tasks, Commit(w, t)
  PROVE  ClaimInv'
<1>1. TypeOK /\ TaskInv /\ BoundInv
  BY DEF ClaimInv
<1>2. task[w][t] \in TaskState /\ SoundTask(task[w][t], seq) /\ seq \in Nat
  BY <1>1 DEF TypeOK, TaskInv
<1>3. /\ UNCHANGED <<seq, positions, gen, sent, up, crashes>>
      /\ task[w][t].st = "held"
      /\ rows' = [rows EXCEPT ![w] = @ \cup task[w][t].ids]
  BY DEF Commit
<1>4. /\ task'[w][t] = [task[w][t] EXCEPT !.st = "done", !.ok = TRUE]
      /\ task' = [task EXCEPT ![w][t] = task'[w][t]]
  BY <1>1, <1>2 DEF Commit, TypeOK, TaskState
<1>5. /\ task'[w][t] \in TaskState /\ task'[w][t].st = "done"
      /\ task'[w][t].ids = task[w][t].ids /\ task'[w][t].need = task[w][t].need
      /\ task'[w][t].pos = task[w][t].pos
  <2>1. task'[w][t] = [task[w][t] EXCEPT !.st = "done", !.ok = TRUE]
    BY <1>4
  <2> QED BY <2>1, <1>2 DEF TaskState, Phases
<1>6. SoundTask(task'[w][t], seq)
  BY <1>2, <1>3, <1>5 DEF SoundTask
<1>7. task' = [task EXCEPT ![w][t] = task'[w][t]] /\ seq' = seq
  BY <1>3, <1>4
<1>8. /\ task' \in [Writers -> [Tasks -> TaskState]] /\ TaskInv'
      /\ \A v \in Writers : Pending(v)' \subseteq Pending(v)
      /\ \A v \in Writers : \A i \in Pending(v)' : \A u \in Tasks : task'[v][u].pos < i
  BY <1>5, <1>6, <1>7, QuietTaskStep
<1>9. TypeOK' /\ BoundInv'
  <2>1. /\ rows' \in [Writers -> SUBSET Nat]
        /\ \A v \in Writers : \A i \in rows'[v] : i <= seq
    BY <1>1, <1>2, <1>3 DEF TypeOK, TaskState, BoundInv, SoundTask
  <2> QED BY <2>1, <1>1, <1>3, <1>8 DEF TypeOK, BoundInv
<1>10. ASSUME NEW v \in Writers, NEW i \in Pending(v)' PROVE Unclaimed(v, i)'
  <2>1. Unclaimed(v, i)
    BY <1>8, <1>10 DEF ClaimInv
  <2>2. i \notin task[w][t].ids
    <3>1. PICK u \in Tasks :
             task'[v][u].st \in {"fetching", "registered", "held"} /\ i \in task'[v][u].ids
      BY <1>10 DEF Pending
    <3>2. <<v, u>> # <<w, t>>
      BY <3>1, <1>5
    <3> QED BY <3>1, <3>2, <1>5, <1>8 DEF TaskInv
  <2>3. \A x \in Writers : i \notin rows'[x]
    BY <2>1, <2>2, <1>1, <1>3 DEF Unclaimed, TypeOK
  <2> QED BY <2>1, <2>3, <1>3, <1>8, <1>10 DEF Unclaimed
<1> QED BY <1>8, <1>9, <1>10 DEF ClaimInv

(* stream_positions stays below the pending IDs of its writer.              *)
LEMMA UpsertClaimInv ==
  ASSUME ClaimInv, NEW w \in Writers, NEW t \in Tasks, Upsert(w, t)
  PROVE  ClaimInv'
<1>1. TypeOK /\ TaskInv /\ BoundInv
  BY DEF ClaimInv
<1>2. task[w][t] \in TaskState /\ SoundTask(task[w][t], seq) /\ seq \in Nat
  BY <1>1 DEF TypeOK, TaskInv
<1>3. /\ UNCHANGED <<seq, rows, gen, sent, up, crashes>>
      /\ positions' = [positions EXCEPT ![w] = Max({@, task[w][t].pos})]
  BY DEF Upsert
<1>4. task'[w][t] = Idle /\ task' = [task EXCEPT ![w][t] = task'[w][t]]
  BY <1>1 DEF Upsert, TypeOK
<1>5. SoundTask(task'[w][t], seq)
  BY <1>1, <1>4, IdleTask DEF SoundTask, TypeOK
<1>6. /\ task' \in [Writers -> [Tasks -> TaskState]] /\ TaskInv'
      /\ \A v \in Writers : Pending(v)' \subseteq Pending(v)
      /\ \A v \in Writers : \A i \in Pending(v)' : \A u \in Tasks : task'[v][u].pos < i
  BY <1>3, <1>4, <1>5, IdleTask, QuietTaskStep
<1>7. /\ positions[w] \in Nat /\ task[w][t].pos \in Nat
      /\ positions' = [positions EXCEPT
                         ![w] = IF positions[w] >= task[w][t].pos THEN positions[w]
                                                                  ELSE task[w][t].pos]
  <2>1. positions[w] \in Nat /\ task[w][t].pos \in Nat
    BY <1>1, <1>2 DEF TypeOK, TaskState
  <2>2. Max({positions[w], task[w][t].pos}) =
           IF positions[w] >= task[w][t].pos THEN positions[w] ELSE task[w][t].pos
    BY <2>1, MaxOfTwo
  <2> QED BY <2>1, <2>2, <1>3
<1>8. TypeOK' /\ BoundInv'
  BY <1>1, <1>2, <1>3, <1>6, <1>7 DEF TypeOK, BoundInv, SoundTask
<1>9. ASSUME NEW v \in Writers, NEW i \in Pending(v)' PROVE Unclaimed(v, i)'
  <2>1. Unclaimed(v, i)
    BY <1>6, <1>9 DEF ClaimInv
  <2>2. positions'[v] < i
    BY <2>1, <1>1, <1>7 DEF Unclaimed, TypeOK
  <2> QED BY <2>1, <2>2, <1>3, <1>6, <1>9 DEF Unclaimed
<1> QED BY <1>6, <1>8, <1>9 DEF ClaimInv

(* An announced token is below the pending IDs of its writer.               *)
LEMMA AnnounceClaimInv ==
  ASSUME ClaimInv, NEW w \in Writers, Announce(w)
  PROVE  ClaimInv'
<1>1. TypeOK /\ TaskInv /\ BoundInv
  BY DEF ClaimInv
<1>2. PICK tok \in {gen[w].maxLocal} \cup {i \in rows[w] : i <= gen[w].maxLocal} :
         sent' = sent \cup {<<w, tok>>}
  BY DEF Announce
<1>3. UNCHANGED <<seq, rows, positions, task, gen, up, crashes>>
  BY DEF Announce
<1>4. tok \in Nat /\ tok <= gen[w].maxLocal /\ gen[w].maxLocal \in Nat /\ gen[w].maxLocal <= seq
      /\ seq \in Nat
  BY <1>1, <1>2 DEF TypeOK, GenState, BoundInv, Nodes
<1>5. TypeOK' /\ TaskInv' /\ BoundInv'
  BY <1>1, <1>2, <1>3, <1>4 DEF TypeOK, TaskInv, BoundInv
<1>6. ASSUME NEW v \in Writers, NEW i \in Pending(v)' PROVE Unclaimed(v, i)'
  <2>1. i \in Pending(v)
    BY <1>3, <1>6 DEF Pending
  <2>2. Unclaimed(v, i) /\ i \in Nat
    BY <2>1, <1>1, PendingFacts DEF ClaimInv
  <2>3. tok # i /\ (w = v => tok < i)
    BY <2>2, <1>2, <1>4 DEF Unclaimed
  <2>4. \A m \in sent' : m[2] # i /\ (m[1] = v => m[2] < i)
    BY <2>2, <2>3, <1>2 DEF Unclaimed
  <2> QED BY <2>2, <2>4, <1>3 DEF Unclaimed
<1> QED BY <1>5, <1>6 DEF ClaimInv

(* A crash only gives up pending IDs.                                       *)
LEMMA CrashClaimInv ==
  ASSUME ClaimInv, NEW n \in Nodes, Crash(n)
  PROVE  ClaimInv'
<1>1. TypeOK /\ TaskInv /\ BoundInv
  BY DEF ClaimInv
<1>2. /\ UNCHANGED <<seq, rows, positions, gen, sent>>
      /\ up' = up \ {n} /\ crashes' = crashes + 1
      /\ task' = [w \in Writers |-> IF w = n THEN [t \in Tasks |-> Idle] ELSE task[w]]
  BY DEF Crash
<1>3. \A v \in Writers, u \in Tasks : task'[v][u] = IF v = n THEN Idle ELSE task[v][u]
  BY <1>2
<1>4. SoundTask(Idle, seq)
  BY <1>1, IdleTask DEF SoundTask, TypeOK
<1>5. TypeOK'
  BY <1>1, <1>2, IdleTask DEF TypeOK
<1>6. TaskInv'
  <2>1. \A v \in Writers, u \in Tasks : SoundTask(task'[v][u], seq')
    BY <1>1, <1>2, <1>3, <1>4 DEF TaskInv
  <2>2. \A v, x \in Writers : \A u, y \in Tasks :
           <<v, u>> # <<x, y>> => task'[v][u].ids \cap task'[x][y].ids = {}
    BY <1>1, <1>3, IdleTask DEF TaskInv
  <2> QED BY <2>1, <2>2 DEF TaskInv
<1>7. BoundInv'
  BY <1>1, <1>2 DEF BoundInv
<1>8. ASSUME NEW v \in Writers, NEW i \in Pending(v)' PROVE Unclaimed(v, i)'
  <2>1. i \in Pending(v)
    BY <1>3, <1>8, IdleTask DEF Pending
  <2>2. Unclaimed(v, i) /\ i \in Nat /\ 1 < i
    BY <2>1, <1>1, PendingFacts DEF ClaimInv
  <2>3. \A u \in Tasks : task'[v][u].pos < i
    BY <2>2, <1>3, IdleTask DEF Unclaimed
  <2> QED BY <2>2, <2>3, <1>2 DEF Unclaimed
<1> QED BY <1>5, <1>6, <1>7, <1>8 DEF ClaimInv

(* A step that puts h in the memory of process n, and otherwise at most      *)
(* takes tasks out of their writes.                                         *)
LEMMA GenStep ==
  ASSUME ClaimInv, NEW n \in Nodes, NEW h \in GenState, gen' = [gen EXCEPT ![n] = h],
         task' \in [Writers -> [Tasks -> TaskState]], TaskInv',
         \A v \in Writers : Pending(v)' \subseteq Pending(v),
         \A v \in Writers : \A i \in Pending(v)' : \A u \in Tasks : task'[v][u].pos < i,
         UNCHANGED <<seq, rows, positions, sent, crashes>>, up' \subseteq Nodes,
         h.upto <= seq, h.maxSeen <= seq, h.maxLocal <= seq,
         \A i \in h.known \cup h.finished : i <= seq,
         \A w \in Writers : h.cur[w] <= seq,
         \A v \in Writers : \A i \in Pending(v)' :
            /\ h.upto < i /\ h.cur[v] < i
            /\ i \notin h.known /\ i \notin h.finished
            /\ n \in Writers => /\ h.maxLocal # i /\ h.cur[n] # i
                                /\ h.maxSeen = i => n = v
            /\ n = v => h.maxLocal < i
  PROVE  ClaimInv'
<1>1. TypeOK /\ TaskInv /\ BoundInv
  BY DEF ClaimInv
<1>2. \A m \in Nodes : gen'[m] = IF m = n THEN h ELSE gen[m]
  BY <1>1 DEF TypeOK
<1>3. gen' \in [Nodes -> GenState]
  BY <1>1 DEF TypeOK
<1>4. TypeOK'
  BY <1>1, <1>3 DEF TypeOK
<1>5. BoundInv'
  BY <1>1, <1>2 DEF BoundInv
<1>6. ASSUME NEW v \in Writers, NEW i \in Pending(v)' PROVE Unclaimed(v, i)'
  <2>1. Unclaimed(v, i)
    BY <1>6 DEF ClaimInv
  <2>2. Writers \subseteq Nodes
    BY DEF Nodes
  <2>3. \A m \in Nodes : /\ gen'[m].upto < i /\ gen'[m].cur[v] < i
                         /\ i \notin gen'[m].known /\ i \notin gen'[m].finished
    BY <2>1, <1>2, <1>6 DEF Unclaimed
  <2>4. \A w \in Writers : /\ gen'[w].maxLocal # i /\ gen'[w].cur[w] # i
                           /\ gen'[w].maxSeen = i => w = v
    BY <2>1, <2>2, <1>2, <1>6 DEF Unclaimed
  <2>5. gen'[v].maxLocal < i
    BY <2>1, <2>2, <1>2, <1>6 DEF Unclaimed
  <2> QED BY <2>1, <2>3, <2>4, <2>5, <1>6 DEF Unclaimed
<1> QED BY <1>4, <1>5, <1>6 DEF ClaimInv

(* Registering raises the maximum seen to an ID of this writer.             *)
LEMMA RegisterClaimInv ==
  ASSUME ClaimInv, NEW w \in Writers, NEW t \in Tasks, Register(w, t)
  PROVE  /\ ClaimInv'
         /\ \E h \in GenState : gen' = [gen EXCEPT ![w] = h] /\ NotBehind(gen[w], h)
<1>1. TypeOK /\ TaskInv /\ BoundInv
  BY DEF ClaimInv
<1>2. task[w][t] \in TaskState /\ SoundTask(task[w][t], seq) /\ seq \in Nat
  BY <1>1 DEF TypeOK, TaskInv
<1> DEFINE held == Unfinished(w) \cup task[w][t].ids
<1>3. /\ UNCHANGED <<seq, rows, positions, sent, up, crashes>>
      /\ task[w][t].st = "fetching" /\ task[w][t].need = 0
      /\ gen' = [gen EXCEPT ![w].maxSeen = Max({@, Max(held)})]
  BY DEF Register
<1>4. /\ task'[w][t] = [task[w][t] EXCEPT !.st = "registered"]
      /\ task' = [task EXCEPT ![w][t] = task'[w][t]]
  BY <1>1, <1>2 DEF Register, TypeOK, TaskState
<1>5. /\ task'[w][t] \in TaskState /\ task'[w][t].st = "registered"
      /\ task'[w][t].ids = task[w][t].ids /\ task'[w][t].need = task[w][t].need
      /\ task'[w][t].pos = task[w][t].pos /\ task'[w][t].snap = task[w][t].snap
  BY <1>2, <1>4 DEF TaskState, Phases
<1>6. SoundTask(task'[w][t], seq)
  BY <1>2, <1>3, <1>5 DEF SoundTask
<1>7. /\ task' \in [Writers -> [Tasks -> TaskState]] /\ TaskInv'
      /\ \A v \in Writers : Pending(v)' \subseteq Pending(v)
      /\ \A v \in Writers : \A i \in Pending(v)' : \A u \in Tasks : task'[v][u].pos < i
  <2>1. task' = [task EXCEPT ![w][t] = task'[w][t]] /\ seq' = seq
    BY <1>3, <1>4
  <2> QED BY <2>1, <1>3, <1>5, <1>6, QuietTaskStep
<1>8. \A i \in held : \E u \in Tasks : i \in task[w][u].ids
  BY DEF Unfinished
<1>9. held \subseteq Nat /\ held # {} /\ \A i \in held : i <= seq
  <2>1. \A u \in Tasks : task[w][u].ids \subseteq Nat /\ \A i \in task[w][u].ids : i <= seq
    BY <1>1 DEF TypeOK, TaskState, TaskInv, SoundTask
  <2>2. task[w][t].ids # {}
    BY <1>2, <1>3 DEF SoundTask
  <2> QED BY <2>1, <2>2, <1>8
<1> HIDE DEF held
<1>10. Max(held) \in held
  BY <1>2, <1>9, MaxIsGreatest
<1>11. \A v \in Writers : \A i \in Pending(v) : Max(held) = i => w = v
  BY <1>1, <1>8, <1>10 DEF Pending, TaskInv
<1>12. gen[w] \in GenState /\ gen[w].maxSeen \in Nat /\ w \in Nodes
  BY <1>1 DEF TypeOK, GenState, Nodes
<1>13. PICK top \in Nat : top = Max({gen[w].maxSeen, Max(held)})
          /\ top \in {gen[w].maxSeen, Max(held)}
  BY <1>9, <1>10, <1>12, MaxOfTwo
<1>14. PICK h : h = [gen[w] EXCEPT !.maxSeen = top]
  OBVIOUS
<1>15. /\ h \in GenState /\ gen' = [gen EXCEPT ![w] = h]
       /\ h.upto = gen[w].upto /\ h.cur = gen[w].cur /\ h.known = gen[w].known
       /\ h.finished = gen[w].finished /\ h.maxLocal = gen[w].maxLocal /\ h.maxSeen = top
  BY <1>1, <1>3, <1>12, <1>13, <1>14 DEF TypeOK, GenState
<1>16. /\ h.upto <= seq /\ h.maxSeen <= seq /\ h.maxLocal <= seq
       /\ \A i \in h.known \cup h.finished : i <= seq
       /\ \A v \in Writers : h.cur[v] <= seq
  BY <1>1, <1>9, <1>10, <1>12, <1>13, <1>15 DEF BoundInv
<1>17. ASSUME NEW v \in Writers, NEW i \in Pending(v)'
       PROVE  /\ h.upto < i /\ h.cur[v] < i
              /\ i \notin h.known /\ i \notin h.finished
              /\ w \in Writers => /\ h.maxLocal # i /\ h.cur[w] # i
                                  /\ h.maxSeen = i => w = v
              /\ w = v => h.maxLocal < i
  <2>1. i \in Pending(v)
    BY <1>7
  <2>2. Unclaimed(v, i)
    BY <2>1 DEF ClaimInv
  <2> QED BY <2>1, <2>2, <1>11, <1>12, <1>13, <1>15 DEF Unclaimed
<1>18. up' \subseteq Nodes /\ UNCHANGED <<seq, rows, positions, sent, crashes>>
  BY <1>1, <1>3 DEF TypeOK
<1>19. h \in GenState /\ gen' = [gen EXCEPT ![w] = h]
  BY <1>15
<1>20. ClaimInv'
  BY <1>7, <1>12, <1>16, <1>17, <1>18, <1>19, GenStep
<1>21. NotBehind(gen[w], h)
  BY <1>12, <1>15 DEF NotBehind, GenState
<1> QED BY <1>19, <1>20, <1>21

(* Following another writer adds a token that no pending ID is equal to.    *)
LEMMA AdvanceClaimInv ==
  ASSUME ClaimInv, NEW n \in Nodes, NEW w \in Writers, NEW tok \in Nat, Advance(n, w, tok)
  PROVE  /\ ClaimInv'
         /\ \E h \in GenState : gen' = [gen EXCEPT ![n] = h] /\ NotBehind(gen[n], h)
<1>1. TypeOK /\ TaskInv /\ BoundInv
  BY DEF ClaimInv
<1>2. /\ n # w /\ <<w, tok>> \in sent
      /\ UNCHANGED <<seq, rows, positions, task, sent, up, crashes>>
  BY DEF Advance
<1>3. /\ gen[n] \in GenState /\ gen[n].cur \in [Writers -> Nat] /\ gen[n].maxSeen \in Nat
      /\ gen[n].known \subseteq Nat /\ gen[n].upto \in Nat /\ gen[n].maxLocal \in Nat
      /\ gen[n].finished \subseteq Nat /\ seq \in Nat
  BY <1>1 DEF TypeOK, GenState
<1>4. PICK c \in Nat : /\ c = Max({gen[n].cur[w], tok}) /\ c \in {gen[n].cur[w], tok}
                       /\ c >= gen[n].cur[w]
  BY <1>3, MaxOfTwo
<1>5. PICK s \in Nat : s = Max({gen[n].maxSeen, tok}) /\ s \in {gen[n].maxSeen, tok}
  BY <1>3, MaxOfTwo
<1>6. PICK g : g = [gen[n] EXCEPT !.cur[w] = c, !.maxSeen = s]
  OBVIOUS
<1>7. /\ g \in GenState /\ g.cur = [gen[n].cur EXCEPT ![w] = c] /\ g.maxSeen = s
      /\ g.upto = gen[n].upto /\ g.known = gen[n].known /\ g.finished = gen[n].finished
      /\ g.maxLocal = gen[n].maxLocal
  BY <1>3, <1>4, <1>5, <1>6 DEF GenState
<1>8. PICK busy \in BOOLEAN : busy = Busy(n)
  BY DEF Busy
<1>9. AddPersistedPosition(n, g, busy, {tok})
  <2>1. AddPersistedPosition(n, [gen[n] EXCEPT !.cur[w] = Max({@, tok}),
                                               !.maxSeen = Max({@, tok})], Busy(n), {tok})
    BY DEF Advance
  <2>2. [gen[n] EXCEPT !.cur[w] = Max({@, tok}), !.maxSeen = Max({@, tok})] = g
    BY <1>3, <1>4, <1>5, <1>6
  <2> QED BY <2>1, <2>2, <1>8
<1>10. PICK b \in Nat : b = seq
  BY <1>3
<1>11. /\ tok <= seq /\ g.upto <= seq /\ g.maxSeen <= seq /\ g.maxLocal <= seq
       /\ \A i \in g.known \cup g.finished : i <= seq
       /\ \A v \in Writers : g.cur[v] <= seq
  BY <1>1, <1>2, <1>3, <1>4, <1>5, <1>7 DEF BoundInv
<1>12. PICK h \in GenState : gen' = [gen EXCEPT ![n] = h]
                             /\ Extended(n, g, busy, {tok}, b, h)
  <2>1. PICK ids : ids = {tok}
    OBVIOUS
  <2>2. ids \subseteq Nat /\ ids # {} /\ AddPersistedPosition(n, g, busy, ids)
    BY <2>1, <1>9
  <2>3. WithinBound(g, ids, b)
    BY <2>1, <1>10, <1>11 DEF WithinBound
  <2>4. g \in GenState
    BY <1>7
  <2>5. \E h \in GenState : gen' = [gen EXCEPT ![n] = h] /\ Extended(n, g, busy, ids, b, h)
    BY <1>1, <2>2, <2>3, <2>4, AddPersistedStep, ZenonT(40)
  <2> QED BY <2>1, <2>5
<1>13. \A v \in Writers : Pending(v)' = Pending(v)
  BY <1>2 DEF Pending
<1>14. ASSUME NEW v \in Writers, NEW i \in Pending(v)'
       PROVE  /\ h.upto < i /\ h.cur[v] < i
              /\ i \notin h.known /\ i \notin h.finished
              /\ n \in Writers => /\ h.maxLocal # i /\ h.cur[n] # i
                                  /\ h.maxSeen = i => n = v
              /\ n = v => h.maxLocal < i
  <2>1. Unclaimed(v, i) /\ i \in Nat /\ Busy(v)
    BY <1>1, <1>13, <1>14, PendingFacts DEF ClaimInv
  <2>2. tok # i /\ (w = v => tok < i)
    BY <2>1, <1>2 DEF Unclaimed
  <2>3. gen[n].upto < i /\ gen[n].cur[v] < i /\ i \notin gen[n].known /\ i \notin gen[n].finished
    BY <2>1 DEF Unclaimed
  <2>4. g.cur[v] < i
    BY <2>2, <2>3, <1>3, <1>4, <1>7
  <2>5. MinCurr(n, g.cur, busy) \in Nat /\ MinCurr(n, g.cur, busy) < i
    <3>1. g.cur \in [Writers -> Nat]
      BY <1>7 DEF GenState
    <3>2. v = n => busy
      BY <2>1, <1>8
    <3>3. /\ MinCurr(n, g.cur, busy) \in Nat
          /\ \A x \in Writers \ {n} : MinCurr(n, g.cur, busy) <= g.cur[x]
          /\ n \in Writers /\ busy => MinCurr(n, g.cur, busy) <= g.cur[n]
      BY <3>1, MinCurrBound
    <3>4. MinCurr(n, g.cur, busy) <= g.cur[v] /\ g.cur[v] \in Nat
      BY <3>1, <3>2, <3>3
    <3> QED BY <3>3, <3>4, <2>1, <2>4
  <2>6. /\ h.upto < i
        /\ h.maxLocal = g.maxLocal \/ h.maxLocal < i \/ (~ busy /\ h.maxLocal = g.maxSeen)
    BY <2>1, <2>2, <2>3, <2>5, <1>7, <1>12 DEF Extended
  <2>7. i \notin h.known /\ i \notin h.finished
    BY <2>2, <2>3, <1>7, <1>12 DEF Extended
  <2>8. n \in Writers => /\ gen[n].maxLocal # i /\ gen[n].cur[n] # i
                         /\ gen[n].maxSeen = i => n = v
    BY <2>1 DEF Unclaimed
  <2>9. n \in Writers => g.cur[n] = gen[n].cur[n]
    BY <1>2, <1>3, <1>7
  <2>10. g.maxSeen = i => gen[n].maxSeen = i
    BY <2>2, <1>5, <1>7
  <2>11. v = n => busy /\ gen[n].maxLocal < i
    BY <2>1, <1>8 DEF Unclaimed
  <2>12. h.maxLocal \in Nat
    BY <1>12 DEF GenState
  <2> QED BY <2>1, <2>4, <2>6, <2>7, <2>8, <2>9, <2>10, <2>11, <2>12, <1>7, <1>12 DEF Extended
<1>15. TaskInv' /\ task' \in [Writers -> [Tasks -> TaskState]] /\ up' \subseteq Nodes
  BY <1>1, <1>2 DEF TaskInv, TypeOK
<1>16. \A v \in Writers : \A i \in Pending(v)' : \A u \in Tasks : task'[v][u].pos < i
  BY <1>2, <1>13 DEF ClaimInv, Unclaimed
<1>17. /\ h.upto <= seq /\ h.maxSeen <= seq /\ h.maxLocal <= seq
       /\ \A i \in h.known \cup h.finished : i <= seq
       /\ \A v \in Writers : h.cur[v] <= seq
  BY <1>7, <1>10, <1>11, <1>12 DEF Extended
<1>18. gen' = [gen EXCEPT ![n] = h] /\ UNCHANGED <<seq, rows, positions, sent, crashes>>
  BY <1>2, <1>12
<1>19. ClaimInv'
  BY <1>13, <1>14, <1>15, <1>16, <1>17, <1>18, GenStep
<1>20. NotBehind(gen[n], h)
  BY <1>3, <1>4, <1>7, <1>12 DEF Extended, NotBehind
<1> QED BY <1>12, <1>19, <1>20

(* What w may not claim is at most each of its unfinished IDs, and at most  *)
(* the successor of each position it has in flight.                         *)
LEMMA MinUnfinishedBound ==
  ASSUME NEW U, U \subseteq Nat, NEW F, F \subseteq Nat
  PROVE  /\ MinUnfinished(U, F) \in Nat
         /\ \A i \in U : MinUnfinished(U, F) <= i
         /\ \A i \in F : MinUnfinished(U, F) <= i + 1
<1> DEFINE T == U \cup {i + 1 : i \in F} \cup {MaxId + 1}
<1>1. T \subseteq Nat /\ T # {}
  <2>1. MaxId + 1 \in Nat /\ \A i \in F : i + 1 \in Nat
    BY BoundsAssumption
  <2> QED BY <2>1
<1>2. /\ \A i \in U : i \in T
      /\ \A i \in F : i + 1 \in T
  OBVIOUS
<1>3. MinUnfinished(U, F) = Min(T)
  BY DEF MinUnfinished
<1> HIDE DEF T
<1>4. Min(T) \in T /\ \A y \in T : Min(T) <= y
  BY <1>1, MinIsLeast
<1> QED BY <1>1, <1>2, <1>3, <1>4

(* Finishing claims only IDs below everything its writer still has pending. *)
LEMMA MarkFinishedClaimInv ==
  ASSUME ClaimInv, NEW w \in Writers, NEW t \in Tasks, MarkFinished(w, t)
  PROVE  /\ ClaimInv'
         /\ \E h \in GenState : gen' = [gen EXCEPT ![w] = h] /\ NotBehind(gen[w], h)
<1>1. TypeOK /\ TaskInv /\ BoundInv
  BY DEF ClaimInv
<1>2. /\ task[w][t] \in TaskState /\ SoundTask(task[w][t], seq) /\ seq \in Nat
      /\ w \in Nodes
  BY <1>1 DEF TypeOK, TaskInv, Nodes
<1>3. /\ gen[w] \in GenState /\ gen[w].cur \in [Writers -> Nat] /\ gen[w].maxSeen \in Nat
      /\ gen[w].known \subseteq Nat /\ gen[w].upto \in Nat /\ gen[w].maxLocal \in Nat
      /\ gen[w].finished \subseteq Nat
  BY <1>1, <1>2 DEF TypeOK, GenState
<1>4. /\ UNCHANGED <<seq, rows, positions, sent, up, crashes>>
      /\ task[w][t].st = "done"
      /\ task' = [task EXCEPT ![w][t] =
                    IF task[w][t].ok THEN [Idle EXCEPT !.st = "update"] ELSE Idle]
  BY DEF MarkFinished
<1>5. /\ task[w][t].ids \subseteq Nat /\ task[w][t].ids # {}
      /\ \A i \in task[w][t].ids : i <= seq
  BY <1>2, <1>4 DEF SoundTask, TaskState
<1>6. /\ task' = [task EXCEPT ![w][t] = task'[w][t]]
      /\ task'[w][t].ids = {} /\ task'[w][t].pos = 0
      /\ task'[w][t].st \in {"idle", "update"}
      /\ task'[w][t] \in TaskState
  <2>1. task'[w][t] = IF task[w][t].ok THEN [Idle EXCEPT !.st = "update"] ELSE Idle
    BY <1>1, <1>4 DEF TypeOK
  <2>2. [Idle EXCEPT !.st = "update"] \in TaskState
    BY IdleTask DEF TaskState, Phases
  <2>3. task'[w][t] \in TaskState
    BY <2>1, <2>2, IdleTask
  <2>4. /\ [Idle EXCEPT !.st = "update"].st = "update" /\ [Idle EXCEPT !.st = "update"].ids = {}
        /\ [Idle EXCEPT !.st = "update"].pos = 0
    BY DEF Idle
  <2>5. task' = [task EXCEPT ![w][t] = task'[w][t]]
    BY <1>1, <1>4 DEF TypeOK
  <2> QED BY <2>1, <2>3, <2>4, <2>5, IdleTask
<1>7. /\ task' \in [Writers -> [Tasks -> TaskState]] /\ TaskInv'
      /\ \A v \in Writers : Pending(v)' \subseteq Pending(v)
      /\ \A v \in Writers : \A i \in Pending(v)' : \A u \in Tasks : task'[v][u].pos < i
  <2>1. SoundTask(task'[w][t], seq)
    BY <1>2, <1>6 DEF SoundTask
  <2>2. seq' = seq
    BY <1>4
  <2> QED BY <2>1, <2>2, <1>6, QuietTaskStep
<1>8. PICK ids : ids = task[w][t].ids
  OBVIOUS
<1>9. PICK left : left = Unfinished(w) \ ids
  OBVIOUS
<1>10. PICK finished : finished = gen[w].finished \cup ids
  OBVIOUS
<1>11. PICK inflight : inflight = InFlight(w)
  OBVIOUS
<1>12. PICK claimed : claimed = {i \in finished : i < MinUnfinished(left, inflight)}
  OBVIOUS
<1>13. PICK newCur : newCur = Max(claimed \cup {gen[w].cur[w]})
  OBVIOUS
<1>14. PICK top : top = IF claimed = {} THEN gen[w].maxLocal ELSE Max({newCur, gen[w].maxLocal})
  OBVIOUS
<1>15. PICK busy \in BOOLEAN : busy = (left # {} \/ inflight # {})
  OBVIOUS
<1>16. PICK g : g = [gen[w] EXCEPT !.finished = finished \ claimed, !.cur[w] = newCur,
                                   !.maxLocal = top]
  OBVIOUS
<1>17. AddPersistedPosition(w, g, busy, ids)
  <2>1. PICK l \in {left}, f \in {finished} :
          \E c \in {{i \in f : i < MinUnfinished(l, inflight)}} :
          \E m \in {Max(c \cup {gen[w].cur[w]})} :
             AddPersistedPosition(w,
                 [gen[w] EXCEPT !.finished = f \ c, !.cur[w] = m,
                                !.maxLocal = IF c = {} THEN @ ELSE Max({m, @})],
                 l # {} \/ inflight # {}, ids)
    BY <1>8, <1>9, <1>10, <1>11 DEF MarkFinished
  <2>2. l = left /\ f = finished
    OBVIOUS
  <2>3. PICK c \in {claimed} :
          \E m \in {Max(c \cup {gen[w].cur[w]})} :
             AddPersistedPosition(w,
                 [gen[w] EXCEPT !.finished = finished \ c, !.cur[w] = m,
                                !.maxLocal = IF c = {} THEN @ ELSE Max({m, @})],
                 left # {} \/ inflight # {}, ids)
    BY <2>1, <2>2, <1>12
  <2>4. c = claimed
    OBVIOUS
  <2>5. AddPersistedPosition(w,
                 [gen[w] EXCEPT !.finished = finished \ claimed, !.cur[w] = newCur,
                                !.maxLocal = IF claimed = {} THEN @ ELSE Max({newCur, @})],
                 left # {} \/ inflight # {}, ids)
    BY <2>3, <2>4, <1>13
  <2>6. [gen[w] EXCEPT !.finished = finished \ claimed, !.cur[w] = newCur,
                       !.maxLocal = IF claimed = {} THEN @ ELSE Max({newCur, @})] = g
    BY <1>3, <1>14, <1>16
  <2>7. (left # {} \/ inflight # {}) = busy
    BY <1>15
  <2> QED BY <2>5, <2>6, <2>7
<1>18. /\ finished \subseteq Nat /\ \A i \in finished : i <= seq
       /\ claimed \subseteq finished
  BY <1>1, <1>2, <1>3, <1>5, <1>8, <1>10, <1>12 DEF BoundInv
<1>19. /\ newCur \in Nat /\ newCur <= seq /\ newCur \in claimed \cup {gen[w].cur[w]}
       /\ newCur >= gen[w].cur[w]
  <2> DEFINE T == claimed \cup {gen[w].cur[w]}
  <2>1. T \subseteq Nat /\ T # {} /\ \A i \in T : i <= seq
    BY <1>1, <1>2, <1>3, <1>18 DEF BoundInv
  <2> HIDE DEF T
  <2>2. Max(T) \in T /\ \A i \in T : i <= Max(T)
    BY <2>1, <1>2, MaxIsGreatest
  <2>3. newCur \in T /\ \A i \in T : i <= newCur
    BY <2>2, <1>13 DEF T
  <2> QED BY <2>1, <2>3 DEF T
<1>20. /\ top \in Nat /\ top <= seq /\ top \in {newCur, gen[w].maxLocal}
       /\ top >= gen[w].maxLocal
  <2>1. /\ Max({newCur, gen[w].maxLocal}) \in {newCur, gen[w].maxLocal}
        /\ Max({newCur, gen[w].maxLocal}) >= gen[w].maxLocal
    BY <1>3, <1>19, MaxOfTwo
  <2>2. gen[w].maxLocal <= seq
    BY <1>1, <1>2 DEF BoundInv
  <2> QED BY <2>1, <2>2, <1>3, <1>14, <1>19
<1>21. /\ g \in GenState /\ g.cur = [gen[w].cur EXCEPT ![w] = newCur]
       /\ g.finished = finished \ claimed /\ g.maxLocal = top
       /\ g.upto = gen[w].upto /\ g.known = gen[w].known /\ g.maxSeen = gen[w].maxSeen
  BY <1>3, <1>16, <1>18, <1>19, <1>20 DEF GenState
<1>22. PICK b \in Nat : b = seq
  BY <1>2
<1>23. /\ g.upto <= seq /\ g.maxSeen <= seq /\ g.maxLocal <= seq
       /\ \A i \in g.known \cup g.finished : i <= seq
       /\ \A v \in Writers : g.cur[v] <= seq
  BY <1>1, <1>2, <1>3, <1>18, <1>19, <1>20, <1>21 DEF BoundInv
<1>24. PICK h \in GenState : gen' = [gen EXCEPT ![w] = h] /\ Extended(w, g, busy, ids, b, h)
  <2>1. WithinBound(g, ids, b)
    BY <1>5, <1>8, <1>22, <1>23 DEF WithinBound
  <2>2. g \in GenState /\ ids \subseteq Nat /\ ids # {}
    BY <1>5, <1>8, <1>21
  <2> QED BY <2>1, <2>2, <1>1, <1>2, <1>17, AddPersistedStep
<1>25. left \subseteq Nat /\ inflight \subseteq Nat
  BY <1>1, <1>9, <1>11 DEF TypeOK, TaskState, Unfinished, InFlight
<1>26. ASSUME NEW v \in Writers, NEW i \in Pending(v)'
       PROVE  /\ h.upto < i /\ h.cur[v] < i
              /\ i \notin h.known /\ i \notin h.finished
              /\ w \in Writers => /\ h.maxLocal # i /\ h.cur[w] # i
                                  /\ h.maxSeen = i => w = v
              /\ w = v => h.maxLocal < i
  <2>1. i \in Pending(v)
    BY <1>7
  <2>2. Unclaimed(v, i) /\ i \in Nat
    BY <2>1, <1>1, PendingFacts DEF ClaimInv
  <2>3. PICK u \in Tasks :
           task[v][u].st \in {"fetching", "registered", "held"} /\ i \in task[v][u].ids
    BY <2>1 DEF Pending
  <2>4. <<v, u>> # <<w, t>>
    BY <2>3, <1>4
  <2>5. i \notin ids
    BY <2>3, <2>4, <1>1, <1>8 DEF TaskInv
  <2>6. /\ gen[w].upto < i /\ gen[w].cur[v] < i /\ i \notin gen[w].known /\ i \notin finished
        /\ gen[w].maxLocal # i /\ gen[w].cur[w] # i /\ (gen[w].maxSeen = i => w = v)
        /\ (w = v => gen[w].maxLocal < i)
    BY <2>2, <2>5, <1>2, <1>10 DEF Unclaimed
  <2>7. newCur # i /\ g.cur[w] = newCur /\ (v # w => g.cur[v] = gen[w].cur[v])
    BY <2>6, <1>3, <1>18, <1>19, <1>21
  <2>8. ASSUME w = v PROVE busy /\ newCur < i
    <3>1. i \in left \/ \E k \in inflight : k < i
      <4>1. CASE task[v][u].st = "fetching"
        <5>1. task[v][u].snap \in inflight
          BY <2>8, <4>1, <1>11 DEF InFlight
        <5>2. task[v][u].snap < i
          BY <2>3, <4>1, <1>1 DEF TaskInv, SoundTask
        <5> QED BY <5>1, <5>2
      <4>2. CASE task[v][u].st \in {"registered", "held"}
        BY <2>3, <2>5, <2>8, <4>2, <1>9 DEF Unfinished
      <4> QED BY <2>3, <4>1, <4>2
    <3>2. MinUnfinished(left, inflight) \in Nat /\ MinUnfinished(left, inflight) <= i
      <4>1. /\ MinUnfinished(left, inflight) \in Nat
            /\ \A k \in left : MinUnfinished(left, inflight) <= k
            /\ \A k \in inflight : MinUnfinished(left, inflight) <= k + 1
        BY <1>25, MinUnfinishedBound
      <4>2. CASE i \in left
        BY <4>1, <4>2
      <4>3. CASE \E k \in inflight : k < i
        <5>1. PICK k \in inflight : k < i
          BY <4>3
        <5>2. k \in Nat /\ MinUnfinished(left, inflight) <= k + 1
          BY <4>1, <1>25
        <5> QED BY <5>1, <5>2, <4>1, <2>2
      <4> QED BY <3>1, <4>2, <4>3
    <3>3. \A k \in claimed : k < i /\ k \in Nat
      BY <3>2, <2>2, <1>12, <1>18
    <3>4. newCur < i
      BY <3>3, <2>6, <2>8, <1>19
    <3> QED BY <3>1, <3>4, <1>15
  <2>9. g.cur[v] < i
    BY <2>6, <2>7, <2>8
  <2>10. MinCurr(w, g.cur, busy) \in Nat /\ MinCurr(w, g.cur, busy) < i
    <3>1. g.cur \in [Writers -> Nat]
      BY <1>21 DEF GenState
    <3>2. v = w => busy
      BY <2>8
    <3>3. /\ MinCurr(w, g.cur, busy) \in Nat
          /\ \A x \in Writers \ {w} : MinCurr(w, g.cur, busy) <= g.cur[x]
          /\ w \in Writers /\ busy => MinCurr(w, g.cur, busy) <= g.cur[w]
      BY <3>1, <1>2, MinCurrBound
    <3>4. MinCurr(w, g.cur, busy) <= g.cur[v] /\ g.cur[v] \in Nat
      BY <3>1, <3>2, <3>3
    <3> QED BY <3>3, <3>4, <2>2, <2>9
  <2>11. /\ h.upto < i
         /\ h.maxLocal = g.maxLocal \/ h.maxLocal < i \/ (~ busy /\ h.maxLocal = g.maxSeen)
    BY <2>2, <2>5, <2>6, <2>10, <1>21, <1>24 DEF Extended
  <2>12. i \notin h.known /\ i \notin h.finished /\ h.cur = g.cur /\ h.maxSeen = gen[w].maxSeen
    BY <2>5, <2>6, <1>21, <1>24 DEF Extended
  <2>13. h.maxLocal \in Nat
    BY <1>24 DEF GenState
  <2>14. g.maxLocal # i /\ (w = v => g.maxLocal < i)
    BY <2>6, <2>7, <2>8, <1>20, <1>21
  <2>15. ~ busy => w # v /\ g.maxSeen # i
    BY <2>6, <2>8, <1>21
  <2> QED BY <2>2, <2>6, <2>7, <2>9, <2>11, <2>12, <2>13, <2>14, <2>15
<1>27. /\ h.upto <= seq /\ h.maxSeen <= seq /\ h.maxLocal <= seq
       /\ \A i \in h.known \cup h.finished : i <= seq
       /\ \A v \in Writers : h.cur[v] <= seq
  BY <1>5, <1>8, <1>22, <1>23, <1>24 DEF Extended
<1>28. /\ gen' = [gen EXCEPT ![w] = h] /\ UNCHANGED <<seq, rows, positions, sent, crashes>>
       /\ up' \subseteq Nodes
  BY <1>1, <1>4, <1>24 DEF TypeOK
<1>29. ClaimInv'
  BY <1>2, <1>7, <1>26, <1>27, <1>28, GenStep
<1>30. NotBehind(gen[w], h)
  BY <1>3, <1>19, <1>20, <1>21, <1>24 DEF Extended, NotBehind, GenState
<1> QED BY <1>24, <1>29, <1>30

(* A process that starts in a quiet moment loads no claim about a pending   *)
(* ID: a reader takes the stored position of every writer that has one.     *)
LEMMA StartClaimInv ==
  ASSUME ClaimInv, DownIdle, NEW n \in Nodes, QuietStart(n)
  PROVE  ClaimInv'
<1> DEFINE stored  == {w \in Writers \ {n} : positions[w] # 0}
           own     == IF n \in Writers THEN {seq} ELSE {}
           bases   == {positions[w] : w \in stored} \cup own
           base    == IF bases = {} THEN Max(RowIds \cup {1}) ELSE Min(bases)
           loaded  == IF bases = {} THEN {} ELSE {i \in RowIds : i >= base}
           upto    == RunEnd(base, loaded)
           ownRows == IF n \in Writers THEN {i \in rows[n] : i >= base} ELSE {}
           cur     == [w \in Writers |-> CASE w \in stored          -> positions[w]
                                           [] w = n /\ ownRows # {} -> Max(ownRows)
                                           [] w = n /\ ownRows = {} -> seq
                                           [] OTHER                 -> upto]
           maxSeen == Max({cur[w] : w \in Writers} \cup {upto})
<1>1. TypeOK /\ TaskInv /\ BoundInv
  BY DEF ClaimInv
<1>2. /\ UNCHANGED <<seq, rows, positions, task, sent, crashes>>
      /\ n \notin up /\ up' = up \cup {n} /\ QuietFor(n)
      /\ gen' = [gen EXCEPT ![n] = LoadCurrentIds(n)]
  BY DEF QuietStart, Start
<1>3. LoadCurrentIds(n) = [cur |-> cur, finished |-> {}, upto |-> upto,
                           known |-> {i \in loaded : i > upto},
                           maxSeen |-> maxSeen, maxLocal |-> maxSeen]
  BY DEF LoadCurrentIds
<1>4. /\ seq \in Nat /\ 1 <= seq /\ positions \in [Writers -> Nat]
      /\ \A w \in Writers : positions[w] <= seq
      /\ RowIds \subseteq Nat /\ \A i \in RowIds : i <= seq
      /\ \A w \in Writers : rows[w] \subseteq Nat /\ \A i \in rows[w] : i <= seq
  BY <1>1 DEF TypeOK, BoundInv, RowIds
<1>5. bases \subseteq Nat /\ \A i \in bases : i <= seq
  BY <1>4
<1>6. /\ base \in Nat /\ base <= seq
      /\ bases # {} => \A y \in bases : base <= y
  <2>1. CASE bases = {}
    <3> DEFINE T == RowIds \cup {1}
    <3>1. T \subseteq Nat /\ T # {} /\ \A y \in T : y <= seq
      BY <1>4
    <3> HIDE DEF T
    <3>2. Max(T) \in T
      BY <3>1, <1>4, MaxIsGreatest
    <3>3. base = Max(T)
      BY <2>1 DEF T
    <3> QED BY <2>1, <3>1, <3>2, <3>3
  <2>2. CASE bases # {}
    <3>1. base = Min(bases)
      BY <2>2
    <3> HIDE DEF bases
    <3>2. Min(bases) \in bases /\ \A y \in bases : Min(bases) <= y
      BY <2>2, <1>5, MinIsLeast
    <3> QED BY <3>1, <3>2, <1>5
  <2> QED BY <2>1, <2>2
<1>7. loaded \subseteq RowIds
  OBVIOUS
<1> HIDE DEF base, loaded
<1>8. /\ upto \in Nat /\ upto \in {base} \cup loaded /\ upto >= base /\ upto <= seq
      /\ (base + 1) .. upto \subseteq loaded
  <2>1. loaded \subseteq Nat /\ \A k \in loaded : k <= seq
    BY <1>4, <1>7
  <2>2. /\ RunEnd(base, loaded) \in Nat
        /\ RunEnd(base, loaded) \in {base} \cup loaded
        /\ RunEnd(base, loaded) >= base
        /\ (base + 1) .. RunEnd(base, loaded) \subseteq loaded
    BY <2>1, <1>4, <1>6, RunEndIsRun
  <2> QED BY <2>1, <2>2, <1>6
<1> HIDE DEF upto
<1>9. ownRows # {} => Max(ownRows) \in Nat /\ Max(ownRows) <= seq
  <2>1. ownRows \subseteq Nat /\ \A y \in ownRows : y <= seq
    BY <1>4
  <2> HIDE DEF ownRows
  <2>2. ownRows # {} => Max(ownRows) \in ownRows
    BY <2>1, <1>4, MaxIsGreatest
  <2> QED BY <2>1, <2>2
<1> HIDE DEF ownRows
<1>10. \A w \in Writers : cur[w] \in Nat /\ cur[w] <= seq
  <2> SUFFICES ASSUME NEW w \in Writers PROVE cur[w] \in Nat /\ cur[w] <= seq
    OBVIOUS
  <2>1. CASE w \in stored
    <3>1. cur[w] = positions[w]
      BY <2>1
    <3> QED BY <3>1, <1>4
  <2>2. CASE w \notin stored
    <3> HIDE DEF stored
    <3> QED BY <2>2, <1>4, <1>8, <1>9
  <2> QED BY <2>1, <2>2
<1>11. \A w \in stored : cur[w] = positions[w]
  OBVIOUS
<1>12. cur \in [Writers -> Nat]
  <2>1. cur = [w \in Writers |-> cur[w]]
    OBVIOUS
  <2> HIDE DEF cur
  <2> QED BY <2>1, <1>10
<1> HIDE DEF cur
<1>13. maxSeen \in Nat /\ maxSeen <= seq
  <2> DEFINE T == {cur[w] : w \in Writers} \cup {upto}
  <2>1. T \subseteq Nat /\ T # {} /\ \A y \in T : y <= seq
    BY <1>8, <1>10
  <2> HIDE DEF T
  <2>2. Max(T) \in T
    BY <2>1, <1>4, MaxIsGreatest
  <2>3. maxSeen = Max(T)
    BY DEF T
  <2> HIDE DEF maxSeen
  <2> QED BY <2>1, <2>2, <2>3
<1> HIDE DEF maxSeen
<1>14. PICK h : h = LoadCurrentIds(n)
  OBVIOUS
<1>15. /\ h.cur = cur /\ h.finished = {} /\ h.upto = upto /\ h.maxSeen = maxSeen
       /\ h.maxLocal = maxSeen /\ h.known = {i \in loaded : i > upto}
  BY <1>3, <1>14
<1>16. h \in GenState
  <2>1. {i \in loaded : i > upto} \subseteq Nat
    BY <1>4, <1>7
  <2> QED BY <2>1, <1>3, <1>8, <1>12, <1>13, <1>14 DEF GenState
<1>17. \A v \in Writers : Pending(v)' = Pending(v)
  BY <1>2 DEF Pending
<1>18. n \in Writers => Pending(n) = {}
  BY <1>2 DEF DownIdle, Pending
<1>19. ASSUME NEW v \in Writers, NEW i \in Pending(v)'
       PROVE  /\ h.upto < i /\ h.cur[v] < i
              /\ i \notin h.known /\ i \notin h.finished
              /\ n \in Writers => /\ h.maxLocal # i /\ h.cur[n] # i
                                  /\ h.maxSeen = i => n = v
              /\ n = v => h.maxLocal < i
  <2>1. i \in Pending(v) /\ v # n
    BY <1>17, <1>18
  <2>2. n \notin Writers /\ positions[v] # 0
    BY <2>1, <1>2, NodesAssumption DEF QuietFor
  <2>3. v \in stored /\ positions[v] \in bases
    BY <2>1, <2>2
  <2>4. Unclaimed(v, i) /\ i \in Nat
    BY <2>1, <1>1, PendingFacts DEF ClaimInv
  <2>5. positions[v] < i /\ i \notin RowIds
    BY <2>4 DEF Unclaimed, RowIds
  <2>6. positions[v] \in Nat /\ base <= positions[v]
    BY <2>3, <1>4, <1>6
  <2>7. base < i /\ i \notin loaded
    BY <2>4, <2>5, <2>6, <1>6, <1>7
  <2>8. upto < i
    BY <2>4, <2>7, <1>6, <1>8
  <2>9. cur[v] < i
    BY <2>3, <2>5, <1>11
  <2> QED BY <2>1, <2>2, <2>7, <2>8, <2>9, <1>15
<1>20. /\ TaskInv' /\ task' \in [Writers -> [Tasks -> TaskState]] /\ up' \subseteq Nodes
  BY <1>1, <1>2 DEF TaskInv, TypeOK
<1>21. \A v \in Writers : \A i \in Pending(v)' : \A u \in Tasks : task'[v][u].pos < i
  BY <1>2, <1>17 DEF ClaimInv, Unclaimed
<1>22. /\ h.upto <= seq /\ h.maxSeen <= seq /\ h.maxLocal <= seq
       /\ \A i \in h.known \cup h.finished : i <= seq
       /\ \A v \in Writers : h.cur[v] <= seq
  BY <1>4, <1>7, <1>8, <1>10, <1>13, <1>15
<1>23. gen' = [gen EXCEPT ![n] = h] /\ UNCHANGED <<seq, rows, positions, sent, crashes>>
  BY <1>2, <1>14
<1>24. \A v \in Writers : Pending(v)' \subseteq Pending(v)
  BY <1>17
<1> QED BY <1>16, <1>19, <1>20, <1>21, <1>22, <1>23, <1>24, GenStep

(* Only a running writer moves a task, and a crash makes its tasks idle.    *)
LEMMA DownIdleStep ==
  ASSUME TypeOK, DownIdle, Next
  PROVE  DownIdle'
<1>1. \A w \in Writers, t \in Tasks : w \in up \/ task[w][t].st = "idle"
  BY DEF DownIdle
<1>2. ASSUME NEW w \in Writers, NEW t \in Tasks, w \in up, up' = up,
             \A v \in Writers, u \in Tasks : v # w \/ u # t => task'[v][u] = task[v][u]
      PROVE  DownIdle'
  BY <1>1, <1>2 DEF DownIdle
<1>3. ASSUME NEW w \in Writers, NEW t \in Tasks, FetchStart(w, t) PROVE DownIdle'
  <2>1. w \in up /\ up' = up
    BY <1>3 DEF FetchStart
  <2>2. \A v \in Writers, u \in Tasks : v # w \/ u # t => task'[v][u] = task[v][u]
    BY <1>3 DEF FetchStart, TypeOK
  <2> QED BY <1>2, <2>1, <2>2
<1>4. ASSUME NEW w \in Writers, NEW t \in Tasks, WriteProgress(w, t) \/ FetchFail(w, t)
      PROVE  DownIdle'
  <2>1. task[w][t].st # "idle" /\ up' = up
    BY <1>4 DEF WriteProgress, NextVal, Register, FetchEnd, Commit, Rollback, MarkFinished,
                ReadPosition, Upsert, FetchFail
  <2>2. \A v \in Writers, u \in Tasks : v # w \/ u # t => task'[v][u] = task[v][u]
    BY <1>4 DEF WriteProgress, NextVal, Register, FetchEnd, Commit, Rollback, MarkFinished,
                ReadPosition, Upsert, FetchFail, TypeOK
  <2> QED BY <1>1, <1>2, <2>1, <2>2
<1>5. ASSUME NEW n \in Nodes, Crash(n) PROVE DownIdle'
  BY <1>1, <1>5, IdleTask DEF Crash, DownIdle
<1>6. ASSUME UNCHANGED task, up \subseteq up' PROVE DownIdle'
  BY <1>1, <1>6 DEF DownIdle
<1>7. ASSUME NEW w \in Writers, Announce(w) PROVE DownIdle'
  BY <1>6, <1>7 DEF Announce
<1>8. ASSUME NEW n \in Nodes, NEW m \in sent, Advance(n, m[1], m[2]) PROVE DownIdle'
  BY <1>6, <1>8 DEF Advance
<1>9. ASSUME NEW n \in Nodes, QuietStart(n) PROVE DownIdle'
  BY <1>6, <1>9 DEF QuietStart, Start
<1> QED BY <1>3, <1>4, <1>5, <1>7, <1>8, <1>9 DEF Next, RunningStep

(* Every step preserves the inductive invariant.                            *)
LEMMA NextIInv ==
  ASSUME IInv, [Next]_vars
  PROVE  IInv'
<1>1. ClaimInv /\ DownIdle /\ TypeOK
  BY DEF IInv, ClaimInv
<1>2. ASSUME NEW w \in Writers, NEW t \in Tasks,
             FetchStart(w, t) \/ WriteProgress(w, t) \/ FetchFail(w, t)
      PROVE  ClaimInv'
  BY <1>1, <1>2, FetchStartClaimInv, FetchFailClaimInv, NextValClaimInv, RegisterClaimInv,
     FetchEndClaimInv, CommitClaimInv, RollbackClaimInv, MarkFinishedClaimInv,
     ReadPositionClaimInv, UpsertClaimInv DEF WriteProgress
<1>3. ASSUME NEW n \in Nodes, NEW m \in sent, Advance(n, m[1], m[2]) PROVE ClaimInv'
  <2>1. PICK w \in Writers, tok \in Nat : m = <<w, tok>>
    BY <1>1 DEF TypeOK
  <2>2. Advance(n, w, tok)
    BY <1>3, <2>1
  <2> QED BY <1>1, <2>2, AdvanceClaimInv
<1>4. CASE Next
  <2>1. ClaimInv'
    BY <1>1, <1>2, <1>3, <1>4, AnnounceClaimInv, CrashClaimInv, StartClaimInv
       DEF Next, RunningStep
  <2>2. DownIdle'
    BY <1>1, <1>4, DownIdleStep
  <2> QED BY <2>1, <2>2 DEF IInv
<1>5. CASE UNCHANGED vars
  <2> USE <1>5 DEF vars
  <2>1. TypeOK' /\ TaskInv' /\ DownIdle'
    BY <1>1 DEF TypeOK, TaskInv, DownIdle, ClaimInv
  <2>2. BoundInv'
    BY DEF IInv, ClaimInv, BoundInv
  <2>3. \A v \in Writers : Pending(v)' = Pending(v)
    BY DEF Pending
  <2>4. \A v \in Writers : \A i \in Pending(v) : Unclaimed(v, i)'
    BY <1>1 DEF ClaimInv, Unclaimed
  <2> QED BY <2>1, <2>2, <2>3, <2>4 DEF IInv, ClaimInv
<1> QED BY <1>4, <1>5

-----------------------------------------------------------------------------
(* The inductive invariant holds in every state that Spec allows.           *)
THEOREM Invariance == Spec => []IInv
<1>1. Init => IInv
  BY InitClaimInv DEF IInv, DownIdle, Init, Idle
<1>2. IInv /\ [Next]_vars => IInv'
  BY NextIInv
<1> QED BY <1>1, <1>2, PTL DEF Spec

(* The variables of every process keep their types.                         *)
THEOREM TypeCorrect == Spec => []TypeOK
<1>1. IInv => TypeOK
  BY DEF IInv, ClaimInv
<1> QED BY <1>1, Invariance, PTL

(* get_persisted_upto_position: no process takes a position as persisted    *)
(* while the row of an ID up to it may still be committed.                  *)
THEOREM PersistedUptoStable == Spec => []PersistedUptoIsStable
<1>1. IInv => PersistedUptoIsStable
  BY DEF IInv, ClaimInv, Unclaimed, PersistedUptoIsStable
<1> QED BY <1>1, Invariance, PTL

(* The token of a writer is below each of its pending IDs, on every process. *)
LEMMA TokenBelowPending ==
  ASSUME IInv
  PROVE  WriterTokenIsStable
<1> SUFFICES ASSUME NEW n \in Nodes, NEW w \in Writers, NEW i \in Pending(w)
             PROVE  CurrentToken(n, w) < i
  BY DEF WriterTokenIsStable
<1>1. Unclaimed(w, i) /\ TypeOK
  BY DEF IInv, ClaimInv
<1>2. CASE n = w
  BY <1>1, <1>2 DEF CurrentToken, Unclaimed
<1>3. CASE n # w
  <2>1. gen[n].cur[w] \in Nat /\ gen[n].upto \in Nat
    BY <1>1 DEF TypeOK, GenState
  <2>2. Max({gen[n].cur[w], gen[n].upto}) \in {gen[n].cur[w], gen[n].upto}
    BY <2>1, MaxOfTwo
  <2>3. gen[n].cur[w] < i /\ gen[n].upto < i
    BY <1>1 DEF Unclaimed
  <2> QED BY <2>2, <2>3, <1>3 DEF CurrentToken
<1> QED BY <1>2, <1>3

(* get_current_token_for_writer never runs ahead of a write in progress.    *)
THEOREM WriterTokenStable == Spec => []WriterTokenIsStable
<1>1. IInv => WriterTokenIsStable
  BY TokenBelowPending
<1> QED BY <1>1, Invariance, PTL

(* A row is never committed behind a position that was already handed out.  *)
THEOREM NoLateRow == Spec => NoRowBehindAToken
<1> DEFINE Ahead == \A w \in Writers, n \in Nodes : \A i \in rows'[w] \ rows[w] :
                       i > gen[n].upto /\ i > CurrentToken(n, w)
<1>1. IInv /\ [Next]_vars => [Ahead]_vars
  <2> SUFFICES ASSUME IInv, Next, NEW w \in Writers, NEW n \in Nodes,
                      NEW i \in rows'[w] \ rows[w]
               PROVE  i > gen[n].upto /\ i > CurrentToken(n, w)
    OBVIOUS
  <2>1. PICK t \in Tasks : task[w][t].st = "held" /\ i \in task[w][t].ids
    <3>1. TypeOK
      BY DEF IInv, ClaimInv
    <3>2. \E v \in Writers, t \in Tasks : Commit(v, t)
      <4>1. ASSUME NEW v \in Writers, NEW t \in Tasks,
                   FetchStart(v, t) \/ WriteProgress(v, t) \/ FetchFail(v, t)
            PROVE  Commit(v, t)
        BY <4>1 DEF FetchStart, WriteProgress, NextVal, FetchFail, Register, FetchEnd,
                    Rollback, MarkFinished, ReadPosition, Upsert
      <4>2. ASSUME NEW v \in Writers, Announce(v) PROVE FALSE
        BY <4>2 DEF Announce
      <4>3. ASSUME NEW x \in Nodes, NEW m \in sent, Advance(x, m[1], m[2]) PROVE FALSE
        BY <4>3 DEF Advance
      <4>4. ASSUME NEW x \in Nodes, Crash(x) \/ QuietStart(x) PROVE FALSE
        BY <4>4 DEF Crash, QuietStart, Start
      <4> QED BY <4>1, <4>2, <4>3, <4>4 DEF Next, RunningStep
    <3>3. PICK v \in Writers, t \in Tasks : Commit(v, t)
      BY <3>2
    <3> QED BY <3>1, <3>3 DEF Commit, TypeOK
  <2>2. i \in Pending(w)
    BY <2>1 DEF Pending
  <2>3. gen[n].upto < i /\ CurrentToken(n, w) < i
    BY <2>2, TokenBelowPending DEF IInv, ClaimInv, Unclaimed, WriterTokenIsStable
  <2>4. i \in Nat /\ gen[n].upto \in Nat /\ CurrentToken(n, w) \in Nat
    <3>1. TypeOK /\ TaskInv
      BY DEF IInv, ClaimInv
    <3>2. gen[n].cur[w] \in Nat /\ gen[n].upto \in Nat /\ gen[n].maxLocal \in Nat
      BY <3>1 DEF TypeOK, GenState
    <3>3. Max({gen[n].cur[w], gen[n].upto}) \in Nat
      BY <3>2, MaxOfTwo
    <3>4. i \in Nat
      BY <3>1, <2>2, PendingFacts
    <3> QED BY <3>2, <3>3, <3>4 DEF CurrentToken
  <2> QED BY <2>3, <2>4
<1>2. [][Ahead]_vars => NoRowBehindAToken
  BY DEF NoRowBehindAToken
<1> QED BY <1>1, <1>2, Invariance, PTL DEF Spec

(* What a running process tells its clients, and what stream_positions      *)
(* tells a starting one, only moves forwards.                               *)
THEOREM TokensNeverMoveBack == Spec => TokensMoveForwards
<1> DEFINE Forwards ==
             /\ \A w \in Writers : positions'[w] >= positions[w]
             /\ \A n \in up \cap up' : /\ gen'[n].upto >= gen[n].upto
                                       /\ gen'[n].maxLocal >= gen[n].maxLocal
                                       /\ \A w \in Writers : gen'[n].cur[w] >= gen[n].cur[w]
           Stored == \A w \in Writers : positions'[w] >= positions[w]
           Told == \A n \in up \cap up' :
                      /\ gen'[n].upto >= gen[n].upto
                      /\ gen'[n].maxLocal >= gen[n].maxLocal
                      /\ \A w \in Writers : gen'[n].cur[w] >= gen[n].cur[w]
<1>1. ASSUME IInv, Next PROVE Stored /\ Told
  <2>1. TypeOK /\ ClaimInv
    BY <1>1 DEF IInv, ClaimInv
  <2>2. ASSUME UNCHANGED positions PROVE Stored
    BY <2>1, <2>2 DEF TypeOK
  <2>3. ASSUME UNCHANGED gen PROVE Told
    <3>1. \A n \in up : /\ gen[n].upto \in Nat /\ gen[n].maxLocal \in Nat
                        /\ \A w \in Writers : gen[n].cur[w] \in Nat
      BY <2>1 DEF TypeOK, GenState
    <3> QED BY <2>3, <3>1
  <2>4. ASSUME NEW n \in Nodes, NEW h \in GenState, gen' = [gen EXCEPT ![n] = h],
               n \in up => NotBehind(gen[n], h)
        PROVE  Told
    <3>1. \A x \in up : /\ x \in Nodes /\ gen[x].upto \in Nat /\ gen[x].maxLocal \in Nat
                        /\ \A w \in Writers : gen[x].cur[w] \in Nat
      BY <2>1 DEF TypeOK, GenState
    <3>2. \A x \in Nodes : gen'[x] = IF x = n THEN h ELSE gen[x]
      BY <2>1, <2>4 DEF TypeOK
    <3> QED BY <2>4, <3>1, <3>2 DEF NotBehind
  <2>5. ASSUME NEW w \in Writers, NEW t \in Tasks,
               FetchStart(w, t) \/ FetchFail(w, t) \/ WriteProgress(w, t)
        PROVE  Stored /\ Told
    <3>1. w \in Nodes
      BY DEF Nodes
    <3>2. CASE MarkFinished(w, t)
      <4>1. \E h \in GenState : gen' = [gen EXCEPT ![w] = h] /\ NotBehind(gen[w], h)
        BY <2>1, <3>2, MarkFinishedClaimInv
      <4>2. UNCHANGED positions
        BY <3>2 DEF MarkFinished
      <4> QED BY <4>1, <4>2, <3>1, <2>2, <2>4
    <3>3. CASE Register(w, t)
      <4>1. \E h \in GenState : gen' = [gen EXCEPT ![w] = h] /\ NotBehind(gen[w], h)
        BY <2>1, <3>3, RegisterClaimInv
      <4>2. UNCHANGED positions
        BY <3>3 DEF Register
      <4> QED BY <4>1, <4>2, <3>1, <2>2, <2>4
    <3>4. CASE Upsert(w, t)
      <4>1. UNCHANGED gen
        BY <3>4 DEF Upsert
      <4>2. positions[w] \in Nat /\ task[w][t].pos \in Nat
        BY <2>1 DEF TypeOK, TaskState
      <4>3. PICK p \in Nat : p = Max({positions[w], task[w][t].pos}) /\ p >= positions[w]
        BY <4>2, MaxOfTwo
      <4>4. positions' = [positions EXCEPT ![w] = p]
        BY <3>4, <4>3 DEF Upsert
      <4>5. Stored
        BY <4>3, <4>4, <2>1 DEF TypeOK
      <4> QED BY <4>1, <4>5, <2>3
    <3>5. CASE ~ (MarkFinished(w, t) \/ Register(w, t) \/ Upsert(w, t))
      <4>1. UNCHANGED <<gen, positions>>
        BY <2>5, <3>5 DEF FetchStart, FetchFail, WriteProgress, NextVal, FetchEnd, Commit,
                          Rollback, ReadPosition
      <4> QED BY <4>1, <2>2, <2>3
    <3> QED BY <3>2, <3>3, <3>4, <3>5
  <2>6. ASSUME NEW n \in Nodes, NEW m \in sent, Advance(n, m[1], m[2])
        PROVE  Stored /\ Told
    <3>1. m[1] \in Writers /\ m[2] \in Nat
      BY <2>1 DEF TypeOK
    <3>2. PICK w \in Writers, tok \in Nat : w = m[1] /\ tok = m[2]
      BY <3>1
    <3>3. Advance(n, w, tok)
      BY <2>6, <3>2
    <3>4. \E h \in GenState : gen' = [gen EXCEPT ![n] = h] /\ NotBehind(gen[n], h)
      BY <2>1, <3>3, AdvanceClaimInv
    <3>5. UNCHANGED positions
      BY <2>6 DEF Advance
    <3> QED BY <3>4, <3>5, <2>2, <2>4
  <2>7. ASSUME (\E w \in Writers : Announce(w)) \/ (\E n \in Nodes : Crash(n))
        PROVE  Stored /\ Told
    <3>1. UNCHANGED <<gen, positions>>
      BY <2>7 DEF Announce, Crash
    <3> QED BY <3>1, <2>2, <2>3
  <2>8. ASSUME NEW n \in Nodes, QuietStart(n)
        PROVE  Stored /\ Told
    <3>1. n \notin up /\ UNCHANGED positions /\ \A x \in up : gen'[x] = gen[x]
      BY <2>1, <2>8 DEF QuietStart, Start, TypeOK
    <3>2. \A x \in up : /\ gen[x].upto \in Nat /\ gen[x].maxLocal \in Nat
                        /\ \A w \in Writers : gen[x].cur[w] \in Nat
      BY <2>1 DEF TypeOK, GenState
    <3> QED BY <3>1, <3>2, <2>2
  <2> HIDE DEF Stored, Told
  <2> QED BY <1>1, <2>5, <2>6, <2>7, <2>8 DEF Next, RunningStep
<1>2. IInv /\ [Next]_vars => [Forwards]_vars
  BY <1>1
<1>3. [][Forwards]_vars => TokensMoveForwards
  BY DEF TokensMoveForwards
<1> QED BY <1>2, <1>3, Invariance, PTL DEF Spec

=============================================================================
