-------------------------- MODULE MultiWriterIdGen --------------------------
(***************************************************************************)
(* Stream IDs of a stream that several worker processes write to           *)
(* (storage/util/id_generators.py, MultiWriterIdGenerator).                *)
(*                                                                         *)
(* Every process keeps its own generator: the position it believes each    *)
(* writer has reached, and the position up to which everything has been    *)
(* persisted.  New IDs come from one Postgres sequence.  A write is a      *)
(* task: it fetches IDs, registers them as unfinished, persists its rows   *)
(* in a transaction, marks the IDs as finished and upserts the position of *)
(* its writer into stream_positions.  The thread lock of the generator is  *)
(* released between those steps, so every step is an action.  Writers      *)
(* announce their position over replication (RDATA and POSITION commands); *)
(* announcements reach the other processes late, in any order, more than   *)
(* once or never.  Processes crash and start again from the database.      *)
(*                                                                         *)
(* The model has a non-empty list of writers and a Postgres database: the  *)
(* SQLite fallback is a single process.  A negative stream only changes    *)
(* the sign of the IDs that are returned, so IDs are positive here.        *)
(***************************************************************************)
EXTENDS Integers, FiniteSets, FiniteSetsExt

CONSTANTS
    Writers,    \* the processes in the stream's list of writers
    Readers,    \* the other processes that follow the stream
    Tasks,      \* the writes one writer can have in progress
    MaxBatch,   \* bound: the IDs one write asks for
    MaxId,      \* bound: the IDs the sequence hands out
    MaxCrashes  \* bound: the crashes of a behaviour

ASSUME NodesAssumption == Writers # {} /\ Writers \cap Readers = {}
ASSUME BoundsAssumption == MaxBatch \in Nat \ {0} /\ MaxId \in Nat /\ MaxCrashes \in Nat

VARIABLES
    seq,        \* last_value of the Postgres sequence
    rows,       \* rows[w]: the IDs of the stream rows that w has committed
    positions,  \* positions[w]: the stream_positions row of w, 0 when there is none
    task,       \* task[w][t]: where the write t of w is
    gen,        \* gen[n]: the generator in the memory of process n
    sent,       \* the <<writer, token>> announcements on the replication bus
    up,         \* the processes that are running
    crashes     \* how many crashes there have been

vars == <<seq, rows, positions, task, gen, sent, up, crashes>>

Nodes == Writers \cup Readers

(***************************************************************************)
(* The memory of one generator: cur is _current_positions, finished is     *)
(* _finished_ids, upto is _persisted_upto_position, known is               *)
(* _known_persisted_positions (a heap whose duplicates have no effect),    *)
(* maxSeen is _max_seen_allocated_stream_id and maxLocal is                *)
(* _max_position_of_local_instance.                                        *)
(***************************************************************************)
GenState == [cur : [Writers -> Nat], finished : SUBSET Nat, upto : Nat,
             known : SUBSET Nat, maxSeen : Nat, maxLocal : Nat]

Phases == {"idle", "fetching", "registered", "held", "done", "update", "upsert"}

TaskState == [st : Phases, need : Nat, snap : Nat, ids : SUBSET Nat,
              ok : BOOLEAN, pos : Nat]

Idle == [st |-> "idle", need |-> 0, snap |-> 0, ids |-> {}, ok |-> FALSE, pos |-> 0]

-----------------------------------------------------------------------------
(* _unfinished_ids and _in_flight_fetches of writer w.  An ID is unfinished *)
(* from its registration until _mark_ids_as_finished; the maximum seen when *)
(* a fetch began is in flight until the fetch has ended.                    *)
Unfinished(w) ==
    UNION {task[w][t].ids : t \in {u \in Tasks : task[w][u].st \in {"registered", "held", "done"}}}

InFlight(w) ==
    {task[w][t].snap : t \in {u \in Tasks : task[w][u].st \in {"fetching", "registered"}}}

Busy(n) == n \in Writers /\ (Unfinished(n) # {} \/ InFlight(n) # {})

(* The IDs of w whose rows may still be committed.                          *)
Pending(w) ==
    UNION {task[w][t].ids : t \in {u \in Tasks : task[w][u].st \in {"fetching", "registered", "held"}}}

RowIds == UNION {rows[w] : w \in Writers}

(* The last position of the run of known positions that starts after p.     *)
RunEnd(p, known) ==
    CHOOSE q \in {p} \cup known :
        q >= p /\ (p + 1) .. q \subseteq known /\ q + 1 \notin known

(* Mutant: a writer forgets its own writes in progress.                      *)
MinCurrMutant(n, cur, busy) ==
    LET others == {cur[w] : w \in Writers \ {n}}
    IN  IF others = {} THEN cur[n] ELSE Min(others)

(* min_curr: the least position of the other writers, and of this one while *)
(* it has a write in progress.                                              *)
MinCurr(n, cur, busy) ==
    LET others == {cur[w] : w \in Writers \ {n}}
        least  == IF others = {} THEN cur[n] ELSE Min(others)
    IN  IF n \in Writers /\ busy THEN Min({least, cur[n]}) ELSE least

(* _add_persisted_position, for each of the IDs in ascending order: the     *)
(* generator of n becomes g with those IDs added.  The local maximum is     *)
(* raised before the run of known positions is skipped, so it sees the runs *)
(* completed by all IDs but the last.                                       *)
AddPersistedPosition(n, g, busy, ids) ==
    \E low \in {Max({MinCurr(n, g.cur, busy), g.upto})}, earlier \in {ids \ {Max(ids)}} :
    \E before \in {IF earlier = {} THEN low ELSE RunEnd(low, g.known \cup earlier)} :
    \E after \in {RunEnd(before, g.known \cup ids)} :
        gen' = [gen EXCEPT ![n] =
                  [g EXCEPT !.upto     = after,
                            !.known    = {i \in g.known \cup ids : i > after},
                            !.maxLocal = Max({g.maxLocal, before} \cup
                                             (IF busy THEN {} ELSE {g.maxSeen}))]]

(* get_current_token_for_writer(w) on process n.                            *)
CurrentToken(n, w) ==
    IF n = w THEN gen[n].maxLocal ELSE Max({gen[n].cur[w], gen[n].upto})

-----------------------------------------------------------------------------
(* A new stream: the sequence has consumed position 1, nothing is stored.   *)
Init ==
    /\ seq = 1
    /\ rows = [w \in Writers |-> {}]
    /\ positions = [w \in Writers |-> 0]
    /\ task = [w \in Writers |-> [t \in Tasks |-> Idle]]
    /\ gen = [n \in Nodes |-> [cur |-> [w \in Writers |-> 1], finished |-> {}, upto |-> 1,
                               known |-> {}, maxSeen |-> 1, maxLocal |-> 1]]
    /\ sent = {}
    /\ up = Nodes
    /\ crashes = 0

(* The bound on the sequence: the IDs that the fetches under way still have  *)
(* to draw stay within MaxId.                                                *)
IdBudget(n) ==
    seq + MapThenSumSet(LAMBDA p : task[p[1]][p[2]].need, Writers \X Tasks) + n <= MaxId

(* _load_next_mult_id_txn up to its try: the maximum seen goes in flight.   *)
FetchStart(w, t) ==
    /\ w \in up
    /\ task[w][t].st = "idle"
    /\ \E n \in {k \in 1 .. MaxBatch : IdBudget(k)} :
          task' = [task EXCEPT ![w][t] =
                     [Idle EXCEPT !.st = "fetching", !.need = n, !.snap = gen[w].maxSeen]]
    /\ UNCHANGED <<seq, rows, positions, gen, sent, up, crashes>>

(* Mutant: a fetch draws one value too many.                                 *)
NextValMutant(w, t) ==
    /\ task[w][t].st = "fetching"
    /\ task[w][t].need >= 0
    /\ seq' = seq + 1
    /\ task' = [task EXCEPT ![w][t].ids = @ \cup {seq + 1}, ![w][t].need = @ - 1]
    /\ UNCHANGED <<rows, positions, gen, sent, up, crashes>>

(* get_next_mult_txn: each nextval is atomic, a batch is not.               *)
NextVal(w, t) ==
    /\ task[w][t].st = "fetching"
    /\ task[w][t].need > 0
    /\ seq' = seq + 1
    /\ task' = [task EXCEPT ![w][t].ids = @ \cup {seq + 1}, ![w][t].need = @ - 1]
    /\ UNCHANGED <<rows, positions, gen, sent, up, crashes>>

(* The sequence query fails: the finally clause takes the fetch out of      *)
(* flight, and the values it drew are never used.                           *)
FetchFail(w, t) ==
    /\ task[w][t].st = "fetching"
    /\ task' = [task EXCEPT ![w][t] = Idle]
    /\ UNCHANGED <<seq, rows, positions, gen, sent, up, crashes>>

(* The locked section after the query: the IDs become unfinished.           *)
Register(w, t) ==
    /\ task[w][t].st = "fetching"
    /\ task[w][t].need = 0
    /\ task' = [task EXCEPT ![w][t].st = "registered"]
    /\ gen' = [gen EXCEPT ![w].maxSeen = Max({@, Max(Unfinished(w) \cup task[w][t].ids)})]
    /\ UNCHANGED <<seq, rows, positions, sent, up, crashes>>

(* The finally clause after a successful fetch.                             *)
FetchEnd(w, t) ==
    /\ task[w][t].st = "registered"
    /\ task' = [task EXCEPT ![w][t].st = "held", ![w][t].snap = 0]
    /\ UNCHANGED <<seq, rows, positions, gen, sent, up, crashes>>

(* The transaction that persists the rows of the IDs commits ...            *)
Commit(w, t) ==
    /\ task[w][t].st = "held"
    /\ rows' = [rows EXCEPT ![w] = @ \cup task[w][t].ids]
    /\ task' = [task EXCEPT ![w][t].st = "done", ![w][t].ok = TRUE]
    /\ UNCHANGED <<seq, positions, gen, sent, up, crashes>>

(* ... or is rolled back: the IDs leave a gap in the stream.                *)
Rollback(w, t) ==
    /\ task[w][t].st = "held"
    /\ task' = [task EXCEPT ![w][t].st = "done"]
    /\ UNCHANGED <<seq, rows, positions, gen, sent, up, crashes>>

(* Mutant: the fetches in flight are forgotten.                              *)
MinUnfinishedMutant(unfinished, inflight) == Min(unfinished \cup {MaxId + 1})

(* The least ID that w must not claim yet, MaxId + 1 when it may claim all. *)
MinUnfinished(unfinished, inflight) ==
    Min(unfinished \cup {i + 1 : i \in inflight} \cup {MaxId + 1})

(* _mark_ids_as_finished, after the commit and after the rollback.  Only    *)
(* the success path goes on to update stream_positions.                     *)
MarkFinished(w, t) ==
    /\ task[w][t].st = "done"
    /\ \E left \in {Unfinished(w) \ task[w][t].ids},
          finished \in {gen[w].finished \cup task[w][t].ids} :
       \E claimed \in {{i \in finished : i < MinUnfinished(left, InFlight(w))}} :
       \E newCur \in {Max(claimed \cup {gen[w].cur[w]})} :
          AddPersistedPosition(w,
              [gen[w] EXCEPT !.finished = finished \ claimed,
                             !.cur[w]   = newCur,
                             !.maxLocal = IF claimed = {} THEN @ ELSE Max({newCur, @})],
              left # {} \/ InFlight(w) # {}, task[w][t].ids)
    /\ task' = [task EXCEPT ![w][t] =
                  IF task[w][t].ok THEN [Idle EXCEPT !.st = "update"] ELSE Idle]
    /\ UNCHANGED <<seq, rows, positions, sent, up, crashes>>

(* _update_stream_positions_table_txn reads the position of this writer ... *)
ReadPosition(w, t) ==
    /\ task[w][t].st = "update"
    /\ task' = [task EXCEPT ![w][t].st = "upsert", ![w][t].pos = CurrentToken(w, w)]
    /\ UNCHANGED <<seq, rows, positions, gen, sent, up, crashes>>

(* Mutant: the upsert overwrites a later position.                           *)
UpsertMutant(w, t) ==
    /\ task[w][t].st = "upsert"
    /\ positions' = [positions EXCEPT ![w] = task[w][t].pos]
    /\ task' = [task EXCEPT ![w][t] = Idle]
    /\ UNCHANGED <<seq, rows, gen, sent, up, crashes>>

(* ... and upserts it, only ever upwards.                                   *)
Upsert(w, t) ==
    /\ task[w][t].st = "upsert"
    /\ positions' = [positions EXCEPT ![w] = Max({@, task[w][t].pos})]
    /\ task' = [task EXCEPT ![w][t] = Idle]
    /\ UNCHANGED <<seq, rows, gen, sent, up, crashes>>

(* Mutant: a token that no row has is not announced.                         *)
AnnounceMutant(w) ==
    /\ w \in up
    /\ \E tok \in {i \in rows[w] : i <= gen[w].maxLocal} : sent' = sent \cup {<<w, tok>>}
    /\ UNCHANGED <<seq, rows, positions, task, gen, up, crashes>>

(* The replication streamer of w sends its current token, or an RDATA with  *)
(* the ID of one of its rows up to it.                                      *)
Announce(w) ==
    /\ w \in up
    /\ \E tok \in {gen[w].maxLocal} \cup {i \in rows[w] : i <= gen[w].maxLocal} :
          sent' = sent \cup {<<w, tok>>}
    /\ UNCHANGED <<seq, rows, positions, task, gen, up, crashes>>

(* advance(w, tok) on process n, from an RDATA or a POSITION that arrives.  *)
(* An announcement up to the current token is mostly discarded, but not a   *)
(* POSITION on a stream that is not connected yet: it is applied as well.   *)
Advance(n, w, tok) ==
    /\ n \in up
    /\ n # w
    /\ <<w, tok>> \in sent
    /\ AddPersistedPosition(n,
           [gen[n] EXCEPT !.cur[w] = Max({@, tok}), !.maxSeen = Max({@, tok})],
           Busy(n), {tok})
    /\ UNCHANGED <<seq, rows, positions, task, sent, up, crashes>>

(* A process dies: its transactions are rolled back, its memory is gone.    *)
(* gen[n] is kept as what it last told its clients.                         *)
Crash(n) ==
    /\ n \in up
    /\ crashes < MaxCrashes
    /\ crashes' = crashes + 1
    /\ up' = up \ {n}
    /\ task' = [w \in Writers |-> IF w = n THEN [t \in Tasks |-> Idle] ELSE task[w]]
    /\ UNCHANGED <<seq, rows, positions, gen, sent>>

(* __init__ and _load_current_ids: the generator a starting process n reads *)
(* from the sequence, stream_positions and the rows of the stream.          *)
LoadCurrentIds(n) ==
    LET stored   == {w \in Writers \ {n} : positions[w] # 0}
        own      == IF n \in Writers THEN {seq} ELSE {}
        bases    == {positions[w] : w \in stored} \cup own
        base     == IF bases = {} THEN Max(RowIds \cup {1}) ELSE Min(bases)
        loaded   == IF bases = {} THEN {} ELSE {i \in RowIds : i >= base}
        upto     == RunEnd(base, loaded)
        ownRows  == IF n \in Writers THEN {i \in rows[n] : i >= base} ELSE {}
        position(w) == CASE w \in stored            -> positions[w]
                         [] w = n /\ ownRows # {}   -> Max(ownRows)
                         [] w = n /\ ownRows = {}   -> seq
                         [] OTHER                   -> upto
        cur      == [w \in Writers |-> position(w)]
        maxSeen  == Max({cur[w] : w \in Writers} \cup {upto})
    IN  [cur |-> cur, finished |-> {}, upto |-> upto,
         known |-> {i \in loaded : i > upto}, maxSeen |-> maxSeen, maxLocal |-> maxSeen]

Start(n) ==
    /\ n \notin up
    /\ up' = up \cup {n}
    /\ gen' = [gen EXCEPT ![n] = LoadCurrentIds(n)]
    /\ UNCHANGED <<seq, rows, positions, task, sent, crashes>>

-----------------------------------------------------------------------------
(* When starting process n cannot meet the ID of a write in progress: no    *)
(* other writer has one, or n is a reader and every writer that has one has *)
(* a row in stream_positions.                                               *)
QuietFor(n) ==
    \A w \in Writers \ {n} : Pending(w) = {} \/ (n \in Readers /\ positions[w] # 0)

WriteProgress(w, t) ==
    \/ NextVal(w, t) \/ Register(w, t) \/ FetchEnd(w, t)
    \/ Commit(w, t) \/ Rollback(w, t) \/ MarkFinished(w, t)
    \/ ReadPosition(w, t) \/ Upsert(w, t)

RunningStep ==
    \/ \E w \in Writers : \E t \in Tasks : FetchStart(w, t) \/ WriteProgress(w, t)
    \/ \E w \in Writers : Announce(w)
    \/ \E n \in Nodes : \E m \in sent : Advance(n, m[1], m[2])
    \/ \E n \in Nodes : Crash(n)

QuietStart(n) == QuietFor(n) /\ Start(n)

(* Processes start only in a quiet moment ...                               *)
Next ==
    \/ RunningStep
    \/ \E w \in Writers : \E t \in Tasks : FetchFail(w, t)
    \/ \E n \in Nodes : QuietStart(n)

Spec == Init /\ [][Next]_vars

(* ... or whenever every other writer has a row in stream_positions; nothing *)
(* in the code prevents even more.                                          *)
NextStoredStart ==
    RunningStep \/ \E n \in Nodes : Start(n) /\ \A w \in Writers \ {n} : positions[w] # 0

SpecStoredStart == Init /\ [][NextStoredStart]_vars

(* Fairness: the reactor and the database threads run every started write   *)
(* to its end, the streamer announces a moved position (it is poked after    *)
(* every write, and every second), the bus delivers and a process that       *)
(* crashed is started again.  Nothing obliges anyone to begin a write, to    *)
(* roll one back or to crash.                                                *)
Fairness ==
    /\ \A w \in Writers, t \in Tasks : WF_vars(WriteProgress(w, t))
    /\ \A w \in Writers : WF_vars(Announce(w))
    /\ \A n \in Nodes : WF_vars(\E m \in sent : Advance(n, m[1], m[2]))
    /\ \A n \in Nodes : WF_vars(QuietStart(n))

(* The sequence query does not fail: after FetchFail nothing recomputes the  *)
(* position of the writer before its next write or announcement.             *)
FairSpec ==
    /\ Init
    /\ [][RunningStep \/ \E n \in Nodes : QuietStart(n)]_vars
    /\ Fairness

-----------------------------------------------------------------------------
(* Every variable keeps its type.                                           *)
TypeOK ==
    /\ seq \in Nat
    /\ rows \in [Writers -> SUBSET Nat]
    /\ positions \in [Writers -> Nat]
    /\ task \in [Writers -> [Tasks -> TaskState]]
    /\ gen \in [Nodes -> GenState]
    /\ sent \subseteq Writers \X Nat
    /\ up \subseteq Nodes
    /\ crashes \in Nat

(* get_persisted_upto_position: "Get the max position where all previous    *)
(* positions have been persisted."  No process takes a position as          *)
(* persisted while the row of an ID up to it may still be committed.        *)
PersistedUptoIsStable ==
    \A n \in Nodes, w \in Writers : \A i \in Pending(w) : gen[n].upto < i

(* get_current_token_for_writer never runs ahead of a write in progress of  *)
(* that writer, on the writer itself and on every process that follows it.  *)
WriterTokenIsStable ==
    \A n \in Nodes, w \in Writers : \A i \in Pending(w) : CurrentToken(n, w) < i

(* A row is never committed at or below a position that some process has    *)
(* already handed to its clients: they would never be sent it.              *)
NoRowBehindAToken ==
    [][\A w \in Writers, n \in Nodes : \A i \in rows'[w] \ rows[w] :
          i > gen[n].upto /\ i > CurrentToken(n, w)]_vars

(* What a running process tells its clients, and what stream_positions      *)
(* tells a starting one, only moves forwards.                               *)
TokensMoveForwards ==
    [][/\ \A w \in Writers : positions'[w] >= positions[w]
       /\ \A n \in up \cap up' : /\ gen'[n].upto >= gen[n].upto
                                 /\ gen'[n].maxLocal >= gen[n].maxLocal
                                 /\ \A w \in Writers : gen'[n].cur[w] >= gen[n].cur[w]]_vars

(* A committed row becomes visible everywhere: every process eventually     *)
(* takes its position as persisted, however slowly the other writers write. *)
(* The first ID of a stream is 2.                                           *)
RowsBecomeVisible ==
    \A w \in Writers, i \in 2 .. MaxId :
        i \in rows[w] ~> \A n \in Nodes : gen[n].upto >= i

-----------------------------------------------------------------------------
(* The inductive invariant behind the stability properties.                 *)

(* A task holds IDs up to the last value of the sequence exactly while its   *)
(* write is under way, and the position it put in flight is below them.     *)
SoundTask(k, last) ==
    /\ \A i \in k.ids : 1 < i /\ i <= last
    /\ k.st \in {"idle", "update", "upsert"} => k.ids = {}
    /\ k.st \in {"fetching", "registered"} => k.snap <= last /\ \A i \in k.ids : k.snap < i
    /\ k.st \in {"registered", "held", "done"} => k.need = 0
    /\ k.st \in {"fetching", "registered", "held", "done"} => k.need > 0 \/ k.ids # {}
    /\ k.pos <= last

(* Every task is sound, and no two tasks hold the same ID.                   *)
TaskInv ==
    /\ \A w \in Writers, t \in Tasks : SoundTask(task[w][t], seq)
    /\ \A w, v \in Writers : \A t, u \in Tasks :
          <<v, u>> # <<w, t>> => task[v][u].ids \cap task[w][t].ids = {}

(* No position anywhere is beyond the last value of the sequence.           *)
BoundInv ==
    /\ 1 <= seq
    /\ \A n \in Nodes :
          /\ gen[n].upto <= seq /\ gen[n].maxSeen <= seq /\ gen[n].maxLocal <= seq
          /\ \A i \in gen[n].known \cup gen[n].finished : i <= seq
          /\ \A w \in Writers : gen[n].cur[w] <= seq
    /\ \A w \in Writers :
          /\ positions[w] <= seq
          /\ \A i \in rows[w] : i <= seq
    /\ \A m \in sent : m[2] <= seq

(* Nobody counts the pending ID i of writer v as persisted: every claim      *)
(* about v is below it, and no process knows it as a persisted position.    *)
Unclaimed(v, i) ==
    /\ \A n \in Nodes : /\ gen[n].upto < i /\ gen[n].cur[v] < i
                        /\ i \notin gen[n].known /\ i \notin gen[n].finished
    /\ \A w \in Writers : /\ gen[w].maxLocal # i /\ gen[w].cur[w] # i
                          /\ gen[w].maxSeen = i => w = v
                          /\ i \notin rows[w]
    /\ gen[v].maxLocal < i
    /\ positions[v] < i
    /\ \A t \in Tasks : task[v][t].pos < i
    /\ \A m \in sent : m[2] # i /\ (m[1] = v => m[2] < i)

(* The type, the bounds, the tasks and the claims together ...               *)
ClaimInv ==
    /\ TypeOK
    /\ TaskInv
    /\ BoundInv
    /\ \A v \in Writers : \A i \in Pending(v) : Unclaimed(v, i)

(* ... and that a process which is not running has no write in progress,     *)
(* so that a starting one has none, are inductive.                          *)
DownIdle == \A w \in Writers \ up : \A t \in Tasks : task[w][t].st = "idle"

IInv == ClaimInv /\ DownIdle

=============================================================================
