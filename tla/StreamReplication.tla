------------------------- MODULE StreamReplication -------------------------
(***************************************************************************)
(* How the rows of a stream reach another process (replication/tcp): the   *)
(* streamer of each writer (resource.py) reads its new rows and publishes  *)
(* RDATA and POSITION commands, Redis passes them on, and the command      *)
(* handler of a replica (handler.py) applies them or fetches what it has   *)
(* missed.                                                                 *)
(*                                                                         *)
(* A command reaches the replica only while it is subscribed, a connection *)
(* that is lost takes the commands on their way with it, and nothing       *)
(* numbers the commands.  What must hold is that the replica never moves   *)
(* its position of a writer past a row that it has not processed: caches   *)
(* would keep stale values for ever.  It cannot hold of a row whose        *)
(* processing raises: the queue logs the error and goes on with the next   *)
(* command, which moves the position past that row.                        *)
(*                                                                         *)
(* The tokens of a writer are numbered on their own here; how they are     *)
(* drawn from one sequence is the subject of MultiWriterIdGen, from which  *)
(* this module takes that the rows up to a writer's token are committed.   *)
(***************************************************************************)
EXTENDS Naturals, Sequences, FiniteSets, SequencesExt

CONSTANTS
    Writers,
    MaxToken,       \* bound: the tokens of one writer
    MaxBatch,       \* bound: the rows with one token
    MaxConns,       \* bound: the connections of the replica
    MaxOutages,     \* bound: the lost connections of all writers
    MaxFailures,    \* bound: the failed queries of the streamers
    MaxMisses,      \* bound: the errors of the replica
    Settled         \* whether the replica has caught up with all at the start

ASSUME ReplicationAssumption ==
    /\ IsFiniteSet(Writers)
    /\ MaxToken \in Nat /\ MaxBatch \in Nat /\ MaxConns \in Nat \ {0}
    /\ MaxOutages \in Nat /\ MaxFailures \in Nat /\ MaxMisses \in Nat
    /\ Settled \in BOOLEAN

VARIABLES
    rows,      \* rows[w][t]: the number of rows that w has written with token t
    str,       \* str[w]: the streamer of w
    outbox,    \* outbox[w]: the commands of w on their way to Redis
    asked,     \* the writers that a REPLICATE command is on its way to
    conn,      \* the last connection of the replica
    up,        \* whether the replica is subscribed
    net,       \* the commands on their way from Redis to the replica
    queue,     \* the queue of the stream in the replica
    work,      \* the POSITION that the replica is processing
    joined,    \* the connections in _streams_by_connection with the stream
    batch,     \* _pending_batches
    tok,       \* tok[w]: the position of w in the replica
    seen,      \* the rows that the replica has processed
    failed,    \* history: the rows that the replica has dropped because of an error
    outages, failures, misses

wvars == <<rows, str, outbox, asked, outages>>
rvars == <<conn, up, net, queue, work, joined, batch, tok, seen, failed>>
vars == <<wvars, rvars, failures, misses>>

Tokens == 0..MaxToken

Row == Writers \X (1..MaxToken) \X (1..MaxBatch)

(* A token of 0 stands for None, the token "batch".                          *)
Rdata == [type : {"RDATA"}, writer : Writers, token : Tokens, row : Row]

Position == [type : {"POSITION"}, writer : Writers, prev : Tokens, new : Tokens]

Streamer == [at : {"idle", "loop", "fetch"}, last : Tokens, from : Tokens, upto : Tokens,
             pending : BOOLEAN, announce : BOOLEAN, link : {"up", "down", "subscribed"}]

Idle == [at |-> "idle"]

Work == [at : {"fetch", "end"}, conn : 1..MaxConns, cmd : Position, from : Tokens]

CurrentToken(w) == Len(rows[w])

-----------------------------------------------------------------------------
(* The processes have started: every writer is about to announce its         *)
(* position, and nobody is connected yet, or all that is done.              *)
Init ==
    /\ rows = [w \in Writers |-> <<>>]
    /\ str = [w \in Writers |-> [at |-> "idle", last |-> 0, from |-> 0, upto |-> 0,
                                 pending |-> FALSE, announce |-> ~ Settled, link |-> "up"]]
    /\ outbox = [w \in Writers |-> <<>>]
    /\ asked = {}
    /\ conn = IF Settled THEN 1 ELSE 0
    /\ up = Settled
    /\ joined = IF Settled THEN {1} ELSE {}
    /\ net = <<>> /\ queue = <<>>
    /\ work = Idle
    /\ batch = {}
    /\ tok = [w \in Writers |-> 0]
    /\ seen = {} /\ failed = {}
    /\ outages = 0 /\ failures = 0 /\ misses = 0

-----------------------------------------------------------------------------
(* The writers.                                                             *)

(* A write with n rows moves the writer's token on; none for an ID that was  *)
(* not used, or for the news of another writer's progress.                  *)
Write(w, n) ==
    /\ CurrentToken(w) < MaxToken
    /\ rows' = [rows EXCEPT ![w] = Append(@, n)]
    /\ UNCHANGED <<str, outbox, asked, outages, rvars, failures, misses>>

(* on_notifier_poke.                                                        *)
Poke(w) ==
    LET s == str[w] IN
    /\ \/ /\ s.link = "down"
          /\ s.last # CurrentToken(w)
          /\ str' = [str EXCEPT ![w].last = CurrentToken(w)]
       \/ /\ s.link # "down"
          /\ s.announce \/ s.last # CurrentToken(w)
          /\ str' = [str EXCEPT ![w].pending = TRUE,
                                ![w].at = IF @ = "idle" THEN "loop" ELSE @]
    /\ UNCHANGED <<rows, outbox, asked, outages, rvars, failures, misses>>

PositionCommand(w, prev, new) ==
    [type |-> "POSITION", writer |-> w, prev |-> prev, new |-> new]

(* send_command: dropped while nothing is connected.                        *)
Send(w, cmds) ==
    outbox' = IF str[w].link = "down" THEN outbox ELSE [outbox EXCEPT ![w] = @ \o cmds]

(* The top of the loop in _run_notifier_loop: announce the position if that  *)
(* is due, then ask for the rows since last_token.                          *)
Loop(w) ==
    LET s == str[w] IN
    /\ s.at = "loop"
    /\ Send(w, IF s.pending /\ s.announce
               THEN <<PositionCommand(w, s.last, s.last)>> ELSE <<>>)
    /\ str' = [str EXCEPT ![w].at = IF ~ s.pending THEN "idle"
                                    ELSE IF s.last = CurrentToken(w) THEN "loop" ELSE "fetch",
                          ![w].from = s.last, ![w].upto = CurrentToken(w),
                          ![w].pending = FALSE,
                          ![w].announce = @ /\ ~ s.pending]
    /\ UNCHANGED <<rows, asked, outages, rvars, failures, misses>>

(* Mutant: every row carries the token.                                      *)
BatchMutant(w, t) ==
    [i \in 1..rows[w][t] |->
        [type |-> "RDATA", writer |-> w, token |-> t, row |-> <<w, t, i>>]]

(* The RDATA commands of the rows of token t: all but the last without it.   *)
Batch(w, t) ==
    [i \in 1..rows[w][t] |->
        [type |-> "RDATA", writer |-> w, token |-> IF i = rows[w][t] THEN t ELSE 0,
         row |-> <<w, t, i>>]]

(* The commands for the rows in from+1..upto, and a POSITION unless the last *)
(* of them has that token.                                                  *)
Updates(w, from, upto) ==
    LET used == {t \in (from + 1)..upto : rows[w][t] > 0}
        lastUsed == Max({from} \cup used)
    IN  FlattenSeq([i \in 1..(upto - from) |-> Batch(w, from + i)])
        \o IF lastUsed < upto THEN <<PositionCommand(w, lastUsed, upto)>> ELSE <<>>

(* get_updates returns the rows up to u: all of them, or fewer if there are  *)
(* too many.  They are sent in one go.                                      *)
Stream(w) ==
    LET s == str[w] IN
    /\ s.at = "fetch"
    /\ \E u \in (s.from + 1)..s.upto :
          /\ Send(w, Updates(w, s.from, u))
          /\ str' = [str EXCEPT ![w].at = "loop", ![w].last = u,
                                ![w].pending = @ \/ u < s.upto]
    /\ UNCHANGED <<rows, asked, outages, rvars, failures, misses>>

(* get_updates raises: the loop ends, and forgets the pokes meanwhile.       *)
StreamFails(w) ==
    /\ str[w].at = "fetch"
    /\ failures < MaxFailures
    /\ failures' = failures + 1
    /\ str' = [str EXCEPT ![w].at = "idle", ![w].pending = FALSE]
    /\ UNCHANGED <<rows, outbox, asked, outages, rvars, misses>>

(* on_REPLICATE.                                                            *)
OnReplicate(w) ==
    /\ w \in asked
    /\ asked' = asked \ {w}
    /\ str' = [str EXCEPT ![w].announce = TRUE]
    /\ UNCHANGED <<rows, outbox, outages, rvars, failures, misses>>

(* The subscription of a writer is lost (lost_connection) ...               *)
WriterLost(w) ==
    /\ str[w].link = "up"
    /\ outages < MaxOutages
    /\ outages' = outages + 1
    /\ str' = [str EXCEPT ![w].link = "down"]
    /\ asked' = asked \ {w}
    /\ UNCHANGED <<rows, outbox, rvars, failures, misses>>

(* ... and made again: _send_subscribe calls new_connection ...             *)
WriterSubscribed(w) ==
    /\ str[w].link = "down"
    /\ str' = [str EXCEPT ![w].link = "subscribed"]
    /\ UNCHANGED <<rows, outbox, asked, outages, rvars, failures, misses>>

(* ... and, once its REPLICATE command is sent, send_positions_to_connection. *)
WriterReplicates(w) ==
    /\ str[w].link = "subscribed"
    /\ str' = [str EXCEPT ![w].link = "up", ![w].announce = TRUE]
    /\ asked' = asked \cup {v \in Writers \ {w} : str[v].link # "down"}
    /\ UNCHANGED <<rows, outbox, outages, rvars, failures, misses>>

-----------------------------------------------------------------------------
(* Redis passes a command on to the replica if it is subscribed.            *)
Publish(w) ==
    /\ outbox[w] # <<>>
    /\ outbox' = [outbox EXCEPT ![w] = Tail(@)]
    /\ net' = IF up THEN Append(net, Head(outbox[w])) ELSE net
    /\ UNCHANGED <<rows, str, asked, outages, conn, up, queue, work, joined, batch, tok, seen,
                   failed, failures, misses>>

-----------------------------------------------------------------------------
(* The replica.                                                             *)

(* _send_subscribe, with the REPLICATE command to the writers.              *)
Subscribe ==
    /\ ~ up /\ conn < MaxConns
    /\ up' = TRUE
    /\ conn' = conn + 1
    /\ asked' = {w \in Writers : str[w].link # "down"}
    /\ UNCHANGED <<rows, str, outbox, outages, net, queue, work, joined, batch, tok, seen, failed,
                   failures, misses>>

(* lost_connection.                                                         *)
Lost ==
    /\ up /\ conn < MaxConns
    /\ up' = FALSE
    /\ net' = <<>>
    /\ joined' = joined \ {conn}
    /\ UNCHANGED <<wvars, conn, queue, work, batch, tok, seen, failed, failures, misses>>

(* Mutant: an old POSITION is discarded on any connection.                   *)
CanDiscardMutant(c, cmd) ==
    cmd.type = "POSITION" /\ cmd.new <= tok[cmd.writer]

(* can_discard_position and is_stream_connected.                            *)
CanDiscard(c, cmd) ==
    cmd.type = "POSITION" /\ cmd.new <= tok[cmd.writer] /\ c \in joined

(* on_RDATA, on_POSITION.                                                   *)
Receive ==
    /\ net # <<>>
    /\ net' = Tail(net)
    /\ queue' = IF CanDiscard(conn, Head(net)) THEN queue
                ELSE Append(queue, [conn |-> conn, cmd |-> Head(net)])
    /\ UNCHANGED <<wvars, conn, up, work, joined, batch, tok, seen, failed, failures, misses>>

(* Mutant: the last token wins.                                              *)
LargerMutant(a, b) == b

(* advance keeps the larger position.                                       *)
Larger(a, b) == IF a > b THEN a ELSE b

(* Mutant: off by one.                                                       *)
OnRdataMutant(w, token, these) ==
    /\ seen' = seen \cup these
    /\ tok' = [tok EXCEPT ![w] = Larger(@, token + 1)]

(* on_rdata: the rows are processed before the position moves.              *)
OnRdata(w, token, these) ==
    /\ seen' = seen \cup these
    /\ tok' = [tok EXCEPT ![w] = Larger(@, token)]

(* _process_rdata.                                                          *)
ProcessRdata ==
    LET cmd == Head(queue).cmd IN
    /\ work = Idle
    /\ queue # <<>> /\ cmd.type = "RDATA"
    /\ queue' = Tail(queue)
    /\ \/ /\ Head(queue).conn \notin joined
          /\ UNCHANGED <<batch, tok, seen>>
       \/ /\ Head(queue).conn \in joined
          /\ cmd.token = 0
          /\ batch' = batch \cup {cmd.row}
          /\ UNCHANGED <<tok, seen>>
       \/ /\ Head(queue).conn \in joined
          /\ cmd.token # 0
          /\ batch' = {}
          /\ IF cmd.token <= tok[cmd.writer]
             THEN UNCHANGED <<tok, seen>>
             ELSE OnRdata(cmd.writer, cmd.token, batch \cup {cmd.row})
    /\ UNCHANGED <<wvars, conn, up, net, work, joined, failed, failures, misses>>

(* _process_rdata raises, and the queue goes on with the next command.  The  *)
(* row could not be parsed, so that the batch misses it, or on_rdata has     *)
(* raised before the position moved, when the batch is no longer pending.   *)
(* (After the position has moved, nothing of this is left to be done.)      *)
RdataFails ==
    LET cmd == Head(queue).cmd IN
    /\ work = Idle
    /\ queue # <<>> /\ cmd.type = "RDATA" /\ Head(queue).conn \in joined
    /\ misses < MaxMisses
    /\ misses' = misses + 1
    /\ queue' = Tail(queue)
    /\ \/ /\ failed' = failed \cup {cmd.row}
          /\ UNCHANGED batch
       \/ /\ tok[cmd.writer] < cmd.token
          /\ failed' = failed \cup (batch \cup {cmd.row})
          /\ batch' = {}
    /\ UNCHANGED <<wvars, conn, up, net, work, joined, tok, seen, failures>>

(* Mutant: prev_token is not looked at.                                      *)
UpToDateMutant(cmd) == tok[cmd.writer] <= cmd.new

(* Whether nothing is missing before a POSITION.                            *)
UpToDate(cmd) == cmd.prev <= tok[cmd.writer] /\ tok[cmd.writer] <= cmd.new

(* _process_position: what is missing is fetched, and meanwhile the stream   *)
(* is not connected.                                                        *)
ProcessPosition ==
    LET c == Head(queue).conn
        cmd == Head(queue).cmd
    IN
    /\ work = Idle
    /\ queue # <<>> /\ cmd.type = "POSITION"
    /\ queue' = Tail(queue)
    /\ IF CanDiscard(c, cmd)
       THEN UNCHANGED <<work, joined, batch>>
       ELSE /\ joined' = {}
            /\ batch' = {}
            /\ work' = [at |-> IF UpToDate(cmd) THEN "end" ELSE "fetch",
                        conn |-> c, cmd |-> cmd, from |-> tok[cmd.writer]]
    /\ UNCHANGED <<wvars, conn, up, net, tok, seen, failed, failures, misses>>

(* The rows after from and up to u, each batch of which goes to on_rdata.    *)
OnUpdates(w, from, u) ==
    LET these == {r \in Row : r[1] = w /\ r[2] \in (from + 1)..u /\ r[3] <= rows[w][r[2]]}
    IN  OnRdata(w, Max({0} \cup {r[2] : r \in these}), these)

(* get_updates_since returns rows up to u, and they are processed.          *)
CatchUp ==
    LET new == work.cmd.new IN
    /\ work.at = "fetch"
    /\ \E u \in IF work.from < new THEN (work.from + 1)..new ELSE {new} :
          /\ OnUpdates(work.cmd.writer, work.from, u)
          /\ work' = [work EXCEPT !.at = IF u < new THEN "fetch" ELSE "end", !.from = u]
    /\ UNCHANGED <<wvars, conn, up, net, queue, joined, batch, failed, failures, misses>>

(* _process_position raises: in the query, in one of the batches, of which   *)
(* those up to u are done, or in on_position before or after the position   *)
(* has moved.  The stream stays unconnected, and the queue goes on.         *)
PositionFails ==
    /\ work # Idle
    /\ misses < MaxMisses
    /\ misses' = misses + 1
    /\ work' = Idle
    /\ \/ /\ work.at = "fetch"
          /\ \E u \in work.from..work.cmd.new : OnUpdates(work.cmd.writer, work.from, u)
       \/ /\ work.at = "end"
          /\ OnRdata(work.cmd.writer, work.cmd.new, {})
       \/ UNCHANGED <<tok, seen>>
    /\ UNCHANGED <<wvars, conn, up, net, queue, joined, batch, failed, failures>>

(* on_position, and the stream is connected.                                *)
PositionDone ==
    /\ work.at = "end"
    /\ OnRdata(work.cmd.writer, work.cmd.new, {})
    /\ joined' = joined \cup {work.conn}
    /\ work' = Idle
    /\ UNCHANGED <<wvars, conn, up, net, queue, batch, failed, failures, misses>>

-----------------------------------------------------------------------------
Next ==
    \/ \E w \in Writers, n \in 0..MaxBatch : Write(w, n)
    \/ \E w \in Writers : \/ Poke(w) \/ Loop(w) \/ Stream(w) \/ StreamFails(w) \/ OnReplicate(w)
                          \/ WriterLost(w) \/ WriterSubscribed(w) \/ WriterReplicates(w)
                          \/ Publish(w)
    \/ Subscribe \/ Lost \/ Receive
    \/ ProcessRdata \/ RdataFails
    \/ ProcessPosition \/ CatchUp \/ PositionFails \/ PositionDone

Spec == Init /\ [][Next]_vars

(* Every process goes on, and connections are made again.  That a poke       *)
(* always follows holds of the event stream, which is poked every second.   *)
Fairness ==
    /\ \A w \in Writers : /\ WF_vars(Poke(w)) /\ WF_vars(Loop(w)) /\ WF_vars(Stream(w))
                          /\ WF_vars(OnReplicate(w)) /\ WF_vars(Publish(w))
                          /\ WF_vars(WriterSubscribed(w)) /\ WF_vars(WriterReplicates(w))
    /\ WF_vars(Subscribe) /\ WF_vars(Receive) /\ WF_vars(ProcessRdata)
    /\ WF_vars(ProcessPosition) /\ WF_vars(CatchUp) /\ WF_vars(PositionDone)

LiveSpec == Spec /\ Fairness

-----------------------------------------------------------------------------
Commands == Rdata \cup Position

(* Every variable keeps its type.                                           *)
TypeOK ==
    /\ rows \in [Writers -> Seq(0..MaxBatch)] /\ \A w \in Writers : CurrentToken(w) \in Tokens
    /\ str \in [Writers -> Streamer]
    /\ outbox \in [Writers -> Seq(Commands)]
    /\ asked \subseteq Writers
    /\ conn \in 0..MaxConns /\ up \in BOOLEAN
    /\ net \in Seq(Commands)
    /\ queue \in Seq([conn : 1..MaxConns, cmd : Commands])
    /\ work \in Work \cup {Idle}
    /\ joined \subseteq 1..MaxConns
    /\ batch \subseteq Row /\ seen \subseteq Row /\ failed \subseteq Row
    /\ tok \in [Writers -> Tokens]
    /\ outages \in Nat /\ failures \in Nat /\ misses \in Nat

(* The replica's position of a writer never passes a row that it has not      *)
(* processed, or tried to: on_rdata moves it only "after                     *)
(* process_replication_rows to ensure any cache invalidations are first      *)
(* handled before any stream ID advances".  A row is let go only by an error *)
(* in its own processing, or in that of its batch.                           *)
NoRowSkipped ==
    \A w \in Writers : \A t \in 1..tok[w] :
        t <= Len(rows[w]) /\ \A i \in 1..rows[w][t] : <<w, t, i>> \in seen \cup failed

(* A batch is never applied in part: of the rows with one token the replica   *)
(* has processed none, or all but those it has failed to process.            *)
BatchesAreWhole ==
    \A w \in Writers : \A t \in 1..Len(rows[w]) :
        \/ \A i \in 1..rows[w][t] : <<w, t, i>> \in seen \cup failed
        \/ \A i \in 1..rows[w][t] : <<w, t, i>> \notin seen

(* The replica's positions never go back, whatever arrives late or twice.    *)
PositionsMoveForwards == [][\A w \in Writers : tok[w] <= tok'[w]]_vars

(* The position of every write is reached in the end, and as long as no      *)
(* writer loses its connection every row is processed by then, whatever the  *)
(* replica's connections lose and whichever queries of the streamer fail.    *)
(* This is of a replica without errors (MaxMisses = 0): after one, the row   *)
(* is let go, or the stream waits for a POSITION that nobody asks for.       *)
RowsArrive ==
    \A w \in Writers, t \in 1..MaxToken :
        Len(rows[w]) >= t ~>
            /\ tok[w] >= t
            /\ outages = 0 => \A i \in 1..rows[w][t] : <<w, t, i>> \in seen

-----------------------------------------------------------------------------
(* The inductive invariant behind NoRowSkipped and BatchesAreWhole, for one  *)
(* writer whose connection is never lost.  The commands on their way form a  *)
(* pipe: the queue, what Redis has passed on, and the outbox, whose commands *)
(* the replica will get on connection EndTag.                               *)

(* None of the tokens after n and up to m has a row; rws are the rows of a   *)
(* writer.                                                                  *)
Empty(rws, n, m) == \A t \in (n + 1)..m : rws[t] = 0

(* A command of w tells the truth about its rows.                           *)
Sound(w, rws, cmd) ==
    /\ cmd.writer = w
    /\ cmd.type = "RDATA" =>
          \E t \in 1..Len(rws) : \E i \in 1..rws[t] :
             cmd.row = <<w, t, i>> /\ cmd.token = IF i = rws[t] THEN t ELSE 0
    /\ cmd.type = "POSITION" => cmd.new <= Len(rws) /\ Empty(rws, cmd.prev, cmd.new)

(* A command comes next for who has all rows up to token n and the rows of b *)
(* that follow it.                                                          *)
Follows(w, rws, n, b, cmd) ==
    IF cmd.type = "RDATA"
    THEN /\ b = {<<w, cmd.row[2], i>> : i \in 1..(cmd.row[3] - 1)}
         /\ Empty(rws, n, cmd.row[2] - 1)
    ELSE b = {} /\ Empty(rws, n, cmd.new)

(* Whether a command leaves a batch open, and the token it reaches if not.   *)
Open(cmd) == cmd.type = "RDATA" /\ cmd.token = 0

Reaches(cmd) == IF cmd.type = "RDATA" THEN cmd.token ELSE cmd.new

(* Command d comes right after command c.                                   *)
Link(w, rws, c, d) ==
    IF Open(c)
    THEN d.type = "RDATA" /\ d.row = <<w, c.row[2], c.row[3] + 1>>
    ELSE Follows(w, rws, Reaches(c), {}, d)

(* Commands without a gap from token n to token m.                          *)
Segment(w, rws, n, cmds, m) ==
    /\ \A i \in 1..Len(cmds) : Sound(w, rws, cmds[i])
    /\ \A i \in 1..(Len(cmds) - 1) : Link(w, rws, cmds[i], cmds[i + 1])
    /\ IF cmds = <<>>
       THEN Empty(rws, n, m)
       ELSE /\ Follows(w, rws, n, {}, cmds[1])
            /\ ~ Open(cmds[Len(cmds)])
            /\ Empty(rws, Reaches(cmds[Len(cmds)]), m)

Tagged(cmds, c) == [i \in 1..Len(cmds) |-> [conn |-> c, cmd |-> cmds[i]]]

EndTag == IF up THEN conn ELSE conn + 1

Pipe(w) == queue \o Tagged(net, conn) \o Tagged(outbox[w], EndTag)

(* The commands of one connection follow each other without a gap, and those *)
(* of connection e, the last, lead to token l.                              *)
Gapless(w, rws, p, e, l) ==
    /\ \A i \in 1..Len(p) : p[i].conn <= e /\ Sound(w, rws, p[i].cmd)
    /\ \A i \in 1..(Len(p) - 1) :
          /\ p[i].conn <= p[i + 1].conn
          /\ p[i].conn = p[i + 1].conn => Link(w, rws, p[i].cmd, p[i + 1].cmd)
    /\ p # <<>> /\ p[Len(p)].conn = e =>
          ~ Open(p[Len(p)].cmd) /\ Empty(rws, Reaches(p[Len(p)].cmd), l)

(* Whoever has all rows up to token n and the rows of b that follow it       *)
(* misses nothing by going on with the commands of connection c.            *)
Cursor(w, rws, p, e, l, c, n, b) ==
    IF p = <<>>
    THEN c = e => b = {} /\ Empty(rws, n, l)
    ELSE c <= p[1].conn /\ (c = p[1].conn => Follows(w, rws, n, b, p[1].cmd))

(* Of the rows of w, those up to token n are all done.                      *)
Covered(w, rws, done, n) ==
    n <= Len(rws) /\ \A t \in 1..n : \A i \in 1..rws[t] : <<w, t, i>> \in done

(* A streamer is never ahead of its writer.                                 *)
FetchInv ==
    \A w \in Writers : str[w].last <= CurrentToken(w) /\ str[w].upto <= CurrentToken(w)

(* Commands are on their way to a replica that is subscribed only.          *)
ConnInv == (up => conn # 0) /\ (net # <<>> => up)

(* A connected streamer fetches what follows the rows it has sent.          *)
StreamerInv(w) == str[w].link = "up" /\ (str[w].at = "fetch" => str[w].from = str[w].last)

(* What is on its way leaves no gap.                                        *)
PipeInv(w) ==
    /\ Gapless(w, rows[w], Pipe(w), EndTag, str[w].last)
    /\ \A i \in 1..Len(queue) : queue[i].conn <= conn

(* The rows that the replica has dealt with, and those it has received.      *)
Handled == seen \cup failed

Taken == Handled \cup batch

(* A connection that has the stream goes on where the replica is: it has      *)
(* taken all rows up to some token n, and the rows b of an open batch.  Both *)
(* may be ahead of its position, after errors.                               *)
JoinedInv(w) ==
    /\ \A c \in joined : c <= conn
    /\ \E n \in 0..Len(rows[w]), b \in SUBSET Taken :
          /\ Covered(w, rows[w], Taken, n)
          /\ \A r \in batch : r \in b \/ r[2] <= n
          /\ \A c \in joined : Cursor(w, rows[w], Pipe(w), EndTag, str[w].last, c, n, b)

(* The POSITION that is being processed: nothing else is connected, and what *)
(* was fetched so far is complete.                                          *)
WorkInv(w) ==
    work # Idle =>
        /\ joined = {} /\ batch = {}
        /\ work.conn <= conn
        /\ Sound(w, rows[w], work.cmd)
        /\ Covered(w, rows[w], Handled, work.from)
        /\ work.at = "end" => Covered(w, rows[w], Handled, work.cmd.new)
        /\ Cursor(w, rows[w], Pipe(w), EndTag, str[w].last, work.conn, work.cmd.new, {})

(* What the replica has processed are rows that exist, and it has dealt with *)
(* all of them up to its position.                                          *)
SeenInv(w) ==
    /\ Covered(w, rows[w], Handled, tok[w])
    /\ \A r \in seen : r[1] = w => r[2] <= Len(rows[w])

(* All of it together.                                                      *)
ReplicaInv ==
    /\ FetchInv /\ ConnInv /\ BatchesAreWhole
    /\ \A w \in Writers : StreamerInv(w) /\ PipeInv(w) /\ JoinedInv(w) /\ WorkInv(w) /\ SeenInv(w)

=============================================================================
