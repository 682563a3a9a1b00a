# A verification project for Setka Matrix

Setka Matrix is a Matrix homeserver: Synapse, run as several worker processes
over one Postgres database, with the Setka handlers on top (paid subscriptions,
promo codes, bots, channels, a feed, login verification). This directory holds
TLA+ models of its core logic, the TLC runs that check them and the TLAPS proofs
about them. `PROJECT.json` maps every definition to the source lines it stands
for, and lists components, runs, mutants, findings, hazards and theorems.

Paths below are relative to the repository, which is itself the `synapse` package.

## 1. Inventory

| Component | State | Operations | What is hard | What makes it correct | Here |
|---|---|---|---|---|---|
| Stream ID generators, `storage/util/id_generators.py` | per process: position of each writer, unfinished and finished IDs, fetches in flight, persisted position; shared: sequence, `stream_positions` | allocate, finish, advance, load at start | threads of one process, several processes, gaps, crashes between commit and bookkeeping | no row ever appears behind a position that was given out; every row becomes visible | `MultiWriterIdGen` |
| Stream replication, `replication/tcp/` | last token sent, connections, batches, queues | poke loop, RDATA, POSITION, catch-up | lost, late, repeated commands; reconnects; several writers on one stream | no replica passes a row it has not processed; every row arrives | `StreamReplication` |
| Setka Plus vouchers, `handlers/setka_plus.py` | voucher rows, redemption rows, subscription and payment list of a user | create, update, withdraw, redeem | limit checks that race, retried transactions, steps after the commit | no redemption beyond the limits, counter and rows agree, no time without a redemption | `SetkaVouchers` |
| Setka Plus payments, same file | payment list, subscription, pending PayAnyWay users in memory | start a payment, provider callbacks, browser returns | repeated and late callbacks, read-await-write of account data | no time beyond the reports of payments, nothing unpaid is shown as paid | `SetkaPayments` |
| Database transactions, `storage/database.py`, `storage/engines/postgres.py` | attempts, callbacks | run, retry, roll back | serialization failures, ambiguous commits, callbacks of failed attempts | as if run once | the retry loop, in `SetkaVouchers` |
| Login verification, `handlers/setka_login.py` | challenges, verified devices, recovery backup in one document | send, verify, store and delete a backup | read-await-write of the whole document | attempts are bounded, a deleted backup stays deleted | planned |
| Bots, `handlers/setka_bots.py` | bots, update queue, next update id | enqueue, poll, webhook, invites | two events at once, a webhook that fails | ids are unique and without gaps, no update is lost | planned |
| Channels and feed, `handlers/setka_channels.py`, `setka_feed.py` | registry, posts, likes, views, counters | publish, hide, ingest, like, view | counters beside rows | counters agree with the rows | planned |
| Email and phone binding, `handlers/setka_threepid.py`, `setka_sydent.py`, `setka_profile.py` | sessions, bindings, profile flags | request, submit, confirm, remove | external identity server | flags agree with the bindings | planned |
| Worker locks, `handlers/worker_lock.py`, `storage/databases/main/lock.py` | leases, tokens, read/write rows, waiters | acquire, renew, release, reap, notify | expiry while held, crashes, several locks at once, tasks of one process | mutual exclusion while renewed; waiters get in | `LeaseLock`, `WorkerLocks`, `ReadWriteLocks` |
| Task scheduler, `util/task_scheduler.py` | rows with a status, tasks running here, one launcher | schedule, launch, resume, update, end, delete | lists that are stale, a limit of places, failed updates, restarts | a task runs once at a time, within the limit, and ends | `TaskScheduler` |
| Persistence queue, `Linearizer`, federation queues | queues and loops | | wake-ups, cancellation, back-off | progress, order | planned |
| Event authorisation, state resolution, sync, REST, media, configuration | | | | | not modelled |

The processes share the database and tell each other about new rows over Redis.
A write takes an ID from the sequence, commits its rows, marks the ID as
finished and pokes the replication streamer, which announces the new position;
the other processes advance their generators and wake the clients that wait for
news. The Setka handlers call the store and the account data handler; the
latter's writes go through the same streams.

## 2. The modules

The modules stand one per component. `StreamReplication` builds on what
`MultiWriterIdGen` establishes (the rows up to a writer's token are committed);
`WorkerLocks` implements the abstract `LeaseLock`; the others are independent.
Each is parameterised by sets of processes, requests and so on and has an
`MC...` module that adds only symmetry sets and the functions of an instance,
and a `...Proofs` module with its theorems. `ExtremaTheorems` holds what several
proofs need of least and greatest numbers (`Min` and `Max` of the community
modules, and the least number that has a property).

### MultiWriterIdGen

One process has one generator. `gen[n]` is the memory of process n:

| Model | Code |
|---|---|
| `cur`, `finished`, `upto`, `known` | `_current_positions`, `_finished_ids`, `_persisted_upto_position`, `_known_persisted_positions` |
| `maxSeen`, `maxLocal` | `_max_seen_allocated_stream_id`, `_max_position_of_local_instance` |
| `Unfinished(w)`, `InFlight(w)` | `_unfinished_ids`, `_in_flight_fetches`, derived from where the tasks are |
| `seq`, `positions`, `rows` | the Postgres sequence, the table `stream_positions`, the rows of the stream with their instance name |
| `sent` | RDATA and POSITION commands on the bus; a set, so a command may be late, overtaken, repeated or never delivered |

A write is a task that goes through `FetchStart`, `NextVal` (one sequence value
at a time: a batch is not atomic), `Register`, `FetchEnd`, `Commit` or
`Rollback`, `MarkFinished`, `ReadPosition`, `Upsert`. Each of these is one
section under the generator's lock or one database statement, so anything of
any other task or process may happen between two of them. `Announce` and
`Advance` are the streamer and `advance()`; `Crash`, `Start` and
`LoadCurrentIds` are the death of a process and `__init__` with
`_load_current_ids`. `FetchFail` is a failing sequence query.

`AddPersistedPosition` is the loop of `_mark_ids_as_finished` over
`_add_persisted_position`, for a whole batch at once; the order of the code (the
local maximum is raised before the run of known positions is skipped) is kept.

Abstractions: the IDs are positive (a negative stream only negates what it
returns); there is a list of writers and a Postgres database; the load at a
start is one step; a task makes one attempt (a transaction that is retried while
it holds IDs is not modelled); the sequence is not corrected at start.

Two start conditions appear. In `Spec` a process starts only while no other
writer has an ID in progress, or, when it is a reader, while every writer that
has one also has a row in `stream_positions` (`QuietFor`). Nothing in the code
enforces this. `SpecStoredStart` is the same system with starts whenever every
other writer has a row.

### SetkaVouchers

`req[r]` is one call of `redeem_voucher`, with a program point per statement of
its transaction and per await after it; `adm[a]` one call of `update_voucher` or
`delete_voucher`, which read the voucher, await and write. `Select` is the two
SELECTs on one snapshot with all checks, `Insert` and `Increment` the writes,
`Commit` the commit, `Retry` the serialization failure with the loop of
`new_transaction`; `Activate`, `ReadSubscription` and `Extend` are the time, the
read and the write of `activate_subscription`, `ListPayments`/`RecordPayment` the
read and the write of `record_payment`. `Crash` loses a request at any point.
`raced` is history: the account data of a user that one request has read while
another was about to write it. Then an extension or a record is really lost,
as nothing locks account data; `RedemptionsAreKept` says that this is the only
way to lose one.

Postgres is modelled from how the code uses it: under REPEATABLE READ, which
`PostgresEngine` sets as default, an UPDATE of a row that changed after the
snapshot fails (`stale`), a row lock is held until the end of the transaction
(`RowLocked`), an INSERT waits for an uncommitted row with its key (`KeyLocked`)
and a duplicate key is an error that is not retried.

Abstractions: plans, prices, notes and analytics are left out; every voucher is
worth `Days`; time is a small counter; the list of payments is the set of
vouchers in it, as at most one payment per voucher and user exists. Other
sources of subscription time (payments, an administrator) are not in the model.

### StreamReplication

One stream, its writers and one replica. A writer's streamer `str[w]` is where
`_run_notifier_loop` is, its `last_token`, the two flags `pending_updates` and
`_should_announce_positions`, and its subscription. `Poke`, `Loop` and `Stream`
are `on_notifier_poke` and the loop up to and after the await of `get_updates`;
`Updates` is what is sent for a range of tokens: batches whose rows but the last
carry no token, and a POSITION when the range ends in unused IDs. `Publish` is
Redis (external): a command reaches the replica if that is subscribed at that
moment. In the replica `Receive` is `on_RDATA`/`on_POSITION`, `queue` the queue
of the stream with the connection of each command, `ProcessRdata`,
`ProcessPosition`, `CatchUp` and `PositionDone` are `_process_rdata` and
`_process_position` around the await of `get_updates_since`, `joined` is
`_streams_by_connection` and `batch` `_pending_batches`. `Lost` and `Subscribe`
are the replica's connections, `WriterLost`, `WriterSubscribed` and
`WriterReplicates` those of a writer, `StreamFails` a failing query of the
streamer. `RdataFails` and `PositionFails` are errors in the replica: a row that
cannot be parsed, a query of `on_rdata`, of the catch-up or of `on_position` that
raises. `BackgroundQueue` logs the error and goes on with the next command. After
`RdataFails` the stream is still connected, so the next RDATA moves the position
past rows that were never processed, although `on_rdata` takes care to move it
last; `failed` is the history of the rows let go in this way. After
`PositionFails` the stream stays unconnected until the next POSITION.

Abstractions: a writer's tokens are numbered on their own; a limited query stops
at any token; the batches of one query are applied in one step (the queue of the
stream admits nothing in between); the caches stream's rule not to announce
positions, streams that live in memory and can be reset, and the loss of the
outbound connection alone are left out.

### WorkerLocks, LeaseLock

`row` is the row of one lock in `worker_locks`, with an age in place of
`last_renewed_ts`; `live[p]` the `Lock` a process has registered; `task[t]` a
`WaitingLock` with its point, the `Lock` and the age it has read and the time
since. Tasks start at their first attempt. `Try`, `IsStillValid`, `Judge` and
`Upsert` are the parts of `_try_acquire_lock`: `is_still_valid` reads the row,
awaits, and only then reads the clock (`Judge`). `WakeUp` and `Retry` are the two
ways a wait ends, `Renew` the looping call, `Exit`, `Release` and `Pop` the exit
of the context manager around its awaits, `OnLockReleased` a notice, `Crash` the
death of a process and `Tick` the clocks. `OnShutdown`, `ShutdownDelete` and
`ShutdownPop` are `_on_shutdown` with the two halves of `release()`, between which
tasks of the process go on.

*The margin.* A renewal that lands between the read of the row and that of the
clock makes the code judge a renewed lock invalid, and go on to take it. A lock is
therefore counted as renewed in time if its row never came within `MaxDelay`, the
longest time a statement takes, of `Timeout`; `lapsed` is the history of the
holders of whom that is not true. The code renews after 30 of its 120 seconds.

`LeaseLock` is the promise of the class docstring, "the instance that holds that
token holds the lock until it drops (or times out)". The mapping takes as its
holder whoever has the row, and as over every hold that was dropped, timed out,
or ended with its process (`Over`). The code does not keep the promise inside a
process: `release()` pops the registration without looking whose it is, so when a
lock changes hands inside a process the late pop of the old holder removes the
registration of the new one, and a third task of that process then takes a lock
that is held and renewed. `LeaseLock` has an action of its own for that,
`Overtake`; the refinement says that nothing else ever takes a lock from its
holder, in particular no other process. `Overtake` needs three tasks of one
process and does not occur in the instance of `LocksLease`; with all three tasks
in one process TLC meets it in a trace of twelve states.
`__aexit__` sends its notice before the row is deleted; a waiter may be woken
too early and sleep again.

### ReadWriteLocks

The rows of `worker_read_write_locks` with their ages, and tasks that want one
lock or several. `Conflict` is what the constraints of the two tables refuse;
`Acquire` inserts all rows a task wants in one transaction or none (`Refused`);
`Reap` removes rows that were not renewed. Notices only shorten a wait, which
`Retry` may end at any time. Left out: deadlocks the database detects (a retry
of the transaction) and the truncation of the unlogged tables in a database
crash.

### SetkaPayments

The orders of one user with the three providers. `Create` records an order and
marks the subscription as pending, `Callback` is a report of a payment, repeated
at will, for a user that it names or that the index knows; `AnswerFail` is a
PayAnyWay report of which neither is true, which is answered FAIL and changes
nothing. `Process` is a payment the server asks YooMoney for; one that is refused
is recorded under its request id, apart from the operation (`Entry`). `FailReturn`
is a browser that returns to the failure page. Each request goes through the reads and writes
of account data one at a time (`Activate`/`Extend`, `GetPayments`/`RecordPayment`,
`GetSubscription`/`SetSubscription`). `index` is the map of pending PayAnyWay
users, which only lives in memory: `Restart` empties it, and so does, for one
order, a failure that is recorded; a callback that does not name the user is then
answered FAIL, and a paid order is not shown as paid because of it. `solo` and `last` are history: whether
requests have overlapped, and the last request about an order. Signatures,
prices, pages and the read-only check URL are left out.

### TaskScheduler

`status` and `order` are the table: the status of each row, and the rows that
are due, by timestamp. `running` is `_running_tasks`, `alive[t]` the wrappers of
a task under way, `launcher` the one `inner()` of `_launch_scheduled_tasks` with
the list it has read. `GetTasks` reads a list, `LaunchTask` and `StartTask` go on
through it to the next task to start (`Walk`, `PassedOver`), `SetActive` is the
update in between; `StoreResult` and `Finish` are the end of a wrapper around its
await; `StartFails` and `StoreFails` are updates that raise, which leave the task
in `_running_tasks` for good; `GetTask`/`DeleteTask` is `delete_task`. The
timer may call the launcher at any time, so what else calls it is left out.
`CleanScheduledTasks` reads the rows that have been over for a week, by when their
wrappers have ended and the launcher's lists are newer; `CleanTask` takes the next
one, whose row it deletes, or for which its assertion fails, which ends it. The
list is a set: its order does not matter to the properties. `UpdateTask` is what
functions do with `update_task`: all of them give only a result. Staging a task by
setting it back to SCHEDULED has no caller, and is left out.

What the model shows besides its properties: a task that ends after the launcher
has read it as active is run a second time and set to active again, although
`update_task` calls COMPLETE and FAILED terminal; a failed update costs a place
until the restart; a task of an unknown action ends the launcher every time
before it reaches the tasks behind; when the second run of an ended task fails to
start, the assertion of the clean-up ("FAILED and COMPLETE tasks should never be
running") fails on every clean until a restart, and the rows behind are kept.

## 3. Runs

| Run | Instance | Checks |
|---|---|---|
| `StreamIdsWriters` | 2 writers with 2 tasks, batches of up to 2, IDs 2 and 3, a reader, 1 crash | `TypeOK`, `IInv`, `PersistedUptoIsStable`, `WriterTokenIsStable`, `NoRowBehindAToken`, `TokensMoveForwards` |
| `StreamIdsLive` | 2 writers, 2 IDs, 1 crash, fairness | `RowsBecomeVisible` |
| `StreamIdsStoredStart` | 2 writers, starts once the others have rows | `PersistedUptoIsStable`, violated |
| `VouchersLimits` | 2 users, 1 code, 3 requests, 1 administrator, limits 1 and 2, 1 retry, 1 crash | `TypeOK`, `CountMatchesRows`, `ReservationInv`, `RedeemedWithinLimits` |
| `VouchersLive` | 2 users, 2 codes, 2 requests, 1 retry, 1 crash, fairness | `NoTimeWithoutRedemption`, `TimeInv`, `RedemptionsAreKept`, `KeptInv`, `CallsReturn`, `RedemptionsAreGranted` |
| `LocksLease` | 2 tasks in one process, 1 in another, timeout 3, delays of 1, 1 shutdown, fairness | `RegisteredLockIsKept`, `LockInv`, `LeaseSpec` (refinement), `WaitersGetIn` |
| `RWLocks` | a writer and a reader of 2 locks in one process, a reader of 1 in another, fairness | `WritersAreAlone`, `RWInv`, `NobodyWaitsForEver` |
| `Payments` | 2 PayAnyWay orders and a YooMoney order, 4 requests, 1 restart | `TimeMatchesReports`, `ShownPaidIsPaid`, `PaidIsShown`, `PendingIsKnown`, `OrderInv` |
| `ReplicationOneWriter` | 1 writer, 2 tokens, batches of up to 2, 2 connections, a failed query of the streamer, an error of the replica | `TypeOK`, `NoRowSkipped`, `BatchesAreWhole`, `ReplicaInv`, `PositionsMoveForwards` |
| `ReplicationLive` | 1 writer, 2 tokens, 2 connections, an outage of the writer, a failed query of the streamer, fairness | `RowsArrive` |
| `ReplicationBatches` | 2 writers with 1 token each, batches of up to 2, no faults | `NoRowSkipped`, violated |
| `Tasks` | 3 tasks, one of an unknown action, 2 places, 1 failed update, 1 restart, fairness | `TaskInv`, `RunsAreBounded`, `CleanedIsNotRunning`, `TasksEnd` |

Bounds. `MaxId` bounds the sequence (the first ID is 2), `MaxBatch` the IDs of a
write, `MaxCrashes` the crashes; for the vouchers `MaxTime` bounds the clock and
`Retries` stands for the 5 attempts of the code. Two writers are enough for the
minimum over the *other* writers to matter, two tasks in one writer for a fetch
in flight to race a finishing write, batches of two for a run of positions to be
completed inside one batch. Two
users and three requests make both races for a voucher happen, of one user and
of two; with one retry every request meets success, retry and exhaustion.
For the locks, two tasks of one process and one of another cover takeovers
inside a process and between two; `Timeout` is 3 ticks and `MaxDelay` 1, so that
a lock lives on when it is renewed at every tick, has lapsed at the second tick
without a renewal, and is taken by the other process from the fourth: renewing in
time, judging too late and losing the lock under a task that believes in it all
happen. Two overlapping tasks with two locks each could deadlock if acquisition were
not all or nothing. Four requests let two orders be made and a report race
another report or a failure return, or one order be made, fail, be reported and
be reported again; two PayAnyWay orders are in the index together. Two connections let the replica lose one,
miss commands and come back; batches of two have a first row without a token.
Two places and three tasks fill the scheduler. What
the bounds leave open for safety, the proofs close.
Deadlock checking is off: the systems stop when the bounds are used up or
nobody has anything to write.

Every property has a mutant of a modelled operation that breaks it: a forgotten
write in progress, a fetch in flight that is not counted, an upsert that
overwrites, an announcement that moves a position back, a token that is not
announced, a counter written back as read, READ COMMITTED in place of REPEATABLE
READ, a retry taken for a success.

### What the violations show

* `StreamIdsStoredStart`, against the docstring of
  `get_persisted_upto_position` ("Get the max position where all previous
  positions have been persisted"): all writers have rows, and a writer restarts
  while another one has an ID in progress. It takes that ID for its own position
  (`last_value`) and announces it. A process that knows every position before
  it as persisted adds it to the run and moves past it. Readers that have been
  given such a position never see the row. A writer without a row of its own
  makes this worse: a starting process takes `last_value` for that writer, too.
* `ReplicationBatches`, against the comment in `_process_position` that "the
  fetching of the missing updates below will fetch all rows in the batch": the
  first row of a batch of writer 1 has arrived, then a POSITION of writer 2
  clears the pending batch of the stream and fetches, if anything, the updates
  of writer 2. The last row of the batch moves the position of writer 1 past
  the row that was thrown away, and the caches of the replica keep what it would
  have invalidated. The passing run is therefore limited to one writer.

## 4. Fairness

`MultiWriterIdGen!Fairness`: weak fairness of every started write (the reactor
and the database threads run it to its end), of announcing (the streamer is
poked after each write, and every second while a process writes events), of
delivery and of restarting a process that is down. Nobody is obliged to begin a
write, to roll back or to crash. Failing sequence queries are left out of
`FairSpec`: after one, nothing recomputes the writer's position until its next
write or announcement, so visibility may wait for that.

`SetkaVouchers!FairSpec`: weak fairness of every request that has begun. A
statement that waits for a lock continues when the holder commits or is rolled
back; the model needs no fairness of administrators or of the clock.

`WorkerLocks!FairSpec`, `ReadWriteLocks!FairSpec`: time passes, statements of a
living task return, its waits time out and its work under the lock ends; some
process reaps (the reaper is a looping call). Nobody is obliged to renew, and
notices may be lost.

`StreamReplication!Fairness`: the streamer goes on while something is to be
sent, which for the event stream the poke every second guarantees; Redis
delivers, connections are made again, queries return. Errors of the replica are
left out of `ReplicationLive`: after one the stream may stay unconnected until the
writer has reason to send a POSITION, so a row may wait for that, or the row is
let go. With an outage of the writer `RowsArrive` asks only for the position: the
rows discarded meanwhile may never be processed (section 5).

`TaskScheduler!Fairness`: the timer calls the launcher, queries return, tasks
come due and end.

## 5. Proofs

For every value of the constants that satisfies the assumptions (there is a
writer, writers and readers are disjoint; every task has a process and every
order a provider; bounds are natural numbers, limits and the lock timeout of
`worker_locks` are positive):

| Theorem | States |
|---|---|
| `Invariance` | `Spec => []IInv` |
| `TypeCorrect` | `Spec => []TypeOK` |
| `PersistedUptoStable` | `Spec => []PersistedUptoIsStable` |
| `WriterTokenStable` | `Spec => []WriterTokenIsStable` |
| `NoLateRow` | `Spec => NoRowBehindAToken` |
| `TokensNeverMoveBack` | `Spec => TokensMoveForwards` |
| `ReplicationTypes` | `Spec => []TypeOK` of the replication |
| `PositionsNeverMoveBack` | `Spec => PositionsMoveForwards` |
| `ReplicaInvariant` | `Spec => []ReplicaInv`, for one writer that keeps its connection |
| `OneWriterSkipsNoRow` | `Spec => []NoRowSkipped`, for the same |
| `OneWriterBatchesWhole` | `Spec => []BatchesAreWhole`, for the same |
| `Reservations` | `Spec => []ReservationInv` |
| `CountIsExact` | `Spec => []CountMatchesRows` |
| `VoucherTypes` | `Spec => []TypeOK` of the vouchers |
| `NoStaleRedemption` | `Spec => RedeemedWithinLimits` |
| `TimeIsCovered` | `Spec => []TimeInv` |
| `NoFreeTime` | `Spec => []NoTimeWithoutRedemption` |
| `GivenIsKept` | `Spec => []KeptInv` |
| `NoRedemptionLost` | `Spec => []RedemptionsAreKept` |
| `LocksInvariant` | `Spec => []LockInv` |
| `LockIsKept` | `Spec => []RegisteredLockIsKept` |
| `LockIsALease` | `Spec => LeaseSpec`: `WorkerLocks` implements `LeaseLock` |
| `RowsAreKept` | `Spec => []RWInv` |
| `ReadXorWrite` | `Spec => []WritersAreAlone` |
| `PaymentsInvariant` | `Spec => []PaidInv` |
| `OnlyPaidIsShown` | `Spec => []ShownPaidIsPaid` |
| `OrdersInvariant` | `Spec => []OrderInv` |
| `TimeIsReported` | `Spec => []TimeMatchesReports` |
| `ReportIsShown` | `Spec => []PaidIsShown` |
| `PendingOrdersAreKnown` | `Spec => []PendingIsKnown` |
| `SchedulerInvariant` | `Spec => []TaskInv` |
| `RunsBounded` | `Spec => []RunsAreBounded` |

**Streams.** That the persisted position of each process is below every pending
ID is not inductive: the position is computed from what a process believes about
the others, from a set of known positions, from announcements that are still on
the bus and from `stream_positions`. `IInv` therefore says of a pending ID that
*nobody* claims it (`Unclaimed`): it is in no set of known or finished IDs, no
announcement carries it, every claim about its own writer (positions, tokens,
stored rows, values about to be stored, announcements) is below it, and every
other writer's own position differs from it. With it go that no two tasks hold
the same ID and that a fetch's snapshot is below the IDs it draws (`TaskInv`),
that nothing is beyond the sequence (`BoundInv`), and that a process that is
down has no task (`DownIdle`). The argument rests on three lemmas about the
helpers: `RunEndIsRun` (a run of known positions cannot pass an unknown one),
`MinCurrBound` (the minimum over the writers includes the one that holds the ID)
and `AddPersistedStep`, which combines them; then one lemma per action. A start
is where `QuietFor` is used, and the violated run shows that it is needed.
That tokens only move forwards is proved with the same lemmas: each step of a
running process leaves its generator `NotBehind` the old one (for a finished
write this needs that a pending ID is above the position it replaces), and the
upsert takes a maximum.

**Replication.** `NoRowSkipped` is not inductive: when the last row of a batch
moves the position, nothing in it says that the rows before it are in `batch`,
and when a POSITION makes the stream connected, nothing says that the commands
already queued go on from there. `ReplicaInv` speaks of everything on its way as
one *pipe* (`Pipe`): the queue of the stream, what Redis has passed on, and the
outbox, whose commands will come on the connection after the present one if that
is lost (`EndTag`). Its parts are:

* `PipeInv`: inside one connection each command follows the one before without a
  gap (`Link`: the next row of the batch, or what comes after the token reached,
  with no row in between), and the last leads to the streamer's `last_token`;
* `JoinedInv`: the replica has *taken* (processed, failed to process, or put into
  the pending batch) all rows up to some token and the first rows after it, and
  whoever has those misses nothing by going on with the commands of a connection
  in `_streams_by_connection` (`Cursor`). Without errors that token is the
  replica's position and these rows are the pending batch; after `RdataFails` both
  may be ahead of it;
* `WorkInv`: while a POSITION is processed no connection has the stream, what was
  fetched so far is complete, and the commands behind it go on from its token;
* `SeenInv`, `StreamerInv`, `ConnInv`, `FetchInv`: the rows processed are there
  and, with those that failed, complete up to the position; the streamer is where
  its last command led.

The steps are proved over plain values first (`Consistent` and the `...Step`
lemmas: a command is appended, taken, dropped, or everything of a connection is
cut out), then one `...Holds` lemma per action maps the action to such a step.
The fact that `Updates` sends a segment without gaps concerns a flattened
sequence of batches; it is proved by a least counterexample (`LeastNat`) in place
of an induction.

The hypothesis `OneWriter` is a single writer and no outage of its connection.
Both are needed for these three theorems: with two writers `ReplicationBatches`
shows a skipped row, and a writer that has lost its connection moves `last_token`
on without sending. If its first RDATA on the new connection comes before the
POSITION (`new_connection` and `send_positions_to_connection` are apart), the
replica passes the rows discarded meanwhile, for good: that POSITION begins at or
below the replica's position, counts as up to date and fetches nothing.
`ReplicationTypes` and `PositionsNeverMoveBack` need neither.

**Vouchers.** `ReservationInv` says that the counter counts the rows
(`Counted`), that the checks a reservation has passed still hold of the row as
it is now until its snapshot is stale (`ChecksHold`), and that one reservation
holds the key of a redemption and one the lock of a voucher row (`LocksHeld`).
The commit then finds its checks true and its redemption absent.

For the time that redemptions bring, the bound over all redemptions of a user is
not inductive either: a request that is about to extend would break it. `TimeInv`
bounds the expiry, and the expiry that a request has read, by the redemptions
that are *granted*, those which no request still has to extend for, and adds that
a redemption is owed to one request only. Writing an extension moves its
redemption from owed to granted, so the bound grows by what the write adds.

From below, `KeptInv` says that while the requests of a user have not raced, at
most one is about to write the subscription, and what it has read covers all that
was given so far (`TimeKept`); the same of the list of payments (`ListKept`). The
write then adds to all of it, and `RedemptionsAreKept` follows.

**Locks.** `LockInv` adds to `RegisteredLockIsKept` that at most one task of a
process is between the check and the upsert (`OneAttempt`, by `_acquiring_locks`);
that what it has read of a registered lock that is renewed with the margin makes
it valid, however late the clock is read (`AttemptInv`), so that its upsert cannot
take a safe lock of its own process; that the row is old only when the hold is over
(`RowInv`), which keeps it off those of other processes; and that a holder that is
not registered shares its process with one whose hold is over (`LooseInv`). The
refinement follows: a step that gives the row to another task is a `Take` when the
last hold is over, and otherwise an `Overtake` by `LooseInv`. `RWInv` ties a holder
that has renewed in time to its rows, over which the constraints of the tables
rule.

**Payments.** `PaidInv` carries the truth of what is shown over to what requests
have read of the list and are about to write back. `ReportsInv` bounds the expiry,
and what requests have read of it, by the reports that are settled. `SoloInv` is
about histories without overlap: the request under way is the only one and the
last about its order, what it has read is up to date, and the list shows every
other order as its last request left it, and, until a restart, the index has
every order that is shown as pending. `OrderInv` is the three together; that
an expiry is exact, a report shown and a pending order known follow when nothing
is under way.

**Tasks.** `TaskInv` says that whatever runs or is about to be started has its
own place in `_running_tasks`, whose size is bounded, and that the row of what
runs is active or gone until its result is stored. `Walk` only launches what
was not in the set (`WalkLaunches`), so no stale list can start a task twice.

Only model-checked: the liveness properties (`RowsBecomeVisible`, `CallsReturn`,
`RedemptionsAreGranted`, `WaitersGetIn`, `NobodyWaitsForEver`, `RowsArrive`,
`TasksEnd`), because the prover does not handle fairness; and
`CleanedIsNotRunning`, which needs what `SelectSeq` selects, an induction over a
sequence. Every other invariant and every action property that a passing run
checks is a theorem.

## 6. Not modelled

* A crash between the commit of a redemption and its activation loses the
  subscription; the code has no recovery and `RedemptionsAreGranted` excepts it.
* Concurrent activations of one user lose an extension, and concurrent payment
  records an entry: both interleavings are in the models, and the properties say
  what holds without them (`RedemptionsAreKept`, `solo`). A repeated report of one
  payment extends the subscription again; `TimeMatchesReports` counts the reports
  that are accepted.
* Starvation: a task of the lock modules acquires once, so a waiter that ever new
  tasks overtake, or a writer that ever new readers keep out, is not covered. The
  code has no queue that would exclude either.
* Ambiguous commits (connection lost during COMMIT), callbacks of failed
  attempts and a retried write that holds IDs.
* Caches; streams in memory; the SQLite fallbacks.
* Bots, channels, feed, login verification and the binding of addresses: each is
  a handful of reads and writes of one document or a row with a counter, of the
  shapes that vouchers and payments have; their hazards are listed.
* The event persistence queue, `Linearizer` and the federation queues: candidates
  for the next modules (see the plan).
* The Matrix protocol itself (authorisation, state resolution, federation),
  synchronisation, the REST layer, media, configuration, metrics: reading,
  parsing and pure functions over large data, or outside what a bounded model of
  this size can say something about.

## 7. Plan

1. `StableStream`, the abstract promise of a stream (rows appear in the order in
   which readers are told about them), implemented by `MultiWriterIdGen`, with the
   refinement proved beside `NoLateRow`; the retry of a write that holds IDs.
2. What of `ReplicaInv` still holds with outages of the writer, as a theorem.
3. The event persistence queue of a room; the queue of a federation destination
   with its catch-up and back-off; `Linearizer` and `ReadWriteLock`.
4. `SetkaBots` and `SetkaFeed`.
