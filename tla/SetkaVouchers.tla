--------------------------- MODULE SetkaVouchers ---------------------------
(***************************************************************************)
(* Promo codes of Setka Plus (handlers/setka_plus.py): administrators      *)
(* create, change and withdraw vouchers while users redeem them.           *)
(*                                                                         *)
(* redeem_voucher reserves in one Postgres transaction: it reads the       *)
(* voucher and the redemptions of the user, inserts a redemption and       *)
(* increments the counter of the voucher.  The transaction runs under      *)
(* REPEATABLE READ: the reads see one snapshot, an INSERT waits for an     *)
(* uncommitted row with its key, an UPDATE waits for the row lock and      *)
(* fails to serialize when the row changed after the snapshot;             *)
(* new_transaction then runs it again, at most Retries times.  After the   *)
(* commit the request extends the subscription of the user and records a   *)
(* payment, each a read of account data followed, after an await, by a     *)
(* write.  A request can be lost with its process at any point.            *)
(***************************************************************************)
EXTENDS Integers, FiniteSets

CONSTANTS
    Users,
    Codes,      \* the voucher codes
    Requests,   \* redeem requests
    Admins,     \* update_voucher and delete_voucher requests
    Limits,     \* the values of max_redemptions and max_per_user
    Retries,    \* N of new_transaction (5 in the code)
    Days,       \* the duration of a voucher, in clock ticks
    MaxTime,    \* bound: the clock
    MaxCrashes  \* bound: the requests lost in crashes

ASSUME LimitsAssumption == Limits \subseteq Nat \ {0} /\ Retries \in Nat
ASSUME TimeAssumption == Days \in Nat \ {0} /\ MaxTime \in Nat /\ MaxCrashes \in Nat

VARIABLES
    now,        \* the clock
    row,        \* row[c]: the setka_plus_vouchers row of c
    reds,       \* reds[c]: the users with a redemption row of c
    req,        \* req[r]: a redeem_voucher call
    adm,        \* adm[a]: an update_voucher or delete_voucher call
    expiry,     \* expiry[u]: expires_at of the subscription of u, 0 when there is none
    payments,   \* payments[u]: the voucher payments recorded for u
    crashes,    \* how many requests were lost
    raced       \* raced[u]: the account data of u that two requests had read at once

vars == <<now, row, reds, req, adm, expiry, payments, crashes, raced>>

(* A voucher row; max = 0 stands for no row.                                *)
Voucher == [max : Nat, count : Nat, perUser : Nat, expires : Nat, active : BOOLEAN]

NoVoucher == [max |-> 0, count |-> 0, perUser |-> 0, expires |-> 0, active |-> FALSE]

Exists(c) == row[c].max > 0

Finished == {"refused", "error", "lost", "done"}

Points == {"new", "select", "insert", "update", "commit", "activate", "read", "extend",
           "list", "record"} \cup Finished

(* A call: its point, user and code, the time it began, whether the voucher  *)
(* row has changed since its snapshot, the reruns of its transaction, and   *)
(* the account data it has read.                                            *)
Call == [at : Points, user : Users, code : Codes, began : Nat, stale : BOOLEAN,
         tries : Nat, start : Nat, listed : SUBSET Codes]

(* An administrator's call: its point, code and the voucher it has read.    *)
AdminCall == [at : {"new", "write", "done"}, code : Codes, seen : Voucher]

AccountData == {"subscription", "payments"}

-----------------------------------------------------------------------------
(* The checks of _reserve on voucher v for a user with n redemptions.       *)
Redeemable(v, began, n) ==
    v.max > 0 /\ v.active /\ v.expires > began /\ v.count < v.max /\ n < v.perUser

RowLocked(c) == \E r \in Requests : req[r].code = c /\ req[r].at = "commit"

KeyLocked(c, u) ==
    \E r \in Requests : req[r].code = c /\ req[r].user = u /\ req[r].at \in {"update", "commit"}

(* The calls after a write to the row of c: open snapshots become stale.    *)
Outdated(calls, c) ==
    [r \in Requests |-> IF calls[r].code = c /\ calls[r].at \in {"insert", "update"}
                        THEN [calls[r] EXCEPT !.stale = TRUE] ELSE calls[r]]

-----------------------------------------------------------------------------
Init ==
    /\ now = 0
    /\ row = [c \in Codes |-> NoVoucher]
    /\ reds = [c \in Codes |-> {}]
    /\ req \in [Requests -> [at : {"new"}, user : Users, code : Codes, began : {0},
                             stale : {FALSE}, tries : {0}, start : {0}, listed : {{}}]]
    /\ adm \in [Admins -> [at : {"new"}, code : Codes, seen : {NoVoucher}]]
    /\ expiry = [u \in Users |-> 0]
    /\ payments = [u \in Users |-> {}]
    /\ crashes = 0
    /\ raced = [u \in Users |-> {}]

(* create_voucher: the INSERT, refused when the code exists.                *)
CreateVoucher(c) ==
    /\ ~ Exists(c)
    /\ \E max, perUser \in Limits, expires \in (now + 1) .. (MaxTime + 1), active \in BOOLEAN :
          row' = [row EXCEPT ![c] = [max |-> max, count |-> 0, perUser |-> perUser,
                                     expires |-> expires, active |-> active]]
    /\ UNCHANGED <<now, reds, req, adm, expiry, payments, crashes, raced>>

(* get_voucher, the first step of update_voucher and of delete_voucher.     *)
GetVoucher(a) ==
    /\ adm[a].at = "new"
    /\ Exists(adm[a].code)
    /\ adm' = [adm EXCEPT ![a].at = "write", ![a].seen = row[adm[a].code]]
    /\ UNCHANGED <<now, row, reds, req, expiry, payments, crashes, raced>>

(* The UPDATE of an administrator writes v into the row, in a transaction   *)
(* of its own that waits for the row lock; when the row changed meanwhile    *)
(* it fails to serialize and new_transaction writes v in the next attempt.   *)
AdminWrite(a, v) ==
    /\ adm[a].at = "write"
    /\ ~ RowLocked(adm[a].code)
    /\ row' = [row EXCEPT ![adm[a].code] = v]
    /\ req' = Outdated(req, adm[a].code)
    /\ adm' = [adm EXCEPT ![a].at = "done", ![a].seen = NoVoucher]
    /\ UNCHANGED <<now, reds, expiry, payments, crashes, raced>>

(* Mutant: the counter is written back as it was read.                       *)
UpdateVoucherMutant(a) ==
    \E max \in Limits : AdminWrite(a, [adm[a].seen EXCEPT !.max = max])

(* update_voucher writes every column but the counter: those in the request *)
(* are new, the others are as it has read them.  An expiry of 0 is a time    *)
(* that has passed.                                                         *)
UpdateVoucher(a) ==
    \E max \in Limits \cup {adm[a].seen.max}, perUser \in Limits \cup {adm[a].seen.perUser},
       expires \in {0, MaxTime + 1, adm[a].seen.expires}, active \in BOOLEAN :
          AdminWrite(a, [row[adm[a].code] EXCEPT !.max = max, !.perUser = perUser,
                                                 !.expires = expires, !.active = active])

(* delete_voucher only withdraws the voucher.                               *)
DeleteVoucher(a) == AdminWrite(a, [row[adm[a].code] EXCEPT !.active = FALSE])

(* redeem_voucher is called: the time is taken before the transaction.      *)
Redeem(r) ==
    /\ req[r].at = "new"
    /\ req' = [req EXCEPT ![r].at = "select", ![r].began = now]
    /\ UNCHANGED <<now, row, reds, adm, expiry, payments, crashes, raced>>

(* The two SELECTs and the checks, on one snapshot.                         *)
Select(r) ==
    LET c == req[r].code
        n == IF req[r].user \in reds[c] THEN 1 ELSE 0
    IN
    /\ req[r].at = "select"
    /\ req' = [req EXCEPT ![r].at = IF Redeemable(row[c], req[r].began, n)
                                    THEN "insert" ELSE "refused",
                          ![r].stale = FALSE]
    /\ UNCHANGED <<now, row, reds, adm, expiry, payments, crashes, raced>>

(* Mutant: a duplicate key is retried without limit.                         *)
InsertMutant(r) ==
    /\ req[r].at = "insert"
    /\ ~ KeyLocked(req[r].code, req[r].user)
    /\ req' = [req EXCEPT ![r].at =
                 IF req[r].user \in reds[req[r].code] THEN "select" ELSE "update"]
    /\ UNCHANGED <<now, row, reds, adm, expiry, payments, crashes, raced>>

(* INSERT INTO setka_plus_voucher_redemptions, whose key is (code, user_id): *)
(* a duplicate is an IntegrityError, which is not retried.                  *)
Insert(r) ==
    /\ req[r].at = "insert"
    /\ ~ KeyLocked(req[r].code, req[r].user)
    /\ req' = [req EXCEPT ![r].at =
                 IF req[r].user \in reds[req[r].code] THEN "error" ELSE "update"]
    /\ UNCHANGED <<now, row, reds, adm, expiry, payments, crashes, raced>>

(* Mutant: READ COMMITTED, where the row may have changed.                   *)
IncrementMutant(r) ==
    /\ req[r].at = "update"
    /\ ~ RowLocked(req[r].code)
    /\ req' = [req EXCEPT ![r].at = "commit"]
    /\ UNCHANGED <<now, row, reds, adm, expiry, payments, crashes, raced>>

(* UPDATE ... SET redemption_count = redemption_count + 1 ...               *)
Increment(r) ==
    /\ req[r].at = "update"
    /\ ~ RowLocked(req[r].code)
    /\ ~ req[r].stale
    /\ req' = [req EXCEPT ![r].at = "commit"]
    /\ UNCHANGED <<now, row, reds, adm, expiry, payments, crashes, raced>>

(* Mutant: the failed transaction is taken for a success.                    *)
RetryMutant(r) ==
    /\ req[r].at = "update"
    /\ ~ RowLocked(req[r].code)
    /\ req[r].stale
    /\ req' = [req EXCEPT ![r].at = "activate"]
    /\ UNCHANGED <<now, row, reds, adm, expiry, payments, crashes, raced>>

(* Mutant: the rollback takes one from a counter that was not incremented.   *)
RetryDecrementMutant(r) ==
    /\ req[r].at = "update"
    /\ ~ RowLocked(req[r].code)
    /\ req[r].stale
    /\ row' = [row EXCEPT ![req[r].code].count = @ - 1]
    /\ req' = [req EXCEPT ![r].at = "error"]
    /\ UNCHANGED <<now, reds, adm, expiry, payments, crashes, raced>>

(* ... or its serialization failure, and new_transaction's retry.           *)
Retry(r) ==
    /\ req[r].at = "update"
    /\ ~ RowLocked(req[r].code)
    /\ req[r].stale
    /\ req' = IF req[r].tries < Retries
              THEN [req EXCEPT ![r].at = "select", ![r].tries = @ + 1]
              ELSE [req EXCEPT ![r].at = "error"]
    /\ UNCHANGED <<now, row, reds, adm, expiry, payments, crashes, raced>>

(* The reservation commits.                                                 *)
Commit(r) ==
    LET c == req[r].code IN
    /\ req[r].at = "commit"
    /\ reds' = [reds EXCEPT ![c] = @ \cup {req[r].user}]
    /\ row' = [row EXCEPT ![c].count = @ + 1]
    /\ req' = [Outdated(req, c) EXCEPT ![r].at = "activate"]
    /\ UNCHANGED <<now, adm, expiry, payments, crashes, raced>>

(* activate_subscription takes the time ...                                 *)
Activate(r) ==
    /\ req[r].at = "activate"
    /\ req' = [req EXCEPT ![r].at = "read", ![r].start = now]
    /\ UNCHANGED <<now, row, reds, adm, expiry, payments, crashes, raced>>

(* The races there have been when r reads account data d that another       *)
(* request of the user is about to write, at point p.                       *)
Races(r, d, p) ==
    LET u == req[r].user IN
    IF \E s \in Requests \ {r} : req[s].user = u /\ req[s].at = p
    THEN [raced EXCEPT ![u] = @ \cup {d}] ELSE raced

(* Mutant: a user who has Plus already gets nothing.                         *)
ReadSubscriptionMutant(r) ==
    /\ req[r].at = "read"
    /\ req' = [req EXCEPT ![r].at = IF expiry[req[r].user] > req[r].start
                                    THEN "done" ELSE "extend"]
    /\ raced' = Races(r, "subscription", "extend")
    /\ UNCHANGED <<now, row, reds, adm, expiry, payments, crashes>>

(* Mutant: the new period starts now, whatever the user has.                 *)
ReadSubscriptionNowMutant(r) ==
    /\ req[r].at = "read"
    /\ req' = [req EXCEPT ![r].at = "extend"]
    /\ raced' = Races(r, "subscription", "extend")
    /\ UNCHANGED <<now, row, reds, adm, expiry, payments, crashes>>

(* ... and reads the subscription: the new period starts at its end, or at  *)
(* the time taken, ...                                                      *)
ReadSubscription(r) ==
    /\ req[r].at = "read"
    /\ req' = [req EXCEPT ![r].at = "extend",
                          ![r].start = IF expiry[req[r].user] > @
                                       THEN expiry[req[r].user] ELSE @]
    /\ raced' = Races(r, "subscription", "extend")
    /\ UNCHANGED <<now, row, reds, adm, expiry, payments, crashes>>

(* ... and writes it back.                                                  *)
Extend(r) ==
    /\ req[r].at = "extend"
    /\ expiry' = [expiry EXCEPT ![req[r].user] = req[r].start + Days]
    /\ req' = [req EXCEPT ![r].at = "list"]
    /\ UNCHANGED <<now, row, reds, adm, payments, crashes, raced>>

(* record_payment reads the list of payments ...                            *)
ListPayments(r) ==
    /\ req[r].at = "list"
    /\ req' = [req EXCEPT ![r].at = "record", ![r].listed = payments[req[r].user]]
    /\ raced' = Races(r, "payments", "record")
    /\ UNCHANGED <<now, row, reds, adm, expiry, payments, crashes>>

(* Mutant: the list is written with this payment alone.                      *)
RecordPaymentMutant(r) ==
    /\ req[r].at = "record"
    /\ payments' = [payments EXCEPT ![req[r].user] = {req[r].code}]
    /\ req' = [req EXCEPT ![r].at = "done"]
    /\ UNCHANGED <<now, row, reds, adm, expiry, crashes, raced>>

(* ... and writes it back with this one added.  The cut at 100 entries is   *)
(* beyond the number of codes.                                              *)
RecordPayment(r) ==
    /\ req[r].at = "record"
    /\ payments' = [payments EXCEPT ![req[r].user] = req[r].listed \cup {req[r].code}]
    /\ req' = [req EXCEPT ![r].at = "done"]
    /\ UNCHANGED <<now, row, reds, adm, expiry, crashes, raced>>

(* The process that serves r dies: its transaction is rolled back.          *)
Crash(r) ==
    /\ req[r].at \notin Finished \cup {"new"}
    /\ crashes < MaxCrashes
    /\ crashes' = crashes + 1
    /\ req' = [req EXCEPT ![r].at = "lost"]
    /\ UNCHANGED <<now, row, reds, adm, expiry, payments, raced>>

Tick ==
    /\ now < MaxTime
    /\ now' = now + 1
    /\ UNCHANGED <<row, reds, req, adm, expiry, payments, crashes, raced>>

-----------------------------------------------------------------------------
Progress(r) ==
    \/ Select(r) \/ Insert(r) \/ Increment(r) \/ Retry(r) \/ Commit(r)
    \/ Activate(r) \/ ReadSubscription(r) \/ Extend(r)
    \/ ListPayments(r) \/ RecordPayment(r)

Manage ==
    \/ \E c \in Codes : CreateVoucher(c)
    \/ \E a \in Admins : GetVoucher(a) \/ UpdateVoucher(a) \/ DeleteVoucher(a)

Next ==
    \/ \E r \in Requests : Redeem(r) \/ Progress(r) \/ Crash(r)
    \/ Manage
    \/ Tick

Spec == Init /\ [][Next]_vars

(* The reactor and the database run every request that has begun and is not  *)
(* lost to its end; a statement that waits for a lock goes on when the       *)
(* holder commits or is rolled back.                                         *)
FairSpec == Spec /\ \A r \in Requests : WF_vars(Progress(r))

-----------------------------------------------------------------------------
(* Every variable keeps its type.                                           *)
TypeOK ==
    /\ now \in Nat
    /\ row \in [Codes -> Voucher]
    /\ reds \in [Codes -> SUBSET Users]
    /\ req \in [Requests -> Call]
    /\ adm \in [Admins -> AdminCall]
    /\ expiry \in [Users -> Nat]
    /\ payments \in [Users -> SUBSET Codes]
    /\ crashes \in Nat
    /\ raced \in [Users -> SUBSET AccountData]

(* redemption_count is the number of redemption rows, however requests,     *)
(* retries and administrators interleave.                                   *)
CountMatchesRows == \A c \in Codes : row[c].count = Cardinality(reds[c])

(* A redemption commits only against a voucher that at that moment is still *)
(* active, unexpired when the request began and below its limit, for a user *)
(* who has not redeemed it: the checks of _reserve are never stale.         *)
RedeemedWithinLimits ==
    [][\A r \in Requests : req[r].at = "commit" /\ req'[r].at = "activate" =>
          LET v == row[req[r].code] IN
          /\ Redeemable(v, req[r].began, 0)
          /\ req[r].user \notin reds[req[r].code]]_vars

(* A user never holds more Plus time than the vouchers redeemed by the user  *)
(* are worth: no retry, lost request or race grants a voucher twice.        *)
NoTimeWithoutRedemption ==
    \A u \in Users :
        expiry[u] <= now + Days * Cardinality({c \in Codes : u \in reds[c]})

(* The codes whose period user u was given by a request that is not lost.   *)
Given(u) ==
    {c \in Codes : \E r \in Requests : /\ req[r].user = u /\ req[r].code = c
                                      /\ req[r].at \in {"list", "record", "done"}}

(* What u has been given is still there.  Each of the two is lost only when  *)
(* two requests of u had read that account data before either wrote it.     *)
Kept(u) ==
    /\ "subscription" \notin raced[u] => Days * Cardinality(Given(u)) <= expiry[u]
    /\ "payments" \notin raced[u] =>
          \A r \in Requests : req[r].user = u /\ req[r].at = "done"
                                => req[r].code \in payments[u]

(* A user who redeems several vouchers keeps the full period and the payment *)
(* record of each, whatever retries, crashes and other users do in between,  *)
(* unless the user's own requests overlapped between the read and the write  *)
(* of the same account data, which the code does not lock.                  *)
RedemptionsAreKept == \A u \in Users : Kept(u)

(* Every call that has begun returns: nobody waits for a lock for ever.     *)
CallsReturn ==
    \A r \in Requests : req[r].at # "new" ~> req[r].at \in Finished

(* A redemption that commits is carried to its end unless it is lost in a    *)
(* crash: it brings its full period and its payment record, on top of those  *)
(* of the user's other vouchers, unless the user's requests overlapped.     *)
RedemptionsAreGranted ==
    \A r \in Requests : req[r].at = "activate" ~>
        \/ req[r].at = "lost"
        \/ req[r].at = "done" /\ req[r].code \in Given(req[r].user) /\ Kept(req[r].user)

-----------------------------------------------------------------------------
(* The inductive invariant of the reservations.                             *)

(* The counter counts a finite set of redemption rows, of a voucher that     *)
(* exists, and stays.                                                       *)
Counted ==
    /\ \A c \in Codes : /\ IsFiniteSet(reds[c]) /\ row[c].count = Cardinality(reds[c])
                        /\ Exists(c) \/ reds[c] = {}
    /\ \A a \in Admins : adm[a].at = "write" => Exists(adm[a].code) /\ adm[a].seen.max > 0

(* The checks that a reservation has passed hold of the row as it is, until  *)
(* its snapshot is stale.                                                   *)
Checked(k) == k.at = "commit" \/ (k.at \in {"insert", "update"} /\ ~ k.stale)

ChecksHold ==
    \A r \in Requests : Checked(req[r]) => Redeemable(row[req[r].code], req[r].began, 0)

(* One reservation at a time holds the key of a redemption, which is not in  *)
(* the table, and one the lock of a voucher row.                            *)
LocksHeld ==
    /\ \A r \in Requests : req[r].at \in {"update", "commit"} => req[r].user \notin reds[req[r].code]
    /\ \A r, s \in Requests : r # s /\ req[r].code = req[s].code =>
          /\ req[r].at = "commit" => req[s].at # "commit"
          /\ req[r].at \in {"update", "commit"} /\ req[s].at \in {"update", "commit"}
                => req[r].user # req[s].user

(* The types, the counters, the checks and the locks together are inductive. *)
ReservationInv == TypeOK /\ Counted /\ ChecksHold /\ LocksHeld

(* The inductive invariant of the subscription time.  A redemption is owed   *)
(* to its user from the commit to the write of the subscription.            *)
Owed(r) == req[r].at \in {"activate", "read", "extend"}

(* It has a start, which the write will extend.                             *)
Timed(r) == req[r].at \in {"read", "extend"}

Redeemed(u) == {c \in Codes : u \in reds[c]}

Granted(u) ==
    {c \in Redeemed(u) : \A r \in Requests : Owed(r) => req[r].user # u \/ req[r].code # c}

(* The time of a user, and the time that a request is about to extend, is    *)
(* covered by the redemptions that are owed to nobody any more; a redemption *)
(* is owed once.                                                            *)
TimeInv ==
    /\ \A u \in Users : IsFiniteSet(Redeemed(u))
    /\ \A u \in Users : expiry[u] <= now + Days * Cardinality(Granted(u))
    /\ \A r \in Requests : Owed(r) => req[r].user \in reds[req[r].code]
    /\ \A r \in Requests, u \in Users : Timed(r) /\ req[r].user = u =>
          req[r].start <= now + Days * Cardinality(Granted(u))
    /\ \A r, s \in Requests : r # s /\ Owed(r) /\ Owed(s)
          => req[r].user # req[s].user \/ req[r].code # req[s].code

(* What makes RedemptionsAreKept inductive.  While no two requests of a user *)
(* have overlapped, at most one is about to write the subscription, and it   *)
(* will add to all that was given; at most one is about to write the list,   *)
(* and it has every entry that was written.                                 *)
TimeKept(u) ==
    /\ Days * Cardinality(Given(u)) <= expiry[u]
    /\ \A r \in Requests : req[r].user = u /\ req[r].at = "extend" =>
          /\ Days * Cardinality(Given(u)) <= req[r].start
          /\ \A s \in Requests : s # r /\ req[s].user = u => req[s].at # "extend"

ListKept(u) ==
    /\ \A r \in Requests : req[r].user = u /\ req[r].at = "done" => req[r].code \in payments[u]
    /\ \A r, s \in Requests : s # r /\ req[r].user = u /\ req[r].at = "record" /\ req[s].user = u =>
          /\ req[s].at # "record"
          /\ req[s].at = "done" => req[s].code \in req[r].listed

(* The inductive invariant: a period that was given is that of a redemption. *)
KeptInv ==
    \A u \in Users :
        /\ Given(u) \subseteq Redeemed(u)
        /\ "subscription" \notin raced[u] => TimeKept(u)
        /\ "payments" \notin raced[u] => ListKept(u)

=============================================================================
