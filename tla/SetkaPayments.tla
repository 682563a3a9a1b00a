--------------------------- MODULE SetkaPayments ---------------------------
(***************************************************************************)
(* Payments for Setka Plus (handlers/setka_plus.py): orders of one user    *)
(* with YooMoney, Robokassa or PayAnyWay, the callbacks of the providers    *)
(* and the returns of the browser.                                         *)
(*                                                                         *)
(* The subscription and the list of payments are two documents of account  *)
(* data.  Every handler reads a document, awaits and writes it back, so    *)
(* requests that overlap overwrite each other.  A provider may repeat a    *)
(* callback or not send it, a browser may return late, and a restart loses *)
(* the requests under way and the index of pending PayAnyWay orders.       *)
(* Subscription time is counted in periods; a period is far longer than a  *)
(* payment takes, so it does not run out here.                             *)
(***************************************************************************)
EXTENDS Naturals, FiniteSets

CONSTANTS
    Orders,
    Via,          \* Via[p]: the provider of order p
    Requests,
    MaxRestarts   \* bound: the restarts of the process

ASSUME OrderAssumption ==
    /\ Via \in [Orders -> {"yoomoney", "robokassa", "payanyway"}]
    /\ IsFiniteSet(Requests)
    /\ MaxRestarts \in Nat

VARIABLES
    expiry,    \* the subscription: the periods paid for
    list,      \* the list of payments: the status of each entry
    index,     \* _payanyway_pending_users
    offered,   \* the orders whose checkout address was returned to the user
    paid,      \* the orders that the user has paid at the provider
    req,       \* req[r]: a request
    calls,     \* history: the requests that were told of a payment
    solo,      \* history: no request has overlapped another one or was lost
    last,      \* history: last[p]: the kind of the last request about order p
    restarts

vars == <<expiry, list, index, offered, paid, req, calls, solo, last, restarts>>

Kinds == {"none", "create", "callback", "process", "refusal", "fail"}

Statuses == {"absent", "pending", "success", "paid", "failed", "refused"}

(* YooMoney payments are recorded under the operation, or under request_id   *)
(* when the provider refuses them, and not under the order.                 *)
Entries == Orders \X {"order", "operation", "request"}

Entry(p, kind) ==
    <<p, CASE Via[p] # "yoomoney" \/ kind = "create" -> "order"
           [] Via[p] = "yoomoney" /\ kind = "refusal" -> "request"
           [] OTHER -> "operation">>

Points == {"new", "activate", "extend", "list", "write", "relist", "rewrite",
           "find", "sub", "keep", "done", "lost"}

Request == [at : Points, kind : Kinds, order : Orders, status : Statuses,
            seen : [Entries -> Statuses], start : Nat]

Active(r) == req[r].at \notin {"new", "done", "lost"}

-----------------------------------------------------------------------------
Init ==
    /\ expiry = 0
    /\ list = [e \in Entries |-> "absent"]
    /\ index = {}
    /\ offered = {}
    /\ paid = {}
    /\ req \in [Requests -> [at : {"new"}, kind : {"none"}, order : Orders, status : {"absent"},
                             seen : {[e \in Entries |-> "absent"]}, start : {0}]]
    /\ calls = {}
    /\ solo = TRUE
    /\ last = [p \in Orders |-> "none"]
    /\ restarts = 0

(* Request r begins, as a request of this kind, at this point.              *)
Begin(r, kind, point, status) ==
    /\ req[r].at = "new"
    /\ req' = [req EXCEPT ![r].at = point, ![r].kind = kind, ![r].status = status]
    /\ solo' = (solo /\ \A q \in Requests : ~ Active(q))
    /\ last' = [last EXCEPT ![req[r].order] = kind]
    /\ UNCHANGED <<expiry, list, index, offered, restarts>>

(* create_..._payment_request: an order is recorded as pending, then the    *)
(* subscription is marked as pending.                                       *)
Create(r) ==
    /\ last[req[r].order] = "none"
    /\ Begin(r, "create", "list", "pending")
    /\ UNCHANGED <<paid, calls>>

(* The user pays at the provider.                                           *)
Pay(p) ==
    /\ p \in offered \ paid
    /\ paid' = paid \cup {p}
    /\ UNCHANGED <<expiry, list, index, offered, req, calls, solo, last, restarts>>

(* handle_robokassa_result, handle_yoomoney_webhook, handle_payanyway_pay_url: *)
(* the provider reports a payment, perhaps not for the first time, for a     *)
(* user that is in the callback or in the index of pending orders.          *)
Callback(r) ==
    /\ req[r].order \in paid
    /\ Begin(r, "callback", "activate", "success")
    /\ calls' = calls \cup {r}
    /\ UNCHANGED paid

(* A PayAnyWay callback may not name the user.  When the index does not know *)
(* the order either, it is answered FAIL and changes nothing.               *)
AnswerFail(r) ==
    LET p == req[r].order IN
    /\ req[r].at = "new"
    /\ p \in paid /\ Via[p] = "payanyway" /\ p \notin index
    /\ req' = [req EXCEPT ![r].at = "done"]
    /\ UNCHANGED <<expiry, list, index, offered, paid, calls, solo, last, restarts>>

(* process_yoomoney_payment: the server asks the provider to make the        *)
(* payment, which succeeds, is refused, or ends in an exception.            *)
Process(r) ==
    LET p == req[r].order IN
    /\ Via[p] = "yoomoney" /\ p \in offered
    /\ \/ /\ Begin(r, "process", "activate", "success")
          /\ paid' = paid \cup {p}
          /\ calls' = calls \cup {r}
       \/ /\ Begin(r, "refusal", "list", "refused")
          /\ UNCHANGED <<paid, calls>>
       \/ /\ Begin(r, "process", "done", "absent")
          /\ paid' \in {paid, paid \cup {p}}
          /\ UNCHANGED calls

(* resolve_..._browser_return to the failure page: mark_payment_failed, if    *)
(* the return names the user.                                               *)
FailReturn(r) ==
    /\ Via[req[r].order] # "yoomoney"
    /\ req[r].order \in offered
    /\ Begin(r, "fail", "find", "failed")
    /\ UNCHANGED <<paid, calls>>

-----------------------------------------------------------------------------
Goto(r, point) == req' = [req EXCEPT ![r].at = point]

(* activate_subscription reads the subscription ...                         *)
Activate(r) ==
    /\ req[r].at = "activate"
    /\ req' = [req EXCEPT ![r].at = "extend", ![r].start = expiry]
    /\ UNCHANGED <<expiry, list, index, offered, paid, calls, solo, last, restarts>>

(* ... and writes it with one more period.                                  *)
Extend(r) ==
    /\ req[r].at = "extend"
    /\ expiry' = req[r].start + 1
    /\ Goto(r, "list")
    /\ UNCHANGED <<list, index, offered, paid, calls, solo, last, restarts>>

(* mark_payment_failed looks for the order in the list.                     *)
Find(r) ==
    /\ req[r].at = "find"
    /\ Goto(r, IF list[Entry(req[r].order, "fail")] = "absent" THEN "done" ELSE "list")
    /\ UNCHANGED <<expiry, list, index, offered, paid, calls, solo, last, restarts>>

(* record_payment reads the list ...                                        *)
GetPayments(r) ==
    /\ req[r].at \in {"list", "relist"}
    /\ req' = [req EXCEPT ![r].at = IF req[r].at = "list" THEN "write" ELSE "rewrite",
                          ![r].seen = list]
    /\ UNCHANGED <<expiry, list, index, offered, paid, calls, solo, last, restarts>>

(* The status a callback records last.                                      *)
Final(p) == IF Via[p] = "yoomoney" THEN "success" ELSE "paid"

(* After a record: a callback records once more, a new order goes on with    *)
(* the subscription.                                                        *)
AfterWrite(k) ==
    CASE k.kind = "callback" /\ k.at = "write" -> "relist"
      [] k.kind = "create" -> "sub"
      [] OTHER -> "done"

(* Mutant: the index holds one order.                                        *)
IndexedMutant(p, status) ==
    CASE Via[p] = "payanyway" /\ status = "pending" -> {p}
      [] Via[p] = "payanyway" /\ status \in {"paid", "failed"} -> index \ {p}
      [] OTHER -> index

(* The index of pending PayAnyWay orders after a record of this status.     *)
Indexed(p, status) ==
    CASE Via[p] = "payanyway" /\ status = "pending" -> index \cup {p}
      [] Via[p] = "payanyway" /\ status \in {"paid", "failed"} -> index \ {p}
      [] OTHER -> index

(* Mutant: a failed order stays failed.                                      *)
RecordPaymentMutant(r) ==
    LET k == req[r]
        e == Entry(k.order, k.kind)
    IN
    /\ k.at \in {"write", "rewrite"}
    /\ list' = [k.seen EXCEPT ![e] = IF @ = "failed" THEN @ ELSE k.status]
    /\ index' = Indexed(k.order, k.status)
    /\ req' = [req EXCEPT ![r].at = AfterWrite(k), ![r].status = Final(k.order)]
    /\ UNCHANGED <<expiry, offered, paid, calls, solo, last, restarts>>

(* Mutant: an order is recorded as paid when it is made.                     *)
RecordPaidMutant(r) ==
    LET k == req[r]
        e == Entry(k.order, k.kind)
    IN
    /\ k.at \in {"write", "rewrite"}
    /\ list' = [k.seen EXCEPT ![e] = IF k.status = "pending" THEN "paid" ELSE k.status]
    /\ index' = Indexed(k.order, k.status)
    /\ req' = [req EXCEPT ![r].at = AfterWrite(k), ![r].status = Final(k.order)]
    /\ UNCHANGED <<expiry, offered, paid, calls, solo, last, restarts>>

(* ... and writes it back with this entry; then it updates the index.       *)
RecordPayment(r) ==
    LET k == req[r] IN
    /\ k.at \in {"write", "rewrite"}
    /\ list' = [k.seen EXCEPT ![Entry(k.order, k.kind)] = k.status]
    /\ index' = Indexed(k.order, k.status)
    /\ req' = [req EXCEPT ![r].at = AfterWrite(k), ![r].status = Final(k.order)]
    /\ UNCHANGED <<expiry, offered, paid, calls, solo, last, restarts>>

(* set_subscription of a new order reads the subscription ...               *)
GetSubscription(r) ==
    /\ req[r].at = "sub"
    /\ req' = [req EXCEPT ![r].at = "keep", ![r].start = expiry]
    /\ UNCHANGED <<expiry, list, index, offered, paid, calls, solo, last, restarts>>

(* Mutant: the new subscription starts over.                                 *)
SetSubscriptionMutant(r) ==
    /\ req[r].at = "keep"
    /\ expiry' = 0
    /\ offered' = offered \cup {req[r].order}
    /\ Goto(r, "done")
    /\ UNCHANGED <<list, index, paid, calls, solo, last, restarts>>

(* ... and writes it back with the expiry it has read; the address of the    *)
(* checkout is returned.                                                    *)
SetSubscription(r) ==
    /\ req[r].at = "keep"
    /\ expiry' = req[r].start
    /\ offered' = offered \cup {req[r].order}
    /\ Goto(r, "done")
    /\ UNCHANGED <<list, index, paid, calls, solo, last, restarts>>

(* The process restarts.                                                    *)
Restart ==
    /\ restarts < MaxRestarts
    /\ restarts' = restarts + 1
    /\ index' = {}
    /\ req' = [r \in Requests |-> IF Active(r) THEN [req[r] EXCEPT !.at = "lost"] ELSE req[r]]
    /\ solo' = (solo /\ \A r \in Requests : ~ Active(r))
    /\ UNCHANGED <<expiry, list, offered, paid, calls, last>>

-----------------------------------------------------------------------------
Next ==
    \/ \E r \in Requests : Create(r) \/ Callback(r) \/ AnswerFail(r) \/ Process(r) \/ FailReturn(r)
    \/ \E r \in Requests : \/ Activate(r) \/ Extend(r) \/ Find(r) \/ GetPayments(r)
                           \/ RecordPayment(r) \/ GetSubscription(r) \/ SetSubscription(r)
    \/ \E p \in Orders : Pay(p)
    \/ Restart

Spec == Init /\ [][Next]_vars

-----------------------------------------------------------------------------
(* Every variable keeps its type.                                           *)
TypeOK ==
    /\ expiry \in Nat
    /\ list \in [Entries -> Statuses]
    /\ index \subseteq Orders /\ offered \subseteq Orders /\ paid \subseteq Orders
    /\ req \in [Requests -> Request]
    /\ calls \subseteq Requests
    /\ solo \in BOOLEAN
    /\ last \in [Orders -> Kinds]
    /\ restarts \in Nat

Idle == \A r \in Requests : ~ Active(r)

(* The user never gets more periods than there were reports of a payment,    *)
(* and exactly as many as long as requests do not overlap and none is lost: *)
(* neither a new order nor a failure takes time away.                       *)
TimeMatchesReports ==
    /\ expiry <= Cardinality(calls)
    /\ solo /\ Idle => expiry = Cardinality(calls)

(* A payment is shown as paid only if the user has paid, also when lists are *)
(* written back that are out of date.                                       *)
ShownPaidIsPaid ==
    \A e \in Entries : list[e] \in {"success", "paid"} => e[1] \in paid

(* While requests do not overlap, an order is shown as paid when the last    *)
(* request about it was a report of its payment that was accepted, a failure *)
(* before it notwithstanding.  A report that was answered FAIL does not      *)
(* count: the order is not shown as paid because of it.                     *)
PaidIsShown ==
    \A p \in Orders : solo /\ Idle /\ last[p] = "callback"
        => list[Entry(p, "callback")] = Final(p)

PendingIndexed ==
    \A p \in Orders : Via[p] = "payanyway" /\ list[Entry(p, "create")] = "pending" => p \in index

(* While requests do not overlap and the process does not restart, the index *)
(* knows the user of every PayAnyWay order that is shown as pending, so the  *)
(* report of its payment is not answered FAIL.                              *)
PendingIsKnown == solo /\ Idle /\ restarts = 0 => PendingIndexed

-----------------------------------------------------------------------------
(* The inductive invariant behind ShownPaidIsPaid: what requests have read   *)
(* and are about to write is true as well.                                  *)
PaidInv ==
    /\ TypeOK
    /\ ShownPaidIsPaid
    /\ \A r \in Requests :
          /\ \A e \in Entries : req[r].seen[e] \in {"success", "paid"} => e[1] \in paid
          /\ req[r].at \in {"activate", "extend", "list", "write", "relist", "rewrite"}
                /\ req[r].status \in {"success", "paid"} => req[r].order \in paid
          /\ req[r].kind = "callback" => req[r].order \in paid
          /\ req[r].at = "find" => req[r].status = "failed"
          /\ req[r].at \in {"relist", "rewrite"} => req[r].kind = "callback"

(* The inductive invariant behind TimeMatchesReports: the periods that the   *)
(* user has, and those that a request has read, are covered by the reports   *)
(* whose extension has been written (or lost).                              *)
Owing == {r \in calls : req[r].at \in {"activate", "extend"}}

Settled == calls \ Owing

ReportsInv ==
    /\ \A r \in Requests : req[r].at = "new" => r \notin calls
    /\ \A r \in Requests : req[r].at \in {"activate", "extend"} => r \in calls
    /\ expiry <= Cardinality(Settled)
    /\ \A r \in Requests : req[r].at \in {"extend", "keep"} => req[r].start <= Cardinality(Settled)

(* While requests do not overlap, the one under way is the last about its    *)
(* order, what it has read is up to date, an order whose last request was a  *)
(* callback is shown as paid once that is over, and until a restart pending  *)
(* orders are in the index.                                                 *)
SoloInv ==
    solo =>
    /\ \A r, q \in Requests : Active(r) /\ Active(q) => r = q
    /\ expiry = Cardinality(Settled)
    /\ \A r \in Requests : Active(r) =>
          /\ last[req[r].order] = req[r].kind
          /\ req[r].at \in {"extend", "keep"} => req[r].start = expiry
          /\ req[r].at \in {"write", "rewrite"} => req[r].seen = list
          /\ req[r].kind = "callback" => req[r].at \notin {"find", "sub", "keep"}
          /\ req[r].at \in {"relist", "rewrite"} => req[r].status = Final(req[r].order)
    /\ \A p \in Orders : last[p] = "callback" /\ (\A r \in Requests : Active(r) => req[r].order # p)
          => list[Entry(p, "callback")] = Final(p)
    /\ restarts = 0 => PendingIndexed

OrderInv == PaidInv /\ ReportsInv /\ SoloInv

=============================================================================
