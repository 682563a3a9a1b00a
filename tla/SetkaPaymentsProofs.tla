------------------------ MODULE SetkaPaymentsProofs ------------------------
(***************************************************************************)
(* Proofs about SetkaPayments.  A list that is written back may be out of   *)
(* date; ShownPaidIsPaid survives that because payments are never undone,  *)
(* so a list that was true when it was read is still true when it is       *)
(* written.  PaidInv says this of every request under way.                 *)
(***************************************************************************)
EXTENDS SetkaPayments, FiniteSetTheorems, TLAPS

(* PaidInv holds in the initial states: no list shows a payment.            *)
LEMMA InitPaid == Init => PaidInv
<1> SUFFICES ASSUME Init PROVE PaidInv
  OBVIOUS
<1>1. [e \in Entries |-> "absent"] \in [Entries -> Statuses]
  BY DEF Statuses
<1>2. [p \in Orders |-> "none"] \in [Orders -> Kinds]
  BY DEF Kinds
<1>3. ASSUME NEW r \in Requests
      PROVE  /\ req[r] \in Request /\ req[r].at = "new" /\ req[r].kind = "none"
             /\ req[r].seen = [e \in Entries |-> "absent"]
  BY <1>1 DEF Init, Request, Points, Kinds, Statuses
<1>4. req \in [Requests -> Request]
  BY <1>3 DEF Init
<1>5. TypeOK
  BY <1>1, <1>2, <1>4 DEF Init, TypeOK
<1>6. ShownPaidIsPaid
  BY DEF Init, ShownPaidIsPaid
<1> QED
  BY <1>3, <1>5, <1>6 DEF PaidInv

(* A request that begins knows nothing that is not true.                    *)
LEMMA BeginPaid ==
    ASSUME PaidInv, NEW r \in Requests, NEW kind \in Kinds, NEW point \in Points,
           NEW status \in Statuses, Begin(r, kind, point, status),
           paid \subseteq paid', paid' \subseteq Orders, calls' \subseteq Requests,
           status \in {"success", "paid"} \/ kind = "callback" => req[r].order \in paid',
           point = "find" => status = "failed",
           point \notin {"relist", "rewrite"}
    PROVE  PaidInv'
<1> DEFINE k == [req[r] EXCEPT !.at = point, !.kind = kind, !.status = status]
<1>k. k \in Request
  BY DEF PaidInv, TypeOK, Request
<1>e. req' = [req EXCEPT ![r] = k]
  BY DEF Begin
<1> HIDE DEF k
<1>1. /\ req' \in [Requests -> Request]
      /\ req'[r] = k
      /\ \A q \in Requests : q # r => req'[q] = req[q]
  BY <1>k, <1>e DEF PaidInv, TypeOK
<1>2. /\ req'[r].seen = req[r].seen /\ req'[r].at = point /\ req'[r].kind = kind
      /\ req'[r].status = status /\ req'[r].order = req[r].order
  BY <1>1 DEF PaidInv, TypeOK, Request, k
<1>3. solo' \in BOOLEAN
  BY Zenon DEF PaidInv, TypeOK, Begin
<1>4. last' \in [Orders -> Kinds]
  BY DEF PaidInv, TypeOK, Begin, Request
<1>5. TypeOK'
  BY <1>1, <1>3, <1>4 DEF PaidInv, TypeOK, Begin
<1>6. ShownPaidIsPaid'
  BY DEF PaidInv, ShownPaidIsPaid, Begin
<1>7. ASSUME NEW q \in Requests
      PROVE  /\ \A e \in Entries : req'[q].seen[e] \in {"success", "paid"} => e[1] \in paid'
             /\ req'[q].at \in {"activate", "extend", "list", "write", "relist", "rewrite"}
                   /\ req'[q].status \in {"success", "paid"} => req'[q].order \in paid'
             /\ req'[q].kind = "callback" => req'[q].order \in paid'
             /\ req'[q].at = "find" => req'[q].status = "failed"
             /\ req'[q].at \in {"relist", "rewrite"} => req'[q].kind = "callback"
  <2>1. CASE q = r
    BY <1>2, <2>1 DEF PaidInv
  <2>2. CASE q # r
    BY <1>1, <2>2 DEF PaidInv
  <2> QED
    BY <2>1, <2>2
<1> QED
  BY <1>5, <1>6, <1>7 DEF PaidInv

(* A step of request r that only moves it on keeps PaidInv.                 *)
LEMMA MovePaid ==
    ASSUME PaidInv, NEW r \in Requests, NEW k \in Request,
           req' = [req EXCEPT ![r] = k],
           k.order = req[r].order, k.kind = req[r].kind,
           UNCHANGED <<paid, calls, solo, last, restarts>>,
           expiry' \in Nat, list' \in [Entries -> Statuses],
           index' \subseteq Orders, offered' \subseteq Orders,
           ShownPaidIsPaid',
           \A e \in Entries : k.seen[e] \in {"success", "paid"} => e[1] \in paid,
           k.at \in {"activate", "extend", "list", "write", "relist", "rewrite"}
              /\ k.status \in {"success", "paid"} => k.order \in paid,
           k.at # "find",
           k.at \in {"relist", "rewrite"} => k.kind = "callback"
    PROVE  PaidInv'
<1>1. /\ req' \in [Requests -> Request]
      /\ req'[r] = k
      /\ \A q \in Requests : q # r => req'[q] = req[q]
  BY DEF PaidInv, TypeOK
<1>2. TypeOK'
  BY <1>1 DEF PaidInv, TypeOK
<1>3. ASSUME NEW q \in Requests
      PROVE  /\ \A e \in Entries : req'[q].seen[e] \in {"success", "paid"} => e[1] \in paid'
             /\ req'[q].at \in {"activate", "extend", "list", "write", "relist", "rewrite"}
                   /\ req'[q].status \in {"success", "paid"} => req'[q].order \in paid'
             /\ req'[q].kind = "callback" => req'[q].order \in paid'
             /\ req'[q].at = "find" => req'[q].status = "failed"
             /\ req'[q].at \in {"relist", "rewrite"} => req'[q].kind = "callback"
  <2>1. CASE q = r
    BY <1>1, <2>1 DEF PaidInv
  <2>2. CASE q # r
    BY <1>1, <2>2 DEF PaidInv
  <2> QED
    BY <2>1, <2>2
<1> QED
  BY <1>2, <1>3 DEF PaidInv

(* Every step keeps PaidInv.                                                *)
LEMMA NextPaid == PaidInv /\ [Next]_vars => PaidInv'
<1> SUFFICES ASSUME PaidInv, [Next]_vars PROVE PaidInv'
  OBVIOUS
<1> USE DEF PaidInv, TypeOK
<1>t. ASSUME NEW r \in Requests
      PROVE  req[r] \in Request /\ req[r].order \in Orders
  BY DEF Request
<1>1. ASSUME NEW r \in Requests, Create(r) PROVE PaidInv'
  <2>1. /\ "create" \in Kinds /\ "list" \in Points /\ "pending" \in Statuses
        /\ Begin(r, "create", "list", "pending")
    BY <1>1 DEF Create, Kinds, Points, Statuses
  <2> QED
    BY <1>1, <2>1, BeginPaid DEF Create
<1>2. ASSUME NEW r \in Requests, Callback(r) PROVE PaidInv'
  <2>1. /\ "callback" \in Kinds /\ "activate" \in Points /\ "success" \in Statuses
        /\ Begin(r, "callback", "activate", "success")
    BY <1>2 DEF Callback, Kinds, Points, Statuses
  <2>2. req[r].order \in paid' /\ paid' = paid /\ calls' \subseteq Requests
    BY <1>2 DEF Callback
  <2> QED
    BY <2>1, <2>2, BeginPaid
<1>3. ASSUME NEW r \in Requests, Process(r) PROVE PaidInv'
  <2>1. {"process", "refusal"} \subseteq Kinds /\ {"activate", "list", "done"} \subseteq Points
        /\ {"success", "refused", "absent"} \subseteq Statuses
    BY DEF Kinds, Points, Statuses
  <2>2. paid \subseteq paid' /\ paid' \subseteq Orders /\ calls' \subseteq Requests
    BY <1>3, <1>t DEF Process
  <2>3. CASE Begin(r, "process", "activate", "success") /\ paid' = paid \cup {req[r].order}
    BY <2>1, <2>2, <2>3, BeginPaid
  <2>4. CASE Begin(r, "refusal", "list", "refused")
    BY <2>1, <2>2, <2>4, BeginPaid
  <2>5. CASE Begin(r, "process", "done", "absent")
    BY <2>1, <2>2, <2>5, BeginPaid
  <2> QED
    BY <1>3, <2>3, <2>4, <2>5 DEF Process
<1>4. ASSUME NEW r \in Requests, FailReturn(r) PROVE PaidInv'
  <2>1. /\ "fail" \in Kinds /\ "find" \in Points /\ "failed" \in Statuses
        /\ Begin(r, "fail", "find", "failed")
    BY <1>4 DEF FailReturn, Kinds, Points, Statuses
  <2> QED
    BY <1>4, <2>1, BeginPaid DEF FailReturn
<1>5. ASSUME NEW r \in Requests, Activate(r) PROVE PaidInv'
  <2> DEFINE k == [req[r] EXCEPT !.at = "extend", !.start = expiry]
  <2>1. k \in Request /\ k.at = "extend" /\ k.order = req[r].order /\ k.kind = req[r].kind
        /\ k.seen = req[r].seen /\ k.status = req[r].status
    BY DEF Request, Points
  <2>2. req' = [req EXCEPT ![r] = k]
    BY <1>5 DEF Activate
  <2>3. ShownPaidIsPaid'
    BY <1>5 DEF Activate, ShownPaidIsPaid
  <2> HIDE DEF k
  <2> QED
    BY <1>5, <2>1, <2>2, <2>3, MovePaid DEF Activate
<1>6. ASSUME NEW r \in Requests, Extend(r) PROVE PaidInv'
  <2> DEFINE k == [req[r] EXCEPT !.at = "list"]
  <2>1. k \in Request /\ k.at = "list" /\ k.order = req[r].order /\ k.kind = req[r].kind
        /\ k.seen = req[r].seen /\ k.status = req[r].status
    BY DEF Request, Points
  <2>2. req' = [req EXCEPT ![r] = k]
    BY <1>6 DEF Extend, Goto
  <2>3. ShownPaidIsPaid' /\ expiry' \in Nat
    BY <1>6, <1>t DEF Extend, ShownPaidIsPaid, Request
  <2> HIDE DEF k
  <2> QED
    BY <1>6, <2>1, <2>2, <2>3, MovePaid DEF Extend
<1>7. ASSUME NEW r \in Requests, Find(r) PROVE PaidInv'
  <2>0. PICK pt \in {"done", "list"} : req' = [req EXCEPT ![r] = [req[r] EXCEPT !.at = pt]]
    BY <1>7 DEF Find, Goto
  <2> DEFINE k == [req[r] EXCEPT !.at = pt]
  <2>1. k \in Request /\ k.at = pt /\ k.order = req[r].order /\ k.kind = req[r].kind
        /\ k.seen = req[r].seen /\ k.status = "failed"
    BY <1>7 DEF Find, Request, Points
  <2>3. ShownPaidIsPaid'
    BY <1>7 DEF Find, ShownPaidIsPaid
  <2> HIDE DEF k
  <2>4. req' = [req EXCEPT ![r] = k]
    BY <2>0 DEF k
  <2> QED
    BY <1>7, <2>1, <2>3, <2>4, MovePaid DEF Find
<1>8. ASSUME NEW r \in Requests, GetPayments(r) PROVE PaidInv'
  <2>0. PICK pt \in {"write", "rewrite"} :
           /\ req' = [req EXCEPT ![r] = [req[r] EXCEPT !.at = pt, !.seen = list]]
           /\ pt = "rewrite" => req[r].at = "relist"
    BY <1>8 DEF GetPayments
  <2> DEFINE k == [req[r] EXCEPT !.at = pt, !.seen = list]
  <2>1. k \in Request /\ k.at = pt /\ k.order = req[r].order /\ k.kind = req[r].kind
        /\ k.seen = list /\ k.status = req[r].status
    BY DEF Request, Points
  <2>2. k.status \in {"success", "paid"} => k.order \in paid
    BY <1>8, <2>1 DEF GetPayments
  <2>3. ShownPaidIsPaid'
    BY <1>8 DEF GetPayments, ShownPaidIsPaid
  <2>4. \A e \in Entries : k.seen[e] \in {"success", "paid"} => e[1] \in paid
    BY <2>1 DEF ShownPaidIsPaid
  <2>5. k.at \in {"relist", "rewrite"} => k.kind = "callback"
    BY <2>0, <2>1
  <2>6. req' = [req EXCEPT ![r] = k]
    BY <2>0
  <2> HIDE DEF k
  <2> QED
    BY <1>8, <2>1, <2>2, <2>3, <2>4, <2>5, <2>6, MovePaid DEF GetPayments
<1>9. ASSUME NEW r \in Requests, RecordPayment(r) PROVE PaidInv'
  <2> DEFINE k == [req[r] EXCEPT !.at = AfterWrite(req[r]), !.status = Final(req[r].order)]
             ent == Entry(req[r].order, req[r].kind)
  <2>1. /\ Final(req[r].order) \in Statuses
        /\ AfterWrite(req[r]) \in {"relist", "sub", "done"}
        /\ AfterWrite(req[r]) = "relist" => req[r].kind = "callback"
    BY DEF Final, Statuses, AfterWrite
  <2>2. k \in Request /\ k.at = AfterWrite(req[r]) /\ k.order = req[r].order
        /\ k.kind = req[r].kind /\ k.seen = req[r].seen
    BY <2>1 DEF Request, Points
  <2>3. req' = [req EXCEPT ![r] = k]
    BY <1>9 DEF RecordPayment
  <2>4. list' = [req[r].seen EXCEPT ![ent] = req[r].status]
    BY <1>9 DEF RecordPayment
  <2>5. req[r].seen \in [Entries -> Statuses] /\ req[r].status \in Statuses
    BY DEF Request
  <2>6. list' \in [Entries -> Statuses]
    BY <2>4, <2>5
  <2>7. index' \subseteq Orders
    BY <1>9, <1>t DEF RecordPayment, Indexed
  <2>8. req[r].status \in {"success", "paid"} => req[r].order \in paid
    BY <1>9 DEF RecordPayment
  <2>9. ent[1] = req[r].order
    BY DEF Entry
  <2>10. ASSUME NEW e \in Entries, list'[e] \in {"success", "paid"} PROVE e[1] \in paid
    <3>1. CASE e = ent
      BY <2>4, <2>5, <2>8, <2>9, <2>10, <3>1
    <3>2. CASE e # ent
      BY <2>4, <2>5, <2>10, <3>2
    <3> QED
      BY <3>1, <3>2
  <2>11. ShownPaidIsPaid'
    BY <1>9, <2>10 DEF RecordPayment, ShownPaidIsPaid
  <2> HIDE DEF k
  <2> QED
    BY <1>9, <2>1, <2>2, <2>3, <2>6, <2>7, <2>11, MovePaid DEF RecordPayment
<1>10. ASSUME NEW r \in Requests, GetSubscription(r) PROVE PaidInv'
  <2> DEFINE k == [req[r] EXCEPT !.at = "keep", !.start = expiry]
  <2>1. k \in Request /\ k.at = "keep" /\ k.order = req[r].order /\ k.kind = req[r].kind
        /\ k.seen = req[r].seen
    BY DEF Request, Points
  <2>2. req' = [req EXCEPT ![r] = k]
    BY <1>10 DEF GetSubscription
  <2>3. ShownPaidIsPaid'
    BY <1>10 DEF GetSubscription, ShownPaidIsPaid
  <2> HIDE DEF k
  <2> QED
    BY <1>10, <2>1, <2>2, <2>3, MovePaid DEF GetSubscription
<1>11. ASSUME NEW r \in Requests, SetSubscription(r) PROVE PaidInv'
  <2> DEFINE k == [req[r] EXCEPT !.at = "done"]
  <2>1. k \in Request /\ k.at = "done" /\ k.order = req[r].order /\ k.kind = req[r].kind
        /\ k.seen = req[r].seen
    BY DEF Request, Points
  <2>2. req' = [req EXCEPT ![r] = k]
    BY <1>11 DEF SetSubscription, Goto
  <2>3. ShownPaidIsPaid' /\ expiry' \in Nat /\ offered' \subseteq Orders
    BY <1>11, <1>t DEF SetSubscription, ShownPaidIsPaid, Request
  <2> HIDE DEF k
  <2> QED
    BY <1>11, <2>1, <2>2, <2>3, MovePaid DEF SetSubscription
<1>15. ASSUME NEW r \in Requests, AnswerFail(r) PROVE PaidInv'
  <2> DEFINE k == [req[r] EXCEPT !.at = "done"]
  <2>1. k \in Request /\ k.at = "done" /\ k.order = req[r].order /\ k.kind = req[r].kind
        /\ k.seen = req[r].seen
    BY DEF Request, Points
  <2>2. req' = [req EXCEPT ![r] = k]
    BY <1>15 DEF AnswerFail
  <2>3. ShownPaidIsPaid'
    BY <1>15 DEF AnswerFail, ShownPaidIsPaid
  <2> HIDE DEF k
  <2> QED
    BY <1>15, <2>1, <2>2, <2>3, MovePaid DEF AnswerFail
<1>12. ASSUME NEW p \in Orders, Pay(p) PROVE PaidInv'
  <2>1. TypeOK' /\ paid \subseteq paid'
    BY <1>12 DEF Pay
  <2>2. ShownPaidIsPaid'
    BY <1>12, <2>1 DEF Pay, ShownPaidIsPaid
  <2> QED
    BY <1>12, <2>1, <2>2 DEF Pay
<1>13. ASSUME Restart PROVE PaidInv'
  <2>1. ASSUME NEW r \in Requests
        PROVE  /\ req'[r] \in Request
               /\ req'[r] = req[r] \/ req'[r] = [req[r] EXCEPT !.at = "lost"]
    BY <1>13 DEF Restart, Request, Points
  <2>2. req' \in [Requests -> Request]
    BY <1>13, <2>1 DEF Restart
  <2>3. solo' \in BOOLEAN
    BY <1>13, Zenon DEF Restart
  <2>4. TypeOK'
    BY <1>13, <2>2, <2>3 DEF Restart
  <2>5. ShownPaidIsPaid'
    BY <1>13 DEF Restart, ShownPaidIsPaid
  <2>6. ASSUME NEW r \in Requests
        PROVE  /\ req'[r].seen = req[r].seen /\ req'[r].order = req[r].order
               /\ req'[r].kind = req[r].kind /\ req'[r].status = req[r].status
               /\ req'[r].at \in {req[r].at, "lost"}
    BY <2>1 DEF Request
  <2> QED
    BY <1>13, <2>4, <2>5, <2>6 DEF Restart
<1>14. CASE UNCHANGED vars
  BY <1>14 DEF vars, ShownPaidIsPaid
<1> QED
  BY <1>1, <1>2, <1>3, <1>4, <1>5, <1>6, <1>7, <1>8, <1>9, <1>10, <1>11, <1>12, <1>13, <1>14,
     <1>15
  DEF Next

-----------------------------------------------------------------------------
(* The time that was paid for.                                              *)

(* The settled reports are finitely many.                                   *)
LEMMA SettledFinite ==
    ASSUME TypeOK
    PROVE  /\ IsFiniteSet(calls) /\ IsFiniteSet(Settled)
           /\ Cardinality(Settled) \in Nat /\ Cardinality(calls) \in Nat
           /\ Cardinality(Settled) <= Cardinality(calls)
<1>1. calls \in SUBSET Requests /\ Settled \in SUBSET calls /\ IsFiniteSet(Requests)
  BY OrderAssumption DEF TypeOK, Settled
<1>2. IsFiniteSet(calls)
  BY <1>1, FS_Subset
<1> QED BY <1>1, <1>2, FS_Subset, FS_CardinalityType

(* A step of one request, from k.at on, that settles nothing.               *)
LEMMA SettledKept ==
    ASSUME TypeOK, NEW r \in Requests, calls' = calls,
           \A q \in Requests : q # r => req'[q] = req[q],
           req[r].at \in {"activate", "extend"} <=> req'[r].at \in {"activate", "extend"}
    PROVE  Settled' = Settled
<1>1. \A q \in calls : req'[q].at \in {"activate", "extend"} <=> req[q].at \in {"activate", "extend"}
  BY DEF TypeOK
<1> QED BY <1>1 DEF Settled, Owing

(* A new request settles nothing, even if it is told of a payment.          *)
LEMMA BeginReports ==
    ASSUME TypeOK, TypeOK', ReportsInv, NEW r \in Requests, NEW kind, NEW point, NEW status,
           Begin(r, kind, point, status), point \in {"activate", "list", "find", "done"},
           calls' = IF point = "activate" THEN calls \cup {r} ELSE calls
    PROVE  ReportsInv' /\ Settled' = Settled
<1>1. /\ req[r].at = "new" /\ r \notin calls /\ expiry' = expiry
      /\ \A q \in Requests : q # r => req'[q] = req[q]
      /\ req'[r].at = point
  BY DEF Begin, TypeOK, Request, ReportsInv
<1>2. Settled' = Settled
  BY <1>1 DEF Settled, Owing, TypeOK
<1>3. ASSUME NEW q \in Requests
      PROVE  /\ req'[q].at = "new" => q \notin calls'
             /\ req'[q].at \in {"activate", "extend"} => q \in calls'
             /\ req'[q].at \in {"extend", "keep"} => req'[q].start <= Cardinality(Settled)
  BY <1>1 DEF ReportsInv
<1> QED BY <1>1, <1>2, <1>3 DEF ReportsInv

(* A step of request r that settles nothing.                                *)
LEMMA MoveReports ==
    ASSUME TypeOK, TypeOK', ReportsInv, NEW r \in Requests, calls' = calls,
           \A q \in Requests : q # r => req'[q] = req[q],
           req[r].at \in {"activate", "extend"} <=> req'[r].at \in {"activate", "extend"},
           req'[r].at # "new",
           expiry' <= Cardinality(Settled),
           req'[r].at \in {"extend", "keep"} => req'[r].start <= Cardinality(Settled)
    PROVE  ReportsInv' /\ Settled' = Settled
<1>1. Settled' = Settled
  BY SettledKept
<1>2. ASSUME NEW q \in Requests
      PROVE  /\ req'[q].at = "new" => q \notin calls'
             /\ req'[q].at \in {"activate", "extend"} => q \in calls'
             /\ req'[q].at \in {"extend", "keep"} => req'[q].start <= Cardinality(Settled)
  BY DEF ReportsInv
<1> QED BY <1>1, <1>2 DEF ReportsInv

(* An extension settles one report.                                         *)
LEMMA ExtendReports ==
    ASSUME TypeOK, TypeOK', ReportsInv, NEW r \in Requests, Extend(r)
    PROVE  ReportsInv' /\ Cardinality(Settled') = Cardinality(Settled) + 1
<1>1. /\ req[r].at = "extend" /\ r \in calls /\ expiry' = req[r].start + 1 /\ calls' = calls
      /\ \A q \in Requests : q # r => req'[q] = req[q]
      /\ req'[r].at = "list" /\ req[r].start \in Nat
  BY DEF Extend, Goto, TypeOK, Request, ReportsInv
<1>2. Settled' = Settled \cup {r} /\ r \notin Settled
  BY <1>1 DEF Settled, Owing, TypeOK
<1>3. Cardinality(Settled') = Cardinality(Settled) + 1 /\ Cardinality(Settled) \in Nat
  BY <1>2, SettledFinite, FS_AddElement
<1>4. ASSUME NEW q \in Requests
      PROVE  /\ req'[q].at = "new" => q \notin calls'
             /\ req'[q].at \in {"activate", "extend"} => q \in calls'
             /\ req'[q].at \in {"extend", "keep"} => req'[q].start <= Cardinality(Settled) + 1
  <2>1. CASE q = r
    BY <1>1, <2>1
  <2>2. CASE q # r
    <3>1. req'[q] = req[q] /\ req[q].start \in Nat
      BY <1>1, <2>2 DEF TypeOK, Request
    <3> QED BY <1>1, <1>3, <3>1 DEF ReportsInv
  <2> QED BY <2>1, <2>2
<1>5. expiry' <= Cardinality(Settled) + 1
  BY <1>1, <1>3 DEF ReportsInv
<1> QED BY <1>3, <1>4, <1>5 DEF ReportsInv

-----------------------------------------------------------------------------
(* Requests that do not overlap.                                            *)

(* A request begins; it is alone if nobody is under way.                    *)
LEMMA BeginSolo ==
    ASSUME TypeOK, TypeOK', SoloInv, NEW r \in Requests, NEW kind \in Kinds, NEW point, NEW status,
           Begin(r, kind, point, status), point \in {"activate", "list", "find", "done"},
           kind = "callback" => point = "activate",
           Settled' = Settled
    PROVE  SoloInv'
<1> SUFFICES ASSUME solo' PROVE SoloInv'
  BY DEF SoloInv
<1>1. solo /\ \A q \in Requests : ~ Active(q)
  BY DEF Begin
<1>2. /\ UNCHANGED <<expiry, list, index, restarts>>
      /\ \A q \in Requests : q # r => req'[q] = req[q]
      /\ req'[r].at = point /\ req'[r].kind = kind /\ req'[r].order = req[r].order
      /\ req[r].order \in Orders
      /\ last' = [last EXCEPT ![req[r].order] = kind]
  BY DEF Begin, TypeOK, Request
<1>3. ASSUME NEW q \in Requests, Active(q)'
      PROVE  q = r /\ point # "done"
  BY <1>1, <1>2, <1>3 DEF Active
<1>4. \A q \in Requests : Active(q)' =>
         /\ last'[req'[q].order] = req'[q].kind
         /\ req'[q].at \in {"activate", "list", "find"}
         /\ req'[q].kind = "callback" => req'[q].at = "activate"
  BY <1>2, <1>3 DEF TypeOK
<1>5. ASSUME NEW p \in Orders, last'[p] = "callback",
             \A q \in Requests : Active(q)' => req'[q].order # p
      PROVE  list'[Entry(p, "callback")] = Final(p)
  <2>1. p # req[r].order
    <3>1. CASE point = "done"
      <4>1. kind # "callback"
        BY <3>1
      <4> QED BY <1>2, <1>5, <4>1 DEF TypeOK
    <3>2. CASE point # "done"
      <4>1. Active(r)'
        BY <1>2, <3>2 DEF Active
      <4> QED BY <1>2, <1>5, <4>1
    <3> QED BY <3>1, <3>2
  <2>2. last[p] = "callback"
    BY <1>2, <1>5, <2>1 DEF TypeOK
  <2> QED BY <1>1, <1>2, <2>2 DEF SoloInv
<1>6. expiry' = Cardinality(Settled')
  BY <1>1, <1>2 DEF SoloInv
<1>7. restarts' = 0 => PendingIndexed'
  BY <1>1, <1>2 DEF SoloInv, PendingIndexed
<1> QED BY <1>3, <1>4, <1>5, <1>6, <1>7 DEF SoloInv

(* The only request under way takes a step.                                 *)
LEMMA MoveSolo ==
    ASSUME TypeOK, TypeOK', SoloInv, NEW r \in Requests, Active(r),
           UNCHANGED <<solo, last, restarts>>,
           solo /\ PendingIndexed => PendingIndexed',
           \A q \in Requests : q # r => req'[q] = req[q],
           req'[r].order = req[r].order, req'[r].kind = req[r].kind,
           solo => /\ expiry' = Cardinality(Settled')
                   /\ req'[r].at \in {"extend", "keep"} => req'[r].start = expiry'
                   /\ req'[r].at \in {"write", "rewrite"} => req'[r].seen = list'
                   /\ req'[r].kind = "callback" => req'[r].at \notin {"find", "sub", "keep"}
                   /\ req'[r].at \in {"relist", "rewrite"} => req'[r].status = Final(req[r].order)
                   /\ \A p \in Orders : p # req[r].order =>
                         list'[Entry(p, "callback")] = list[Entry(p, "callback")]
                   /\ req[r].kind = "callback" /\ req'[r].at \in {"new", "done", "lost"} =>
                         list'[Entry(req[r].order, "callback")] = Final(req[r].order)
    PROVE  SoloInv'
<1> SUFFICES ASSUME solo' PROVE SoloInv'
  BY DEF SoloInv
<1>1. solo /\ req[r].order \in Orders
  BY DEF TypeOK, Request
<1>2. ASSUME NEW q \in Requests, Active(q)' PROVE q = r
  <2>1. CASE q # r
    BY <1>1, <1>2, <2>1 DEF SoloInv, Active
  <2> QED BY <2>1
<1>3. last'[req'[r].order] = req'[r].kind
  BY <1>1 DEF SoloInv
<1>4. ASSUME NEW p \in Orders, last'[p] = "callback",
             \A q \in Requests : Active(q)' => req'[q].order # p
      PROVE  list'[Entry(p, "callback")] = Final(p)
  <2>1. CASE p = req[r].order
    <3>1. ~ Active(r)'
      BY <1>4, <2>1
    <3>2. req'[r].at \in {"new", "done", "lost"} /\ req[r].kind = "callback"
      BY <1>3, <1>4, <2>1, <3>1 DEF Active
    <3> QED BY <1>1, <2>1, <3>2
  <2>2. CASE p # req[r].order
    <3>1. \A q \in Requests : Active(q) => req[q].order # p
      BY <1>1, <2>2 DEF SoloInv
    <3>2. list[Entry(p, "callback")] = Final(p)
      BY <1>1, <1>4, <3>1 DEF SoloInv
    <3> QED BY <1>1, <2>2, <3>2
  <2> QED BY <2>1, <2>2
<1>5. expiry' = Cardinality(Settled')
  BY <1>1
<1>6. ASSUME NEW q \in Requests, Active(q)'
      PROVE  /\ last'[req'[q].order] = req'[q].kind
             /\ req'[q].at \in {"extend", "keep"} => req'[q].start = expiry'
             /\ req'[q].at \in {"write", "rewrite"} => req'[q].seen = list'
             /\ req'[q].kind = "callback" => req'[q].at \notin {"find", "sub", "keep"}
             /\ req'[q].at \in {"relist", "rewrite"} => req'[q].status = Final(req'[q].order)
  BY <1>1, <1>2, <1>3, <1>6
<1>7. restarts' = 0 => PendingIndexed'
  BY <1>1 DEF SoloInv
<1> QED BY <1>2, <1>4, <1>5, <1>6, <1>7 DEF SoloInv

(* Every step keeps ReportsInv and SoloInv.                                 *)
LEMMA NextOrders ==
    ASSUME PaidInv, TypeOK', ReportsInv, SoloInv, [Next]_vars
    PROVE  ReportsInv' /\ SoloInv'
<1>0. TypeOK /\ req \in [Requests -> Request]
  BY DEF PaidInv, TypeOK
<1>f. ASSUME NEW r \in Requests
      PROVE  /\ req[r] \in Request /\ req[r].order \in Orders /\ req[r].start \in Nat
             /\ req[r].seen \in [Entries -> Statuses]
  BY <1>0 DEF Request
<1>s. expiry \in Nat /\ Cardinality(Settled) \in Nat /\ expiry <= Cardinality(Settled)
  BY <1>0, SettledFinite DEF TypeOK, ReportsInv
<1>i. UNCHANGED <<list, index>> => (PendingIndexed => PendingIndexed')
  BY DEF PendingIndexed
<1>1. ASSUME NEW r \in Requests, Create(r) \/ Callback(r) \/ Process(r) \/ FailReturn(r)
      PROVE  ReportsInv' /\ SoloInv'
  <2>1. PICK kind \in Kinds, point \in {"activate", "list", "find", "done"}, status \in Statuses :
           /\ Begin(r, kind, point, status)
           /\ kind = "callback" => point = "activate"
           /\ calls' = IF point = "activate" THEN calls \cup {r} ELSE calls
    <3> USE DEF Kinds, Statuses
    <3>1. CASE Create(r)
      BY <3>1 DEF Create
    <3>2. CASE Callback(r)
      BY <3>2 DEF Callback
    <3>3. CASE Process(r)
      BY <3>3 DEF Process
    <3>4. CASE FailReturn(r)
      BY <3>4 DEF FailReturn
    <3> QED BY <1>1, <3>1, <3>2, <3>3, <3>4
  <2>2. ReportsInv' /\ Settled' = Settled
    BY <1>0, <2>1, BeginReports
  <2>3. SoloInv'
    BY <1>0, <2>1, <2>2, BeginSolo
  <2> QED BY <2>2, <2>3
<1>2. ASSUME NEW r \in Requests, Activate(r) PROVE ReportsInv' /\ SoloInv'
  <2>1. /\ req[r].at = "activate" /\ req'[r].at = "extend" /\ req'[r].start = expiry
        /\ req'[r].order = req[r].order /\ req'[r].kind = req[r].kind
        /\ \A q \in Requests : q # r => req'[q] = req[q]
        /\ UNCHANGED <<expiry, list, index, calls, solo, last, restarts>>
    BY <1>2, <1>0, <1>f DEF Activate, Request
  <2>2. ReportsInv' /\ Settled' = Settled
    BY <1>0, <1>s, <2>1, MoveReports
  <2>3. SoloInv'
    <3>1. Active(r)
      BY <2>1 DEF Active
    <3>2. solo => expiry' = Cardinality(Settled')
      BY <2>1, <2>2 DEF SoloInv
    <3> QED BY <1>0, <2>1, <3>1, <3>2, <1>i, MoveSolo
  <2> QED BY <2>2, <2>3
<1>3. ASSUME NEW r \in Requests, Extend(r) PROVE ReportsInv' /\ SoloInv'
  <2>1. /\ req[r].at = "extend" /\ req'[r].at = "list" /\ expiry' = req[r].start + 1
        /\ req'[r].order = req[r].order /\ req'[r].kind = req[r].kind
        /\ \A q \in Requests : q # r => req'[q] = req[q]
        /\ UNCHANGED <<list, index, calls, solo, last, restarts>>
    BY <1>3, <1>0, <1>f DEF Extend, Goto, Request
  <2>2. ReportsInv' /\ Cardinality(Settled') = Cardinality(Settled) + 1
    BY <1>0, <1>3, ExtendReports
  <2>3. Active(r)
    BY <2>1 DEF Active
  <2>4. solo => expiry' = Cardinality(Settled')
    BY <2>1, <2>2, <2>3 DEF SoloInv
  <2>5. SoloInv'
    BY <1>0, <2>1, <2>3, <2>4, <1>i, MoveSolo
  <2> QED BY <2>2, <2>5
<1>4. ASSUME NEW r \in Requests, Find(r) PROVE ReportsInv' /\ SoloInv'
  <2>1. /\ req[r].at = "find" /\ req'[r].at \in {"done", "list"}
        /\ req'[r].order = req[r].order /\ req'[r].kind = req[r].kind
        /\ \A q \in Requests : q # r => req'[q] = req[q]
        /\ UNCHANGED <<expiry, list, index, calls, solo, last, restarts>>
    BY <1>4, <1>0, <1>f DEF Find, Goto, Request
  <2>2. ReportsInv' /\ Settled' = Settled
    BY <1>0, <1>s, <2>1, MoveReports
  <2>3. SoloInv'
    <3>1. Active(r)
      BY <2>1 DEF Active
    <3>2. solo => expiry' = Cardinality(Settled') /\ req[r].kind # "callback"
      BY <2>1, <2>2, <3>1 DEF SoloInv
    <3> QED BY <1>0, <2>1, <3>1, <3>2, <1>i, MoveSolo
  <2> QED BY <2>2, <2>3
<1>5. ASSUME NEW r \in Requests, GetPayments(r) PROVE ReportsInv' /\ SoloInv'
  <2>1. /\ req[r].at \in {"list", "relist"} /\ req'[r].seen = list
        /\ req'[r].at = IF req[r].at = "list" THEN "write" ELSE "rewrite"
        /\ req'[r].order = req[r].order /\ req'[r].kind = req[r].kind
        /\ req'[r].status = req[r].status
        /\ \A q \in Requests : q # r => req'[q] = req[q]
        /\ UNCHANGED <<expiry, list, index, calls, solo, last, restarts>>
    BY <1>5, <1>0, <1>f DEF GetPayments, Request
  <2>2. ReportsInv' /\ Settled' = Settled
    BY <1>0, <1>s, <2>1, MoveReports
  <2>3. SoloInv'
    <3>1. Active(r)
      BY <2>1 DEF Active
    <3>2. solo => /\ expiry' = Cardinality(Settled')
                  /\ req[r].at = "relist" => req[r].status = Final(req[r].order)
      BY <2>1, <2>2, <3>1 DEF SoloInv
    <3> QED BY <1>0, <2>1, <3>1, <3>2, <1>i, MoveSolo
  <2> QED BY <2>2, <2>3
<1>6. ASSUME NEW r \in Requests, RecordPayment(r) PROVE ReportsInv' /\ SoloInv'
  <2> DEFINE e == Entry(req[r].order, req[r].kind)
  <2>1. /\ req[r].at \in {"write", "rewrite"} /\ req'[r].at = AfterWrite(req[r])
        /\ req'[r].order = req[r].order /\ req'[r].kind = req[r].kind
        /\ req'[r].status = Final(req[r].order)
        /\ \A q \in Requests : q # r => req'[q] = req[q]
        /\ UNCHANGED <<expiry, calls, solo, last, restarts>> /\ index' = Indexed(req[r].order, req[r].status)
        /\ list' = [req[r].seen EXCEPT ![e] = req[r].status]
    BY <1>6, <1>0, <1>f DEF RecordPayment, Request
  <2>2. /\ AfterWrite(req[r]) \in {"relist", "sub", "done"}
        /\ req[r].kind = "callback" => AfterWrite(req[r]) \in {"relist", "done"}
        /\ req[r].kind = "callback" /\ AfterWrite(req[r]) = "done" => req[r].at = "rewrite"
    BY <2>1 DEF AfterWrite
  <2>3. ReportsInv' /\ Settled' = Settled
    BY <1>0, <1>s, <2>1, <2>2, MoveReports
  <2>4. Active(r)
    BY <2>1 DEF Active
  <2>5. solo => /\ expiry' = Cardinality(Settled')
                /\ list' = [list EXCEPT ![e] = req[r].status]
                /\ req[r].at = "rewrite" => req[r].status = Final(req[r].order)
    BY <2>1, <2>3, <2>4 DEF SoloInv
  <2>6. \A p \in Orders : Entry(p, "callback") \in Entries /\ Entry(p, "callback")[1] = p
    BY DEF Entry, Entries
  <2>7. e \in Entries /\ e[1] = req[r].order
    BY <1>f DEF Entry, Entries
  <2>8. solo => \A p \in Orders : p # req[r].order =>
                   list'[Entry(p, "callback")] = list[Entry(p, "callback")]
    BY <1>0, <2>5, <2>6, <2>7 DEF TypeOK
  <2>9. solo /\ req[r].kind = "callback" /\ AfterWrite(req[r]) = "done"
          => list'[Entry(req[r].order, "callback")] = Final(req[r].order)
    BY <1>0, <2>2, <2>5, <2>7 DEF TypeOK
  <2>10. ASSUME solo, PendingIndexed PROVE PendingIndexed'
    <3> SUFFICES ASSUME NEW p \in Orders, Via[p] = "payanyway", list'[Entry(p, "create")] = "pending"
                 PROVE  p \in index'
      BY DEF PendingIndexed
    <3>1. Entry(p, "create") = <<p, "order">> /\ <<p, "order">> \in Entries
      BY DEF Entry, Entries
    <3>2. CASE p = req[r].order
      <4>1. e = <<p, "order">>
        BY <3>2 DEF Entry
      <4>2. req[r].status = "pending"
        BY <1>0, <2>5, <2>10, <3>1, <4>1 DEF TypeOK
      <4> QED BY <2>1, <3>2, <4>2 DEF Indexed
    <3>3. CASE p # req[r].order
      <4>1. e # <<p, "order">>
        BY <2>7, <3>3
      <4>2. list[Entry(p, "create")] = "pending"
        BY <1>0, <2>5, <2>10, <3>1, <4>1 DEF TypeOK
      <4>3. p \in index
        BY <2>10, <4>2 DEF PendingIndexed
      <4> QED BY <2>1, <3>3, <4>3 DEF Indexed
    <3> QED BY <3>2, <3>3
  <2>11. SoloInv'
    <3> HIDE DEF e
    <3> QED BY <1>0, <2>1, <2>2, <2>4, <2>5, <2>8, <2>9, <2>10, MoveSolo
  <2> QED BY <2>3, <2>11
<1>7. ASSUME NEW r \in Requests, GetSubscription(r) PROVE ReportsInv' /\ SoloInv'
  <2>1. /\ req[r].at = "sub" /\ req'[r].at = "keep" /\ req'[r].start = expiry
        /\ req'[r].order = req[r].order /\ req'[r].kind = req[r].kind
        /\ \A q \in Requests : q # r => req'[q] = req[q]
        /\ UNCHANGED <<expiry, list, index, calls, solo, last, restarts>>
    BY <1>7, <1>0, <1>f DEF GetSubscription, Request
  <2>2. ReportsInv' /\ Settled' = Settled
    BY <1>0, <1>s, <2>1, MoveReports
  <2>3. SoloInv'
    <3>1. Active(r)
      BY <2>1 DEF Active
    <3>2. solo => expiry' = Cardinality(Settled') /\ req[r].kind # "callback"
      BY <2>1, <2>2, <3>1 DEF SoloInv
    <3> QED BY <1>0, <2>1, <3>1, <3>2, <1>i, MoveSolo
  <2> QED BY <2>2, <2>3
<1>8. ASSUME NEW r \in Requests, SetSubscription(r) PROVE ReportsInv' /\ SoloInv'
  <2>1. /\ req[r].at = "keep" /\ req'[r].at = "done" /\ expiry' = req[r].start
        /\ req'[r].order = req[r].order /\ req'[r].kind = req[r].kind
        /\ \A q \in Requests : q # r => req'[q] = req[q]
        /\ UNCHANGED <<list, index, calls, solo, last, restarts>>
    BY <1>8, <1>0, <1>f DEF SetSubscription, Goto, Request
  <2>2. expiry' <= Cardinality(Settled)
    BY <2>1 DEF ReportsInv
  <2>3. ReportsInv' /\ Settled' = Settled
    BY <1>0, <2>1, <2>2, MoveReports
  <2>4. SoloInv'
    <3>1. Active(r)
      BY <2>1 DEF Active
    <3>2. solo => expiry' = Cardinality(Settled') /\ req[r].kind # "callback"
      BY <2>1, <2>3, <3>1 DEF SoloInv
    <3> QED BY <1>0, <2>1, <3>1, <3>2, <1>i, MoveSolo
  <2> QED BY <2>3, <2>4
<1>9. ASSUME UNCHANGED <<expiry, list, index, req, calls, solo, last, restarts>>
      PROVE  ReportsInv' /\ SoloInv'
  <2>1. Settled' = Settled
    BY <1>9 DEF Settled, Owing
  <2>2. ReportsInv'
    BY <1>9, <2>1 DEF ReportsInv
  <2>3. SoloInv'
    BY <1>9, <2>1 DEF SoloInv, Active, PendingIndexed
  <2> QED BY <2>2, <2>3
<1>13. ASSUME NEW r \in Requests, AnswerFail(r) PROVE ReportsInv' /\ SoloInv'
  <2>1. /\ req[r].at = "new" /\ req'[r].at = "done"
        /\ \A q \in Requests : q # r => req'[q] = req[q]
        /\ UNCHANGED <<expiry, list, index, calls, solo, last, restarts>>
    BY <1>13, <1>0, <1>f DEF AnswerFail, Request
  <2>2. ReportsInv' /\ Settled' = Settled
    BY <1>0, <1>s, <2>1, MoveReports
  <2>3. \A q \in Requests : /\ Active(q)' <=> Active(q)
                            /\ Active(q) => req'[q] = req[q]
    BY <2>1 DEF Active
  <2>4. PendingIndexed => PendingIndexed'
    BY <1>i, <2>1
  <2>5. SoloInv'
    BY <2>1, <2>2, <2>3, <2>4 DEF SoloInv
  <2> QED BY <2>2, <2>5
<1>10. ASSUME Restart PROVE ReportsInv' /\ SoloInv'
  <2>1. /\ UNCHANGED <<expiry, list, calls, last>>
        /\ \A r \in Requests : req'[r] = IF Active(r) THEN [req[r] EXCEPT !.at = "lost"] ELSE req[r]
        /\ solo' = (solo /\ \A r \in Requests : ~ Active(r))
        /\ restarts' # 0
    BY <1>10, <1>0 DEF Restart, TypeOK
  <2>2. \A r \in Requests : req'[r].at \in {"new", "done", "lost"} /\ (req'[r].at = "new" => req[r].at = "new")
    BY <1>f, <2>1 DEF Active, Request
  <2>3. Settled' = calls /\ calls \subseteq Requests
    BY <1>0, <2>1, <2>2 DEF Settled, Owing, TypeOK
  <2>4. ReportsInv'
    <3>1. expiry' <= Cardinality(Settled')
      BY <1>0, <1>s, <2>1, <2>3, SettledFinite
    <3> QED BY <2>1, <2>2, <3>1 DEF ReportsInv
  <2>5. ASSUME solo' PROVE SoloInv'
    <3>1. solo /\ \A r \in Requests : ~ Active(r) /\ req'[r] = req[r]
      BY <2>1, <2>5
    <3>2. Settled' = Settled
      BY <2>1, <2>3, <3>1 DEF Settled, Owing, Active
    <3> QED BY <2>1, <3>1, <3>2 DEF SoloInv, Active
  <2> QED BY <2>4, <2>5 DEF SoloInv
<1>11. ASSUME NEW p \in Orders, Pay(p) PROVE ReportsInv' /\ SoloInv'
  BY <1>9, <1>11 DEF Pay
<1>12. CASE UNCHANGED vars
  BY <1>9, <1>12 DEF vars
<1> QED BY <1>1, <1>2, <1>3, <1>4, <1>5, <1>6, <1>7, <1>8, <1>10, <1>11, <1>12, <1>13 DEF Next

-----------------------------------------------------------------------------
(* What requests have read of the list of payments, and are about to write   *)
(* to it (record_payment), is always true of the payments.                  *)
THEOREM PaymentsInvariant == Spec => []PaidInv
  BY InitPaid, NextPaid, PTL DEF Spec

(* The list of payments never shows an order as paid that was not paid,      *)
(* however often record_payment writes back a list that is out of date.     *)
THEOREM OnlyPaidIsShown == Spec => []ShownPaidIsPaid
<1>1. PaidInv => ShownPaidIsPaid
  BY DEF PaidInv
<1> QED
  BY <1>1, PaymentsInvariant, PTL

(* Reports, extensions and the list of payments stay consistent.            *)
THEOREM OrdersInvariant == Spec => []OrderInv
<1>1. Init => ReportsInv /\ SoloInv
  <2> SUFFICES ASSUME Init PROVE ReportsInv /\ SoloInv
    OBVIOUS
  <2>1. \A r \in Requests : req[r].at = "new"
    BY DEF Init
  <2>2. Settled = {} /\ Cardinality({}) = 0 /\ calls = {} /\ expiry = 0
    BY FS_EmptySet DEF Init, Settled, Owing
  <2>3. ReportsInv
    BY <2>1, <2>2 DEF ReportsInv
  <2>4. SoloInv
    BY <2>1, <2>2 DEF SoloInv, PendingIndexed, Entry, Entries, Active, Init
  <2> QED BY <2>3, <2>4
<1>2. PaidInv /\ PaidInv' /\ ReportsInv /\ SoloInv /\ [Next]_vars => ReportsInv' /\ SoloInv'
  BY NextOrders DEF PaidInv
<1>3. Spec => [](ReportsInv /\ SoloInv)
  BY <1>1, <1>2, PaymentsInvariant, PTL DEF Spec
<1>4. PaidInv /\ ReportsInv /\ SoloInv => OrderInv
  BY DEF OrderInv
<1> QED BY <1>3, <1>4, PaymentsInvariant, PTL

(* activate_subscription and set_subscription never give the user more       *)
(* periods than there were reports, and exactly as many while requests do    *)
(* not overlap.                                                             *)
THEOREM TimeIsReported == Spec => []TimeMatchesReports
<1>1. OrderInv => TimeMatchesReports
  <2> SUFFICES ASSUME OrderInv PROVE TimeMatchesReports
    OBVIOUS
  <2>1. TypeOK /\ ReportsInv /\ SoloInv /\ expiry \in Nat /\ calls \subseteq Requests
    BY DEF OrderInv, PaidInv, TypeOK
  <2>2. expiry <= Cardinality(calls)
    BY <2>1, SettledFinite DEF ReportsInv
  <2>3. ASSUME solo, Idle PROVE expiry = Cardinality(calls)
    <3>1. Settled = calls
      BY <2>1, <2>3 DEF Settled, Owing, Idle, Active
    <3> QED BY <2>1, <2>3, <3>1 DEF SoloInv
  <2> QED BY <2>2, <2>3 DEF TimeMatchesReports
<1> QED BY <1>1, OrdersInvariant, PTL

(* While requests do not overlap, a reported payment is shown as paid after  *)
(* both writes of its callback (record_payment).                            *)
THEOREM ReportIsShown == Spec => []PaidIsShown
<1>1. OrderInv => PaidIsShown
  BY DEF OrderInv, SoloInv, PaidIsShown, Idle
<1> QED BY <1>1, OrdersInvariant, PTL

(* While requests do not overlap and nothing restarts, the index of          *)
(* record_payment knows the user of every pending PayAnyWay order.          *)
THEOREM PendingOrdersAreKnown == Spec => []PendingIsKnown
<1>1. OrderInv => PendingIsKnown
  BY DEF OrderInv, SoloInv, PendingIsKnown
<1> QED BY <1>1, OrdersInvariant, PTL

=============================================================================
