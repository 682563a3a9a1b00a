------------------------ MODULE SetkaVouchersProofs ------------------------
(***************************************************************************)
(* TLAPS proofs about SetkaVouchers: the redemption counter is exact,      *)
(* no voucher is redeemed against a stale check, and a user holds what the *)
(* redemptions are worth, no more and no less, for any numbers of users,   *)
(* codes, requests and administrators, any limits and any number of        *)
(* retries.                                                                *)
(***************************************************************************)
EXTENDS SetkaVouchers, FiniteSetTheorems, TLAPS

(* The initial state satisfies the invariant.                               *)
LEMMA InitReservation == Init => ReservationInv
<1> SUFFICES ASSUME Init PROVE ReservationInv
  OBVIOUS
<1>1. NoVoucher \in Voucher
  BY DEF NoVoucher, Voucher
<1>2. \A r \in Requests : req[r].at = "new" /\ req[r] \in Call
  <2>1. ASSUME NEW r \in Requests PROVE req[r].at = "new" /\ req[r] \in Call
    <3>1. req[r] \in [at : {"new"}, user : Users, code : Codes, began : {0},
                      stale : {FALSE}, tries : {0}, start : {0}, listed : {{}}]
      BY DEF Init
    <3>2. "new" \in Points
      BY DEF Points
    <3>3. /\ req[r].at = "new" /\ req[r].user \in Users /\ req[r].code \in Codes
          /\ req[r].began = 0 /\ req[r].tries = 0 /\ req[r].start = 0
          /\ req[r].listed = {}
      BY <3>1
    <3>5. req[r].stale \in {FALSE}
      BY <3>1
    <3>4. req[r] = [at |-> req[r].at, user |-> req[r].user, code |-> req[r].code,
                    began |-> req[r].began, stale |-> req[r].stale, tries |-> req[r].tries,
                    start |-> req[r].start, listed |-> req[r].listed]
      BY <3>1
    <3>6. req[r].stale \in BOOLEAN
      BY <3>5, Zenon
    <3> QED BY <3>2, <3>3, <3>4, <3>6 DEF Call
  <2> QED BY <2>1
<1>3. req \in [Requests -> Call]
  BY <1>2 DEF Init
<1>4. adm \in [Admins -> AdminCall]
  <2>1. \A a \in Admins : adm[a] \in [at : {"new"}, code : Codes, seen : {NoVoucher}]
    BY DEF Init
  <2>2. \A a \in Admins : adm[a] \in AdminCall
    BY <2>1, <1>1 DEF AdminCall
  <2> QED BY <2>2 DEF Init
<1>5. TypeOK
  BY <1>1, <1>3, <1>4 DEF Init, TypeOK
<1>6. Counted
  <2>1. \A a \in Admins : adm[a].at = "new"
    BY DEF Init
  <2> QED BY <2>1, FS_EmptySet DEF Init, Counted, NoVoucher
<1>7. ChecksHold /\ LocksHeld
  BY <1>2 DEF ChecksHold, Checked, LocksHeld
<1> QED BY <1>5, <1>6, <1>7 DEF ReservationInv

(* A step of one call that leaves the tables alone.                         *)
LEMMA CallStep ==
  ASSUME ReservationInv, NEW r \in Requests,
         req' = [req EXCEPT ![r] = req'[r]], req'[r] \in Call,
         req'[r].user = req[r].user, req'[r].code = req[r].code,
         UNCHANGED <<row, reds, adm>>,
         now' \in Nat, crashes' \in Nat, expiry' \in [Users -> Nat],
         payments' \in [Users -> SUBSET Codes], raced' \in [Users -> SUBSET AccountData],
         Checked(req'[r]) => Redeemable(row[req[r].code], req'[r].began, 0),
         req'[r].at \in {"update", "commit"} =>
            /\ req[r].user \notin reds[req[r].code]
            /\ \/ req[r].at \in {"update", "commit"}
               \/ ~ KeyLocked(req[r].code, req[r].user),
         req'[r].at = "commit" => req[r].at = "commit" \/ ~ RowLocked(req[r].code)
  PROVE  ReservationInv'
<1>1. TypeOK /\ Counted /\ ChecksHold /\ LocksHeld
  BY DEF ReservationInv
<1>2. \A s \in Requests : s # r => req'[s] = req[s]
  BY <1>1 DEF TypeOK
<1>3. TypeOK'
  BY <1>1 DEF TypeOK
<1>4. Counted'
  BY <1>1 DEF Counted, Exists
<1>5. ChecksHold'
  <2> SUFFICES ASSUME NEW s \in Requests, Checked(req'[s])
               PROVE  Redeemable(row[req'[s].code], req'[s].began, 0)
    BY DEF ChecksHold
  <2>1. CASE s = r
    BY <2>1
  <2>2. CASE s # r
    BY <2>2, <1>1, <1>2 DEF ChecksHold
  <2> QED BY <2>1, <2>2
<1>6. ASSUME NEW s \in Requests, s # r, req[s].code = req[r].code
      PROVE  /\ req'[r].at = "commit" => req[s].at # "commit"
             /\ req'[r].at \in {"update", "commit"} /\ req[s].at \in {"update", "commit"}
                   => req[r].user # req[s].user
  <2>1. /\ req[r].at = "commit" => req[s].at # "commit"
        /\ req[r].at \in {"update", "commit"} /\ req[s].at \in {"update", "commit"}
              => req[r].user # req[s].user
    BY <1>1, <1>6 DEF LocksHeld
  <2> QED BY <2>1, <1>6 DEF RowLocked, KeyLocked
<1>7. LocksHeld'
  <2>1. \A s \in Requests : req'[s].at \in {"update", "commit"}
                              => req'[s].user \notin reds'[req'[s].code]
    BY <1>1, <1>2 DEF LocksHeld
  <2>2. ASSUME NEW s \in Requests, NEW x \in Requests, s # x, req'[s].code = req'[x].code
        PROVE  /\ req'[s].at = "commit" => req'[x].at # "commit"
               /\ req'[s].at \in {"update", "commit"} /\ req'[x].at \in {"update", "commit"}
                     => req'[s].user # req'[x].user
    <3>1. CASE s # r /\ x # r
      BY <3>1, <2>2, <1>1, <1>2 DEF LocksHeld
    <3>2. CASE s = r
      BY <3>2, <2>2, <1>2, <1>6
    <3>3. CASE x = r
      BY <3>3, <2>2, <1>2, <1>6
    <3> QED BY <3>1, <3>2, <3>3
  <2> QED BY <2>1, <2>2 DEF LocksHeld
<1> QED BY <1>3, <1>4, <1>5, <1>7 DEF ReservationInv

(* The types of the fields of a call.                                       *)
LEMMA CallFields ==
  ASSUME TypeOK, NEW r \in Requests
  PROVE  /\ req[r] \in Call /\ req[r].user \in Users /\ req[r].code \in Codes
         /\ req[r].tries \in Nat /\ req[r].start \in Nat /\ req[r].began \in Nat
         /\ req[r].listed \subseteq Codes
BY DEF TypeOK, Call

(* Fewer redemptions of the user only make a voucher more redeemable.       *)
LEMMA RedeemableByNew ==
  ASSUME NEW v \in Voucher, NEW began \in Nat, NEW n \in {0, 1}, Redeemable(v, began, n)
  PROVE  Redeemable(v, began, 0)
BY DEF Redeemable, Voucher

(* The steps of a request before and after its reservation commits.         *)
LEMMA ProgressReservation ==
  ASSUME ReservationInv, NEW r \in Requests,
         \/ Redeem(r) \/ Select(r) \/ Insert(r) \/ Increment(r) \/ Retry(r)
         \/ Activate(r) \/ ReadSubscription(r) \/ Extend(r) \/ ListPayments(r)
         \/ RecordPayment(r) \/ Crash(r)
  PROVE  ReservationInv'
<1>1. TypeOK /\ Counted /\ ChecksHold /\ LocksHeld
  BY DEF ReservationInv
<1>2. /\ req[r] \in Call /\ req[r].user \in Users /\ req[r].code \in Codes
      /\ req[r].tries \in Nat /\ req[r].start \in Nat /\ req[r].began \in Nat
      /\ req[r].listed \subseteq Codes /\ req \in [Requests -> Call]
  BY <1>1, CallFields DEF TypeOK
<1>3. /\ now \in Nat /\ crashes \in Nat /\ expiry \in [Users -> Nat]
      /\ payments \in [Users -> SUBSET Codes] /\ row[req[r].code] \in Voucher
      /\ raced \in [Users -> SUBSET AccountData]
  BY <1>1, <1>2 DEF TypeOK
<1>4. Finished \subseteq Points /\ {"select", "insert", "update", "commit", "read", "extend",
                                    "list", "record"} \subseteq Points
  BY DEF Points
<1>5. ASSUME NEW p \in Points, req'[r].at = p, p \notin {"insert", "update", "commit"},
             req' = [req EXCEPT ![r] = req'[r]], req'[r] \in Call,
             req'[r].user = req[r].user, req'[r].code = req[r].code,
             UNCHANGED <<row, reds, adm>>,
             now' \in Nat, crashes' \in Nat, expiry' \in [Users -> Nat],
             payments' \in [Users -> SUBSET Codes], raced' \in [Users -> SUBSET AccountData]
      PROVE  ReservationInv'
  <2>1. ~ Checked(req'[r])
    BY <1>5 DEF Checked
  <2> QED BY <2>1, <1>5, CallStep
<1>6. CASE Redeem(r)
  <2>1. /\ req'[r] = [req[r] EXCEPT !.at = "select", !.began = now]
        /\ req' = [req EXCEPT ![r] = req'[r]]
    BY <1>2, <1>6 DEF Redeem, Call
  <2>2. /\ req'[r] \in Call /\ req'[r].at = "select" /\ req'[r].user = req[r].user
        /\ req'[r].code = req[r].code
    BY <2>1, <1>2, <1>3, <1>4 DEF Call
  <2>3. UNCHANGED <<now, row, reds, adm, expiry, payments, crashes, raced>>
    BY <1>6 DEF Redeem
  <2> QED BY <2>1, <2>2, <2>3, <1>3, <1>4, <1>5
<1>7. CASE Retry(r)
  <2>1. PICK p \in {"select", "error"}, n \in Nat :
           req'[r] = [req[r] EXCEPT !.at = p, !.tries = n] /\ req' = [req EXCEPT ![r] = req'[r]]
    <3>1. CASE req[r].tries < Retries
      <4>1. /\ req'[r] = [req[r] EXCEPT !.at = "select", !.tries = req[r].tries + 1]
            /\ req' = [req EXCEPT ![r] = req'[r]]
        BY <3>1, <1>2, <1>7 DEF Retry, Call
      <4>2. req[r].tries + 1 \in Nat
        BY <1>2
      <4> QED BY <4>1, <4>2
    <3>2. CASE ~ (req[r].tries < Retries)
      <4>1. /\ req'[r] = [req[r] EXCEPT !.at = "error", !.tries = req[r].tries]
            /\ req' = [req EXCEPT ![r] = req'[r]]
        BY <3>2, <1>2, <1>7 DEF Retry, Call
      <4> QED BY <4>1, <1>2
    <3> QED BY <3>1, <3>2
  <2>2. p \in Points
    BY <1>4 DEF Finished
  <2>3. /\ req'[r] \in Call /\ req'[r].at = p /\ req'[r].user = req[r].user
        /\ req'[r].code = req[r].code
    BY <2>1, <2>2, <1>2 DEF Call
  <2>4. UNCHANGED <<now, row, reds, adm, expiry, payments, crashes, raced>>
    BY <1>7 DEF Retry
  <2> QED BY <2>1, <2>2, <2>3, <2>4, <1>3, <1>5
<1>8. CASE Activate(r)
  <2>1. /\ req'[r] = [req[r] EXCEPT !.at = "read", !.start = now]
        /\ req' = [req EXCEPT ![r] = req'[r]]
    BY <1>2, <1>8 DEF Activate, Call
  <2>2. /\ req'[r] \in Call /\ req'[r].at = "read" /\ req'[r].user = req[r].user
        /\ req'[r].code = req[r].code
    BY <2>1, <1>2, <1>3, <1>4 DEF Call
  <2>3. UNCHANGED <<now, row, reds, adm, expiry, payments, crashes, raced>>
    BY <1>8 DEF Activate
  <2> QED BY <2>1, <2>2, <2>3, <1>3, <1>4, <1>5
<1>16. CASE ReadSubscription(r)
  <2>1. PICK n \in Nat : /\ req'[r] = [req[r] EXCEPT !.at = "extend", !.start = n]
                         /\ req' = [req EXCEPT ![r] = req'[r]]
    <3>1. PICK n \in Nat :
             n = IF expiry[req[r].user] > req[r].start THEN expiry[req[r].user] ELSE req[r].start
      BY <1>2, <1>3
    <3> QED BY <3>1, <1>2, <1>16 DEF ReadSubscription, Call
  <2>2. /\ req'[r] \in Call /\ req'[r].at = "extend" /\ req'[r].user = req[r].user
        /\ req'[r].code = req[r].code
    BY <2>1, <1>2, <1>4 DEF Call
  <2>3. /\ UNCHANGED <<now, row, reds, adm, expiry, payments, crashes>>
        /\ raced' = Races(r, "subscription", "extend")
    BY <1>16 DEF ReadSubscription
  <2>4. raced' \in [Users -> SUBSET AccountData]
    BY <2>3, <1>2, <1>3 DEF Races, AccountData
  <2> QED BY <2>1, <2>2, <2>3, <2>4, <1>3, <1>4, <1>5
<1>9. CASE Extend(r)
  <2>1. req'[r] = [req[r] EXCEPT !.at = "list"] /\ req' = [req EXCEPT ![r] = req'[r]]
    BY <1>2, <1>9 DEF Extend, Call
  <2>2. /\ req'[r] \in Call /\ req'[r].at = "list" /\ req'[r].user = req[r].user
        /\ req'[r].code = req[r].code
    BY <2>1, <1>2, <1>4 DEF Call
  <2>3. UNCHANGED <<now, row, reds, adm, payments, crashes, raced>>
    BY <1>9 DEF Extend
  <2>4. expiry' \in [Users -> Nat]
    BY <1>2, <1>3, <1>9, TimeAssumption DEF Extend
  <2> QED BY <2>1, <2>2, <2>3, <2>4, <1>3, <1>4, <1>5
<1>10. CASE ListPayments(r)
  <2>1. /\ req'[r] = [req[r] EXCEPT !.at = "record", !.listed = payments[req[r].user]]
        /\ req' = [req EXCEPT ![r] = req'[r]]
    BY <1>2, <1>10 DEF ListPayments, Call
  <2>2. /\ req'[r] \in Call /\ req'[r].at = "record" /\ req'[r].user = req[r].user
        /\ req'[r].code = req[r].code
    BY <2>1, <1>2, <1>3, <1>4 DEF Call
  <2>3. /\ UNCHANGED <<now, row, reds, adm, expiry, payments, crashes>>
        /\ raced' = Races(r, "payments", "record")
    BY <1>10 DEF ListPayments
  <2>4. raced' \in [Users -> SUBSET AccountData]
    BY <2>3, <1>2, <1>3 DEF Races, AccountData
  <2> QED BY <2>1, <2>2, <2>3, <2>4, <1>3, <1>4, <1>5
<1>11. CASE RecordPayment(r)
  <2>1. req'[r] = [req[r] EXCEPT !.at = "done"] /\ req' = [req EXCEPT ![r] = req'[r]]
    BY <1>2, <1>11 DEF RecordPayment, Call
  <2>2. "done" \in Points
    BY <1>4 DEF Finished
  <2>3. /\ req'[r] \in Call /\ req'[r].at = "done" /\ req'[r].user = req[r].user
        /\ req'[r].code = req[r].code
    BY <2>1, <2>2, <1>2 DEF Call
  <2>4. UNCHANGED <<now, row, reds, adm, expiry, crashes, raced>>
    BY <1>11 DEF RecordPayment
  <2>5. payments' \in [Users -> SUBSET Codes]
    BY <1>2, <1>3, <1>11 DEF RecordPayment
  <2> QED BY <2>1, <2>2, <2>3, <2>4, <2>5, <1>3, <1>5
<1>12. CASE Crash(r)
  <2>1. req'[r] = [req[r] EXCEPT !.at = "lost"] /\ req' = [req EXCEPT ![r] = req'[r]]
    BY <1>2, <1>12 DEF Crash, Call
  <2>2. "lost" \in Points
    BY <1>4 DEF Finished
  <2>3. /\ req'[r] \in Call /\ req'[r].at = "lost" /\ req'[r].user = req[r].user
        /\ req'[r].code = req[r].code
    BY <2>1, <2>2, <1>2 DEF Call
  <2>4. UNCHANGED <<now, row, reds, adm, expiry, payments, raced>> /\ crashes' \in Nat
    BY <1>3, <1>12 DEF Crash
  <2> QED BY <2>1, <2>2, <2>3, <2>4, <1>3, <1>5
<1>13. CASE Select(r)
  <2>1. PICK n \in {0, 1} : n = IF req[r].user \in reds[req[r].code] THEN 1 ELSE 0
    OBVIOUS
  <2>2. PICK p \in {"insert", "refused"} :
           p = IF Redeemable(row[req[r].code], req[r].began, n) THEN "insert" ELSE "refused"
    OBVIOUS
  <2>3. /\ req'[r] = [req[r] EXCEPT !.at = p, !.stale = FALSE]
        /\ req' = [req EXCEPT ![r] = req'[r]]
    BY <2>1, <2>2, <1>2, <1>13 DEF Select, Call
  <2>4. p \in Points
    BY <1>4 DEF Finished
  <2>5. /\ req'[r] \in Call /\ req'[r].at = p /\ req'[r].user = req[r].user
        /\ req'[r].code = req[r].code /\ req'[r].began = req[r].began
    BY <2>3, <2>4, <1>2 DEF Call
  <2>6. UNCHANGED <<now, row, reds, adm, expiry, payments, crashes, raced>>
    BY <1>13 DEF Select
  <2>7. p = "insert" => Redeemable(row[req[r].code], req'[r].began, 0)
    BY <2>2, <2>5, <1>2, <1>3, RedeemableByNew
  <2>8. Checked(req'[r]) => p = "insert"
    BY <2>5 DEF Checked
  <2>9. req' = [req EXCEPT ![r] = req'[r]]
    BY <2>3
  <2> QED BY <2>5, <2>6, <2>7, <2>8, <2>9, <1>3, CallStep
<1>14. CASE Insert(r)
  <2>1. PICK p \in {"error", "update"} :
           p = IF req[r].user \in reds[req[r].code] THEN "error" ELSE "update"
    OBVIOUS
  <2>2. req'[r] = [req[r] EXCEPT !.at = p] /\ req' = [req EXCEPT ![r] = req'[r]]
    BY <2>1, <1>2, <1>14 DEF Insert, Call
  <2>3. p \in Points
    BY <1>4 DEF Finished
  <2>4. /\ req'[r] \in Call /\ req'[r].at = p /\ req'[r].user = req[r].user
        /\ req'[r].code = req[r].code /\ req'[r].began = req[r].began
        /\ req'[r].stale = req[r].stale
    BY <2>2, <2>3, <1>2 DEF Call
  <2>5. /\ UNCHANGED <<now, row, reds, adm, expiry, payments, crashes, raced>>
        /\ req[r].at = "insert" /\ ~ KeyLocked(req[r].code, req[r].user)
    BY <1>14 DEF Insert
  <2>6. Checked(req'[r]) => Redeemable(row[req[r].code], req'[r].began, 0)
    BY <2>4, <2>5, <1>1 DEF ChecksHold, Checked
  <2>7. req' = [req EXCEPT ![r] = req'[r]]
    BY <2>2
  <2> QED BY <2>1, <2>4, <2>5, <2>6, <2>7, <1>3, CallStep
<1>15. CASE Increment(r)
  <2>1. req'[r] = [req[r] EXCEPT !.at = "commit"] /\ req' = [req EXCEPT ![r] = req'[r]]
    BY <1>2, <1>15 DEF Increment, Call
  <2>2. /\ req'[r] \in Call /\ req'[r].at = "commit" /\ req'[r].user = req[r].user
        /\ req'[r].code = req[r].code /\ req'[r].began = req[r].began
    BY <2>1, <1>2, <1>4 DEF Call
  <2>3. /\ UNCHANGED <<now, row, reds, adm, expiry, payments, crashes, raced>>
        /\ req[r].at = "update" /\ ~ RowLocked(req[r].code) /\ ~ req[r].stale
    BY <1>15 DEF Increment
  <2>4. Redeemable(row[req[r].code], req'[r].began, 0) /\ req[r].user \notin reds[req[r].code]
    BY <2>2, <2>3, <1>1 DEF ChecksHold, Checked, LocksHeld
  <2>5. req' = [req EXCEPT ![r] = req'[r]]
    BY <2>1
  <2> QED BY <2>2, <2>3, <2>4, <2>5, <1>3, CallStep
<1> QED BY <1>6, <1>7, <1>8, <1>9, <1>10, <1>11, <1>12, <1>13, <1>14, <1>15, <1>16

(* A write to a voucher row outdates the snapshots of it and nothing else.  *)
LEMMA OutdatedCalls ==
  ASSUME TypeOK, NEW c \in Codes
  PROVE  /\ Outdated(req, c) \in [Requests -> Call]
         /\ \A s \in Requests :
               /\ Outdated(req, c)[s].at = req[s].at /\ Outdated(req, c)[s].code = req[s].code
               /\ Outdated(req, c)[s].user = req[s].user
               /\ Outdated(req, c)[s].began = req[s].began
               /\ Checked(Outdated(req, c)[s]) =>
                     Checked(req[s]) /\ (req[s].code = c => req[s].at = "commit")
<1> SUFFICES ASSUME NEW s \in Requests
             PROVE  /\ Outdated(req, c)[s] \in Call
                    /\ Outdated(req, c)[s].at = req[s].at /\ Outdated(req, c)[s].code = req[s].code
                    /\ Outdated(req, c)[s].user = req[s].user
                    /\ Outdated(req, c)[s].began = req[s].began
                    /\ Checked(Outdated(req, c)[s]) =>
                          Checked(req[s]) /\ (req[s].code = c => req[s].at = "commit")
  BY DEF Outdated
<1>1. req[s] \in Call
  BY CallFields
<1>2. CASE req[s].code = c /\ req[s].at \in {"insert", "update"}
  <2>1. Outdated(req, c)[s] = [req[s] EXCEPT !.stale = TRUE]
    BY <1>2 DEF Outdated
  <2>2. /\ Outdated(req, c)[s] \in Call
        /\ Outdated(req, c)[s].at = req[s].at /\ Outdated(req, c)[s].code = req[s].code
        /\ Outdated(req, c)[s].user = req[s].user /\ Outdated(req, c)[s].began = req[s].began
    BY <2>1, <1>1 DEF Call
  <2>3. Outdated(req, c)[s].stale
    BY <2>1, <1>1 DEF Call
  <2> QED BY <2>2, <2>3, <1>2 DEF Checked
<1>3. CASE ~ (req[s].code = c /\ req[s].at \in {"insert", "update"})
  <2>1. Outdated(req, c)[s] = req[s]
    BY <1>3 DEF Outdated
  <2> QED BY <2>1, <1>1, <1>3 DEF Checked
<1> QED BY <1>2, <1>3

(* An administrator's write leaves the counter alone and, as it waits for    *)
(* the row lock, meets no reservation whose checks it could void.           *)
LEMMA AdminWriteReservation ==
  ASSUME ReservationInv, NEW a \in Admins, NEW v \in Voucher, AdminWrite(a, v),
         v.count = row[adm[a].code].count, v.max > 0
  PROVE  ReservationInv'
<1>1. TypeOK /\ Counted /\ ChecksHold /\ LocksHeld
  BY DEF ReservationInv
<1>2. PICK c \in Codes : c = adm[a].code
  BY <1>1 DEF TypeOK, AdminCall
<1>3. /\ ~ RowLocked(c) /\ row' = [row EXCEPT ![c] = v] /\ req' = Outdated(req, c)
      /\ adm' = [adm EXCEPT ![a].at = "done", ![a].seen = NoVoucher]
      /\ UNCHANGED <<now, reds, expiry, payments, crashes, raced>>
  BY <1>2 DEF AdminWrite
<1>4. /\ req' \in [Requests -> Call]
      /\ \A s \in Requests :
            /\ req'[s].at = req[s].at /\ req'[s].code = req[s].code
            /\ req'[s].user = req[s].user /\ req'[s].began = req[s].began
            /\ Checked(req'[s]) => Checked(req[s]) /\ (req[s].code = c => req[s].at = "commit")
  BY <1>1, <1>3, OutdatedCalls
<1>5. adm' \in [Admins -> AdminCall]
  <2>1. NoVoucher \in Voucher
    BY DEF NoVoucher, Voucher
  <2>2. adm[a] \in AdminCall /\ adm \in [Admins -> AdminCall]
    BY <1>1 DEF TypeOK
  <2>3. [adm[a] EXCEPT !.at = "done", !.seen = NoVoucher] \in AdminCall
    BY <2>1, <2>2 DEF AdminCall
  <2>4. adm' = [adm EXCEPT ![a] = [adm[a] EXCEPT !.at = "done", !.seen = NoVoucher]]
    BY <2>2, <1>3 DEF AdminCall
  <2> QED BY <2>2, <2>3, <2>4
<1>6. TypeOK'
  BY <1>1, <1>3, <1>4, <1>5 DEF TypeOK
<1>7. Counted'
  <2>1. \A d \in Codes : row'[d] = IF d = c THEN v ELSE row[d]
    BY <1>1, <1>3 DEF TypeOK
  <2>2. \A d \in Codes : /\ IsFiniteSet(reds'[d]) /\ row'[d].count = Cardinality(reds'[d])
                         /\ row'[d].max > 0 \/ reds'[d] = {}
    BY <2>1, <1>1, <1>2, <1>3 DEF Counted, Exists
  <2>3. ASSUME NEW b \in Admins, adm'[b].at = "write"
        PROVE  row'[adm'[b].code].max > 0 /\ adm'[b].seen.max > 0
    <3>1. adm[a] \in AdminCall /\ adm \in [Admins -> AdminCall] /\ adm[b].code \in Codes
      BY <1>1 DEF TypeOK, AdminCall
    <3>2. b # a /\ adm'[b] = adm[b]
      BY <3>1, <2>3, <1>3 DEF AdminCall
    <3> QED BY <3>1, <3>2, <2>1, <2>3, <1>1 DEF Counted, Exists
  <2> QED BY <2>2, <2>3 DEF Counted, Exists
<1>8. ChecksHold'
  <2> SUFFICES ASSUME NEW s \in Requests, Checked(req'[s])
               PROVE  Redeemable(row'[req'[s].code], req'[s].began, 0)
    BY DEF ChecksHold
  <2>1. req[s].code # c
    BY <1>3, <1>4 DEF RowLocked
  <2>2. row'[req'[s].code] = row[req[s].code]
    BY <2>1, <1>1, <1>3, <1>4, CallFields DEF TypeOK
  <2> QED BY <2>2, <1>1, <1>4 DEF ChecksHold
<1>9. LocksHeld'
  BY <1>1, <1>3, <1>4 DEF LocksHeld
<1> QED BY <1>6, <1>7, <1>8, <1>9 DEF ReservationInv

(* The commit adds one redemption row and one to the counter.               *)
LEMMA CommitReservation ==
  ASSUME ReservationInv, NEW r \in Requests, Commit(r)
  PROVE  ReservationInv'
<1>1. TypeOK /\ Counted /\ ChecksHold /\ LocksHeld
  BY DEF ReservationInv
<1>2. PICK c \in Codes : c = req[r].code
  BY <1>1, CallFields
<1>3. PICK u \in Users : u = req[r].user
  BY <1>1, CallFields
<1>4. /\ req[r].at = "commit"
      /\ reds' = [reds EXCEPT ![c] = @ \cup {u}]
      /\ row' = [row EXCEPT ![c].count = @ + 1]
      /\ req' = [Outdated(req, c) EXCEPT ![r].at = "activate"]
      /\ UNCHANGED <<now, adm, expiry, payments, crashes, raced>>
  BY <1>2, <1>3 DEF Commit
<1>5. /\ Outdated(req, c) \in [Requests -> Call]
      /\ \A s \in Requests :
            /\ Outdated(req, c)[s].at = req[s].at /\ Outdated(req, c)[s].code = req[s].code
            /\ Outdated(req, c)[s].user = req[s].user
            /\ Outdated(req, c)[s].began = req[s].began
            /\ Checked(Outdated(req, c)[s]) =>
                  Checked(req[s]) /\ (req[s].code = c => req[s].at = "commit")
  BY <1>1, OutdatedCalls
<1>6. /\ req' \in [Requests -> Call] /\ req'[r].at = "activate"
      /\ \A s \in Requests : /\ req'[s].code = req[s].code /\ req'[s].user = req[s].user
                             /\ req'[s].began = req[s].began
                             /\ s # r => req'[s] = Outdated(req, c)[s]
  <2>1. "activate" \in Points
    BY DEF Points
  <2>2. Outdated(req, c)[r] \in Call
    BY <1>5
  <2>3. /\ [Outdated(req, c)[r] EXCEPT !.at = "activate"] \in Call
        /\ [Outdated(req, c)[r] EXCEPT !.at = "activate"].at = "activate"
        /\ [Outdated(req, c)[r] EXCEPT !.at = "activate"].code = Outdated(req, c)[r].code
        /\ [Outdated(req, c)[r] EXCEPT !.at = "activate"].user = Outdated(req, c)[r].user
        /\ [Outdated(req, c)[r] EXCEPT !.at = "activate"].began = Outdated(req, c)[r].began
    BY <2>1, <2>2 DEF Call
  <2>4. req' = [Outdated(req, c) EXCEPT ![r] = [Outdated(req, c)[r] EXCEPT !.at = "activate"]]
    BY <1>4, <1>5 DEF Call
  <2> QED BY <2>3, <2>4, <1>5
<1>7. /\ \A d \in Codes : row'[d] = IF d = c THEN [row[c] EXCEPT !.count = row[c].count + 1]
                                             ELSE row[d]
      /\ row' \in [Codes -> Voucher]
  <2>1. row[c] \in Voucher /\ row \in [Codes -> Voucher]
    BY <1>1 DEF TypeOK
  <2>2. [row[c] EXCEPT !.count = row[c].count + 1] \in Voucher
    BY <2>1 DEF Voucher
  <2>3. row' = [row EXCEPT ![c] = [row[c] EXCEPT !.count = row[c].count + 1]]
    BY <2>1, <1>4 DEF Voucher
  <2> QED BY <2>1, <2>2, <2>3
<1>8. \A d \in Codes : reds'[d] = IF d = c THEN reds[c] \cup {u} ELSE reds[d]
  BY <1>1, <1>4 DEF TypeOK
<1>9. TypeOK'
  BY <1>1, <1>4, <1>6, <1>7 DEF TypeOK
<1>10. Counted'
  <2>1. IsFiniteSet(reds[c]) /\ row[c].count = Cardinality(reds[c])
    BY <1>1 DEF Counted
  <2>2. u \notin reds[c]
    BY <1>1, <1>2, <1>3, <1>4 DEF LocksHeld
  <2>3. IsFiniteSet(reds[c] \cup {u}) /\ Cardinality(reds[c] \cup {u}) = Cardinality(reds[c]) + 1
    BY <2>1, <2>2, FS_AddElement
  <2>4. [row[c] EXCEPT !.count = row[c].count + 1].count = row[c].count + 1
    BY <1>1 DEF TypeOK, Voucher
  <2>5. row[c].max > 0 /\ [row[c] EXCEPT !.count = row[c].count + 1].max = row[c].max
    <3>1. Redeemable(row[c], req[r].began, 0)
      BY <1>1, <1>2, <1>4 DEF ChecksHold, Checked
    <3> QED BY <3>1, <1>1 DEF Redeemable, TypeOK, Voucher
  <2>6. \A d \in Codes : /\ IsFiniteSet(reds'[d]) /\ row'[d].count = Cardinality(reds'[d])
                         /\ row'[d].max > 0 \/ reds'[d] = {}
    BY <2>1, <2>3, <2>4, <2>5, <1>1, <1>7, <1>8 DEF Counted, Exists
  <2>7. \A a \in Admins : adm'[a].at = "write" => row'[adm'[a].code].max > 0 /\ adm'[a].seen.max > 0
    <3>1. \A a \in Admins : adm[a].code \in Codes
      BY <1>1 DEF TypeOK, AdminCall
    <3> QED BY <3>1, <2>5, <1>1, <1>4, <1>7 DEF Counted, Exists
  <2> QED BY <2>6, <2>7 DEF Counted, Exists
<1>11. ASSUME NEW s \in Requests, req[s].code = c, s # r PROVE req[s].at # "commit"
  BY <1>1, <1>2, <1>4, <1>11 DEF LocksHeld
<1>12. ChecksHold'
  <2> SUFFICES ASSUME NEW s \in Requests, Checked(req'[s])
               PROVE  Redeemable(row'[req'[s].code], req'[s].began, 0)
    BY DEF ChecksHold
  <2>1. s # r
    BY <1>6 DEF Checked
  <2>2. Checked(req[s]) /\ req[s].code # c
    BY <2>1, <1>5, <1>6, <1>11
  <2>3. row'[req'[s].code] = row[req[s].code]
    BY <2>2, <1>1, <1>6, <1>7, CallFields
  <2> QED BY <2>2, <2>3, <1>1, <1>6 DEF ChecksHold
<1>13. LocksHeld'
  <2>1. \A s \in Requests : s # r => req'[s].at = req[s].at
    BY <1>5, <1>6
  <2>2. ASSUME NEW s \in Requests, req'[s].at \in {"update", "commit"}
        PROVE  req'[s].user \notin reds'[req'[s].code]
    <3>1. s # r /\ req[s].at \in {"update", "commit"}
      BY <2>1, <2>2, <1>6
    <3>2. req[s].code = c => req[s].user # u
      BY <3>1, <1>1, <1>2, <1>3, <1>4 DEF LocksHeld
    <3>3. req[s].user \notin reds[req[s].code] /\ req[s].code \in Codes
      BY <3>1, <1>1, CallFields DEF LocksHeld
    <3> QED BY <3>2, <3>3, <1>6, <1>8
  <2>3. ASSUME NEW s \in Requests, NEW x \in Requests, s # x, req'[s].code = req'[x].code
        PROVE  /\ req'[s].at = "commit" => req'[x].at # "commit"
               /\ req'[s].at \in {"update", "commit"} /\ req'[x].at \in {"update", "commit"}
                     => req'[s].user # req'[x].user
    BY <2>1, <2>3, <1>1, <1>6 DEF LocksHeld
  <2> QED BY <2>2, <2>3 DEF LocksHeld
<1> QED BY <1>9, <1>10, <1>12, <1>13 DEF ReservationInv

(* A new voucher has no redemptions, and no reservation was waiting for it. *)
LEMMA CreateReservation ==
  ASSUME ReservationInv, NEW c \in Codes, CreateVoucher(c)
  PROVE  ReservationInv'
<1>1. TypeOK /\ Counted /\ ChecksHold /\ LocksHeld
  BY DEF ReservationInv
<1>2. PICK max, perUser \in Limits, expires \in (now + 1) .. (MaxTime + 1), active \in BOOLEAN :
         row' = [row EXCEPT ![c] = [max |-> max, count |-> 0, perUser |-> perUser,
                                    expires |-> expires, active |-> active]]
  BY DEF CreateVoucher
<1>3. ~ Exists(c) /\ UNCHANGED <<now, reds, req, adm, expiry, payments, crashes, raced>>
  BY DEF CreateVoucher
<1>4. PICK v : v = [max |-> max, count |-> 0, perUser |-> perUser, expires |-> expires,
                    active |-> active]
  OBVIOUS
<1>5. v \in Voucher /\ v.max > 0 /\ v.count = 0
  <2>1. max \in Nat /\ max > 0 /\ perUser \in Nat
    BY LimitsAssumption
  <2>2. expires \in Nat
    BY <1>1, TimeAssumption DEF TypeOK
  <2> QED BY <2>1, <2>2, <1>4 DEF Voucher
<1>6. \A d \in Codes : row'[d] = IF d = c THEN v ELSE row[d]
  BY <1>1, <1>2, <1>4 DEF TypeOK
<1>7. TypeOK'
  BY <1>1, <1>2, <1>3, <1>4, <1>5 DEF TypeOK
<1>8. Counted'
  <2>1. row[c].count = 0
    BY <1>1, <1>3, FS_EmptySet DEF Counted
  <2>2. \A a \in Admins : adm[a].code \in Codes
    BY <1>1 DEF TypeOK, AdminCall
  <2>3. \A d \in Codes : /\ IsFiniteSet(reds'[d]) /\ row'[d].count = Cardinality(reds'[d])
                         /\ row'[d].max > 0 \/ reds'[d] = {}
    BY <2>1, <1>1, <1>3, <1>5, <1>6 DEF Counted, Exists
  <2>4. \A a \in Admins : adm'[a].at = "write" => row'[adm'[a].code].max > 0 /\ adm'[a].seen.max > 0
    BY <2>2, <1>1, <1>3, <1>5, <1>6 DEF Counted, Exists
  <2> QED BY <2>3, <2>4 DEF Counted, Exists
<1>9. ChecksHold'
  <2> SUFFICES ASSUME NEW s \in Requests, Checked(req'[s])
               PROVE  Redeemable(row'[req'[s].code], req'[s].began, 0)
    BY DEF ChecksHold
  <2>1. Redeemable(row[req[s].code], req[s].began, 0) /\ req[s].code \in Codes
    BY <1>1, <1>3, CallFields DEF ChecksHold
  <2>2. req[s].code # c
    BY <2>1, <1>3 DEF Redeemable, Exists
  <2> QED BY <2>1, <2>2, <1>3, <1>6
<1>10. LocksHeld'
  BY <1>1, <1>3 DEF LocksHeld
<1> QED BY <1>7, <1>8, <1>9, <1>10 DEF ReservationInv

(* The steps of an administrator.                                           *)
LEMMA AdminReservation ==
  ASSUME ReservationInv, NEW a \in Admins,
         GetVoucher(a) \/ UpdateVoucher(a) \/ DeleteVoucher(a)
  PROVE  ReservationInv'
<1>1. TypeOK /\ Counted /\ ChecksHold /\ LocksHeld
  BY DEF ReservationInv
<1>2. /\ adm[a] \in AdminCall /\ adm \in [Admins -> AdminCall] /\ adm[a].code \in Codes
      /\ adm[a].seen \in Voucher /\ row[adm[a].code] \in Voucher
  BY <1>1 DEF TypeOK, AdminCall
<1>3. CASE GetVoucher(a)
  <2>1. /\ Exists(adm[a].code) /\ UNCHANGED <<now, row, reds, req, expiry, payments, crashes, raced>>
        /\ adm' = [adm EXCEPT ![a].at = "write", ![a].seen = row[adm[a].code]]
    BY <1>3 DEF GetVoucher
  <2>2. PICK k : k = [adm[a] EXCEPT !.at = "write", !.seen = row[adm[a].code]]
    OBVIOUS
  <2>3. k \in AdminCall /\ k.code = adm[a].code /\ k.seen = row[adm[a].code]
    BY <2>2, <1>2 DEF AdminCall
  <2>4. adm' = [adm EXCEPT ![a] = k]
    BY <2>1, <2>2, <1>2 DEF AdminCall
  <2>5. TypeOK'
    BY <2>1, <2>3, <2>4, <1>1 DEF TypeOK
  <2>6. Counted'
    <3>1. \A b \in Admins : adm'[b] = IF b = a THEN k ELSE adm[b]
      BY <2>4, <1>2
    <3> QED BY <3>1, <2>1, <2>3, <1>1 DEF Counted, Exists
  <2>7. ChecksHold' /\ LocksHeld'
    BY <2>1, <1>1 DEF ChecksHold, LocksHeld
  <2> QED BY <2>5, <2>6, <2>7 DEF ReservationInv
<1>4. CASE UpdateVoucher(a)
  <2>1. PICK max \in Limits \cup {adm[a].seen.max}, perUser \in Limits \cup {adm[a].seen.perUser},
             expires \in {0, MaxTime + 1, adm[a].seen.expires}, active \in BOOLEAN :
           AdminWrite(a, [row[adm[a].code] EXCEPT !.max = max, !.perUser = perUser,
                                                  !.expires = expires, !.active = active])
    BY <1>4 DEF UpdateVoucher
  <2>2. PICK v : v = [row[adm[a].code] EXCEPT !.max = max, !.perUser = perUser,
                                              !.expires = expires, !.active = active]
    OBVIOUS
  <2>3. AdminWrite(a, v) /\ adm[a].at = "write"
    BY <2>1, <2>2 DEF AdminWrite
  <2>4. max \in Nat /\ max > 0 /\ perUser \in Nat /\ expires \in Nat
    BY <2>3, <1>1, <1>2, LimitsAssumption, TimeAssumption DEF Counted, Voucher
  <2>5. v \in Voucher /\ v.max > 0 /\ v.count = row[adm[a].code].count
    BY <2>2, <2>4, <1>2 DEF Voucher
  <2> QED BY <2>3, <2>5, AdminWriteReservation
<1>5. CASE DeleteVoucher(a)
  <2>1. PICK v : v = [row[adm[a].code] EXCEPT !.active = FALSE]
    OBVIOUS
  <2>2. AdminWrite(a, v) /\ adm[a].at = "write"
    BY <2>1, <1>5 DEF DeleteVoucher, AdminWrite
  <2>3. v \in Voucher /\ v.max > 0 /\ v.count = row[adm[a].code].count
    BY <2>1, <2>2, <1>1, <1>2 DEF Counted, Exists, Voucher
  <2> QED BY <2>2, <2>3, AdminWriteReservation
<1> QED BY <1>3, <1>4, <1>5

(* Every step preserves the invariant.                                      *)
LEMMA NextReservation ==
  ASSUME ReservationInv, [Next]_vars
  PROVE  ReservationInv'
<1>1. CASE UNCHANGED vars
  <2> USE <1>1 DEF vars, ReservationInv
  <2>1. TypeOK' /\ LocksHeld'
    BY DEF TypeOK, LocksHeld
  <2>2. Counted' /\ ChecksHold'
    BY DEF Counted, ChecksHold, Exists
  <2> QED BY <2>1, <2>2
<1>2. CASE Tick
  <2>1. UNCHANGED <<row, reds, req, adm, expiry, payments, crashes, raced>> /\ now' = now + 1
    BY <1>2 DEF Tick
  <2>2. TypeOK' /\ LocksHeld'
    BY <2>1 DEF ReservationInv, TypeOK, LocksHeld
  <2>3. Counted' /\ ChecksHold'
    BY <2>1 DEF ReservationInv, Counted, ChecksHold, Exists
  <2> QED BY <2>2, <2>3 DEF ReservationInv
<1>3. CASE Manage
  BY <1>3, CreateReservation, AdminReservation DEF Manage
<1>4. ASSUME NEW r \in Requests, Redeem(r) \/ Progress(r) \/ Crash(r) PROVE ReservationInv'
  BY <1>4, ProgressReservation, CommitReservation DEF Progress
<1> QED BY <1>1, <1>2, <1>3, <1>4 DEF Next

-----------------------------------------------------------------------------
(* The subscription time.                                                   *)

(* The time that the granted redemptions of a user cover.                   *)
Covered(u) == now + Days * Cardinality(Granted(u))

(* More granted redemptions cover more time.                                *)
LEMMA CoveredGrows ==
  ASSUME TypeOK, TypeOK', TimeInv, NEW u \in Users, now <= now',
         IsFiniteSet(Redeemed(u)'), Granted(u) \subseteq Granted(u)'
  PROVE  Covered(u) \in Nat /\ Covered(u)' \in Nat /\ Covered(u) <= Covered(u)'
<1> DEFINE a == Cardinality(Granted(u))
           b == Cardinality(Granted(u)')
<1>1. IsFiniteSet(Granted(u)') /\ IsFiniteSet(Granted(u))
  <2>1. Granted(u)' \subseteq Redeemed(u)'
    BY DEF Granted
  <2>2. Granted(u) \in SUBSET Granted(u)' /\ Granted(u)' \in SUBSET Redeemed(u)'
    BY <2>1
  <2> QED BY <2>2, FS_Subset
<1>2. a \in Nat /\ b \in Nat /\ a <= b
  BY <1>1, FS_Subset, FS_CardinalityType
<1>3. Days \in Nat /\ now \in Nat /\ now' \in Nat
  BY TimeAssumption DEF TypeOK
<1> HIDE DEF a, b
<1>4. Days * a \in Nat /\ Days * b \in Nat
  BY <1>2, <1>3
<1>5. Days * a <= Days * b
  <2>1. PICK d \in Nat : b = a + d
    BY <1>2
  <2>2. Days * b = Days * a + Days * d /\ Days * d \in Nat
    BY <2>1, <1>2, <1>3
  <2> QED BY <2>2, <1>4
<1> QED BY <1>3, <1>4, <1>5 DEF Covered, a, b

(* A step that grants nothing and redeems nothing keeps TimeInv; a request   *)
(* that reads the subscription reads a time that is covered.                *)
LEMMA QuietTime ==
  ASSUME TypeOK, TypeOK', TimeInv, now <= now', reds' = reds, expiry' = expiry,
         \A r \in Requests :
            /\ req'[r].user = req[r].user /\ req'[r].code = req[r].code
            /\ Owed(r)' => Owed(r)
            /\ Timed(r)' =>
                  \/ Timed(r) /\ req'[r].start = req[r].start
                  \/ \A u \in Users : req[r].user = u => req'[r].start <= Covered(u)
  PROVE  TimeInv'
<1>1. \A u \in Users : Redeemed(u)' = Redeemed(u)
  BY DEF Redeemed
<1>2. \A u \in Users : Granted(u) \subseteq Granted(u)'
  BY <1>1 DEF Granted
<1>3. \A u \in Users : /\ Covered(u) \in Nat /\ Covered(u)' \in Nat
                       /\ Covered(u) <= Covered(u)'
  BY <1>1, <1>2, CoveredGrows DEF TimeInv
<1>4. \A u \in Users : IsFiniteSet(Redeemed(u)')
  BY <1>1 DEF TimeInv
<1>5. ASSUME NEW u \in Users PROVE expiry'[u] <= Covered(u)'
  <2>1. expiry[u] <= Covered(u)
    BY DEF TimeInv, Covered
  <2> QED BY <2>1, <1>3 DEF TypeOK
<1>6. ASSUME NEW r \in Requests, NEW u \in Users, Timed(r)', req'[r].user = u
      PROVE  req'[r].start <= Covered(u)'
  <2>1. req'[r].start \in Nat /\ req[r].user = u
    BY <1>6 DEF TypeOK, Call
  <2>2. req'[r].start <= Covered(u)
    BY <1>6, <2>1 DEF TimeInv, Covered
  <2> QED BY <2>1, <2>2, <1>3
<1>7. \A r \in Requests : Owed(r)' => req'[r].user \in reds'[req'[r].code]
  BY DEF TimeInv
<1>8. \A r, s \in Requests : r # s /\ Owed(r)' /\ Owed(s)'
         => req'[r].user # req'[s].user \/ req'[r].code # req'[s].code
  BY DEF TimeInv
<1> QED BY <1>4, <1>5, <1>6, <1>7, <1>8 DEF TimeInv, Covered

(* Steps of requests before the commit and after the extension.             *)
LEMMA OtherTime ==
  ASSUME TypeOK, TypeOK', TimeInv, NEW r \in Requests,
         \/ Redeem(r) \/ Select(r) \/ Insert(r) \/ Increment(r) \/ Retry(r)
         \/ ListPayments(r) \/ RecordPayment(r) \/ Crash(r)
  PROVE  TimeInv'
<1>1. req[r] \in Call
  BY CallFields
<1>2. /\ UNCHANGED <<now, reds, expiry>>
      /\ \A s \in Requests : s # r => req'[s] = req[s]
      /\ req'[r].user = req[r].user /\ req'[r].code = req[r].code
      /\ req'[r].at \notin {"activate", "read", "extend"}
  <2>1. CASE Redeem(r)
    BY <1>1, <2>1 DEF Redeem, TypeOK, Call
  <2>2. CASE Select(r)
    BY <1>1, <2>2 DEF Select, TypeOK, Call
  <2>3. CASE Insert(r)
    BY <1>1, <2>3 DEF Insert, TypeOK, Call
  <2>4. CASE Increment(r)
    BY <1>1, <2>4 DEF Increment, TypeOK, Call
  <2>5. CASE Retry(r)
    BY <1>1, <2>5 DEF Retry, TypeOK, Call
  <2>6. CASE ListPayments(r)
    BY <1>1, <2>6 DEF ListPayments, TypeOK, Call
  <2>7. CASE RecordPayment(r)
    BY <1>1, <2>7 DEF RecordPayment, TypeOK, Call
  <2>8. CASE Crash(r)
    BY <1>1, <2>8 DEF Crash, TypeOK, Call
  <2> QED BY <2>1, <2>2, <2>3, <2>4, <2>5, <2>6, <2>7, <2>8
<1>3. ASSUME NEW s \in Requests
      PROVE  /\ req'[s].user = req[s].user /\ req'[s].code = req[s].code
             /\ Owed(s)' => Owed(s)
             /\ Timed(s)' => Timed(s) /\ req'[s].start = req[s].start
  BY <1>2 DEF Owed, Timed
<1>4. now <= now'
  BY <1>2 DEF TypeOK
<1> QED BY <1>2, <1>3, <1>4, QuietTime

(* activate_subscription takes and reads times that are covered.            *)
LEMMA ActivateTime ==
  ASSUME TypeOK, TypeOK', TimeInv, NEW r \in Requests, Activate(r) \/ ReadSubscription(r)
  PROVE  TimeInv'
<1>1. req[r] \in Call
  BY CallFields
<1>2. /\ UNCHANGED <<now, reds, expiry>>
      /\ \A s \in Requests : s # r => req'[s] = req[s]
      /\ Owed(r)
      /\ req'[r].user = req[r].user /\ req'[r].code = req[r].code
      /\ \/ req'[r].start \in {now, expiry[req[r].user]}
         \/ Timed(r) /\ req'[r].start = req[r].start
  <2>1. CASE Activate(r)
    BY <1>1, <2>1 DEF Activate, TypeOK, Call, Owed
  <2>2. CASE ReadSubscription(r)
    BY <1>1, <2>2 DEF ReadSubscription, TypeOK, Call, Owed, Timed
  <2> QED BY <2>1, <2>2
<1>3. ASSUME NEW u \in Users, req[r].user = u PROVE req'[r].start <= Covered(u)
  <2>1. expiry[u] <= Covered(u) /\ expiry[u] \in Nat /\ now \in Nat
    BY DEF TimeInv, Covered, TypeOK
  <2>2. Covered(u) \in Nat /\ now <= Covered(u)
    <3>1. Granted(u) \in SUBSET Redeemed(u) /\ IsFiniteSet(Redeemed(u))
      BY DEF Granted, TimeInv
    <3>2. Cardinality(Granted(u)) \in Nat
      BY <3>1, FS_Subset, FS_CardinalityType
    <3>3. Days * Cardinality(Granted(u)) \in Nat
      BY <3>2, TimeAssumption
    <3> QED BY <3>3, <2>1 DEF Covered
  <2>3. Timed(r) => req[r].start <= Covered(u)
    BY <1>3 DEF TimeInv, Covered
  <2> QED BY <1>2, <1>3, <2>1, <2>2, <2>3
<1>4. ASSUME NEW s \in Requests
      PROVE  /\ req'[s].user = req[s].user /\ req'[s].code = req[s].code
             /\ Owed(s)' => Owed(s)
             /\ Timed(s)' =>
                   \/ Timed(s) /\ req'[s].start = req[s].start
                   \/ \A u \in Users : req[s].user = u => req'[s].start <= Covered(u)
  BY <1>2, <1>3 DEF Owed, Timed
<1>5. now <= now'
  BY <1>2 DEF TypeOK
<1> QED BY <1>2, <1>4, <1>5, QuietTime

(* The write of the subscription grants one redemption, and one period.     *)
LEMMA ExtendTime ==
  ASSUME TypeOK, TypeOK', TimeInv, NEW r \in Requests, Extend(r)
  PROVE  TimeInv'
<1>0. PICK w \in Users, c \in Codes : w = req[r].user /\ c = req[r].code
  BY CallFields
<1>1. req[r] \in Call /\ w = req[r].user /\ c = req[r].code /\ req[r].start \in Nat
  BY <1>0, CallFields
<1>2. /\ UNCHANGED <<now, reds>>
      /\ expiry' = [expiry EXCEPT ![w] = req[r].start + Days]
      /\ \A s \in Requests : s # r => req'[s] = req[s]
      /\ req[r].at = "extend" /\ req'[r].at = "list"
      /\ req'[r].user = w /\ req'[r].code = c
  BY <1>1 DEF Extend, TypeOK, Call
<1>3. \A s \in Requests : /\ req'[s].user = req[s].user /\ req'[s].code = req[s].code
                          /\ Owed(s)' <=> Owed(s) /\ s # r
                          /\ s # r => req'[s] = req[s]
  BY <1>1, <1>2 DEF Owed
<1>4. \A u \in Users : Redeemed(u)' = Redeemed(u) /\ IsFiniteSet(Redeemed(u)')
  BY <1>2 DEF Redeemed, TimeInv
<1>5. \A u \in Users : Granted(u) \subseteq Granted(u)'
  BY <1>3, <1>4 DEF Granted
<1>6. \A u \in Users : /\ Covered(u) \in Nat /\ Covered(u)' \in Nat
                       /\ Covered(u) <= Covered(u)'
  <2>1. now <= now'
    BY <1>2 DEF TypeOK
  <2> QED BY <2>1, <1>4, <1>5, CoveredGrows
<1>7. c \in Granted(w)' /\ c \notin Granted(w)
  <2>1. Owed(r) /\ c \in Redeemed(w)
    BY <1>1, <1>2 DEF Owed, TimeInv, Redeemed
  <2>2. ASSUME NEW s \in Requests, Owed(s)' PROVE req'[s].user # w \/ req'[s].code # c
    BY <1>1, <1>3, <2>1, <2>2 DEF TimeInv
  <2> QED BY <1>1, <1>4, <2>1, <2>2 DEF Granted
<1>8. Covered(w) + Days <= Covered(w)'
  <2>1. Granted(w)' \in SUBSET Redeemed(w)' /\ Granted(w) \cup {c} \in SUBSET Granted(w)'
    BY <1>1, <1>5, <1>7 DEF Granted
  <2>2. IsFiniteSet(Granted(w)') /\ IsFiniteSet(Granted(w) \cup {c})
    BY <1>1, <1>4, <2>1, FS_Subset
  <2>3. IsFiniteSet(Granted(w))
    <3>1. Granted(w) \in SUBSET (Granted(w) \cup {c})
      OBVIOUS
    <3> QED BY <2>2, <3>1, FS_Subset
  <2>4. Cardinality(Granted(w) \cup {c}) = Cardinality(Granted(w)) + 1
    BY <1>7, <2>3, FS_AddElement
  <2> DEFINE a == Cardinality(Granted(w))
             b == Cardinality(Granted(w)')
  <2>5. a \in Nat /\ b \in Nat /\ a + 1 <= b
    BY <2>1, <2>2, <2>3, <2>4, FS_Subset, FS_CardinalityType
  <2>6. Days \in Nat /\ now \in Nat /\ now' = now
    BY <1>2, TimeAssumption DEF TypeOK
  <2> HIDE DEF a, b
  <2>7. PICK d \in Nat : b = a + 1 + d
    BY <2>5
  <2>8. Days * b = Days * a + Days + Days * d /\ Days * a \in Nat /\ Days * d \in Nat
    BY <2>5, <2>6, <2>7
  <2> QED BY <2>6, <2>8 DEF Covered, a, b
<1>9. ASSUME NEW u \in Users PROVE expiry'[u] <= Covered(u)'
  <2>1. CASE u = w
    <3>1. expiry'[w] = req[r].start + Days
      BY <1>1, <1>2 DEF TypeOK
    <3>2. req[r].start <= Covered(w)
      BY <1>1, <1>2 DEF TimeInv, Covered, Timed
    <3> QED BY <1>1, <1>6, <1>8, <2>1, <3>1, <3>2, TimeAssumption
  <2>2. CASE u # w
    <3>1. expiry'[u] = expiry[u] /\ expiry[u] \in Nat /\ expiry[u] <= Covered(u)
      BY <1>2, <2>2 DEF TypeOK, TimeInv, Covered
    <3> QED BY <1>6, <3>1
  <2> QED BY <2>1, <2>2
<1>10. ASSUME NEW s \in Requests, NEW u \in Users, Timed(s)', req'[s].user = u
       PROVE  req'[s].start <= Covered(u)'
  <2>1. s # r /\ req'[s] = req[s] /\ Timed(s)
    BY <1>2, <1>3, <1>10 DEF Timed
  <2>2. req[s].start <= Covered(u) /\ req[s].start \in Nat
    BY <1>10, <2>1, CallFields DEF TimeInv, Covered
  <2> QED BY <1>6, <2>1, <2>2
<1>11. \A s \in Requests : Owed(s)' => req'[s].user \in reds'[req'[s].code]
  BY <1>2, <1>3 DEF TimeInv
<1>12. \A x, s \in Requests : x # s /\ Owed(x)' /\ Owed(s)'
          => req'[x].user # req'[s].user \/ req'[x].code # req'[s].code
  BY <1>3 DEF TimeInv
<1> QED BY <1>4, <1>9, <1>10, <1>11, <1>12 DEF TimeInv, Covered

(* A commit adds a redemption that is owed: nothing is granted yet.         *)
LEMMA CommitTime ==
  ASSUME ReservationInv, TypeOK', TimeInv, NEW r \in Requests, Commit(r)
  PROVE  TimeInv'
<1>0. TypeOK /\ LocksHeld
  BY DEF ReservationInv
<1>1. PICK w \in Users, c \in Codes : w = req[r].user /\ c = req[r].code
  BY <1>0, CallFields
<1>2. /\ req[r].at = "commit" /\ UNCHANGED <<now, expiry>>
      /\ reds' = [reds EXCEPT ![c] = @ \cup {w}]
      /\ req' = [Outdated(req, c) EXCEPT ![r].at = "activate"]
  BY <1>1 DEF Commit
<1>3. ASSUME NEW s \in Requests
      PROVE  /\ req'[s].user = req[s].user /\ req'[s].code = req[s].code
             /\ s = r => req'[s].at = "activate"
             /\ s # r => req'[s].at = req[s].at
             /\ Timed(s) => req'[s] = req[s]
  <2>1. /\ Outdated(req, c) \in [Requests -> Call]
        /\ Outdated(req, c)[s].at = req[s].at /\ Outdated(req, c)[s].code = req[s].code
        /\ Outdated(req, c)[s].user = req[s].user
    BY <1>0, OutdatedCalls
  <2>2. Timed(s) => Outdated(req, c)[s] = req[s]
    BY DEF Outdated, Timed
  <2>3. Outdated(req, c)[s] \in Call
    BY <2>1
  <2>4. CASE s = r
    BY <1>2, <2>1, <2>3, <2>4 DEF Call, Timed
  <2>5. CASE s # r
    <3>1. req'[s] = Outdated(req, c)[s]
      BY <1>2, <2>1, <2>5
    <3> QED BY <2>1, <2>2, <2>5, <3>1
  <2> QED BY <2>4, <2>5
<1>4. w \notin reds[c] /\ reds \in [Codes -> SUBSET Users]
  BY <1>0, <1>1, <1>2 DEF LocksHeld, TypeOK
<1>5. ~ Owed(r) /\ \A s \in Requests : Owed(s)' <=> Owed(s) \/ s = r
  BY <1>2, <1>3 DEF Owed
<1>6. ASSUME NEW u \in Users
      PROVE  IsFiniteSet(Redeemed(u)') /\ Granted(u) \subseteq Granted(u)'
  <2>1. Redeemed(u)' = Redeemed(u) \cup (IF u = w THEN {c} ELSE {})
    BY <1>2, <1>4 DEF Redeemed
  <2>2. IsFiniteSet(Redeemed(u)')
    <3>1. IsFiniteSet(Redeemed(u)) /\ IsFiniteSet(Redeemed(u) \cup {c})
      BY FS_AddElement DEF TimeInv
    <3>2. Redeemed(u)' \in {Redeemed(u), Redeemed(u) \cup {c}}
      BY <2>1
    <3> QED BY <3>1, <3>2
  <2>3. ASSUME NEW x \in Granted(u) PROVE x \in Granted(u)'
    <3>1. x \in Redeemed(u) /\ x \in Redeemed(u)'
      BY <2>1, <2>3 DEF Granted
    <3>2. ~ (u = w /\ x = c)
      BY <1>4, <3>1 DEF Redeemed
    <3>3. ASSUME NEW s \in Requests, Owed(s)' PROVE req'[s].user # u \/ req'[s].code # x
      BY <1>1, <1>3, <1>5, <2>3, <3>2, <3>3 DEF Granted
    <3> QED BY <3>1, <3>3 DEF Granted
  <2> QED BY <2>2, <2>3
<1>7. \A u \in Users : /\ Covered(u) \in Nat /\ Covered(u)' \in Nat
                       /\ Covered(u) <= Covered(u)'
  <2>1. now <= now'
    BY <1>0, <1>2 DEF TypeOK
  <2> QED BY <1>0, <1>6, <2>1, CoveredGrows
<1>8. ASSUME NEW u \in Users PROVE expiry'[u] <= Covered(u)'
  <2>1. expiry[u] <= Covered(u) /\ expiry[u] \in Nat
    BY <1>0 DEF TimeInv, Covered, TypeOK
  <2> QED BY <1>2, <1>7, <2>1
<1>9. ASSUME NEW s \in Requests, NEW u \in Users, Timed(s)', req'[s].user = u
      PROVE  req'[s].start <= Covered(u)'
  <2>1. Timed(s) /\ req'[s] = req[s] /\ req[s].user = u
    BY <1>3, <1>9 DEF Timed
  <2>2. req[s].start <= Covered(u) /\ req[s].start \in Nat
    BY <1>0, <2>1, CallFields DEF TimeInv, Covered
  <2> QED BY <1>7, <2>1, <2>2
<1>10. ASSUME NEW s \in Requests, Owed(s)' PROVE req'[s].user \in reds'[req'[s].code]
  <2>1. req[s].code \in Codes
    BY <1>0, CallFields
  <2>2. CASE s = r
    BY <1>1, <1>2, <1>3, <1>4, <2>2
  <2>3. CASE s # r
    <3>1. req[s].user \in reds[req[s].code]
      BY <1>5, <1>10, <2>3 DEF TimeInv
    <3> QED BY <1>2, <1>3, <1>4, <2>1, <3>1
  <2> QED BY <2>2, <2>3
<1>11. ASSUME NEW x \in Requests, NEW s \in Requests, x # s, Owed(x)', Owed(s)'
       PROVE  req'[x].user # req'[s].user \/ req'[x].code # req'[s].code
  <2>1. CASE x # r /\ s # r
    BY <1>3, <1>5, <1>11, <2>1 DEF TimeInv
  <2>2. ASSUME NEW y \in Requests, y # r, Owed(y)' PROVE req[y].user # w \/ req[y].code # c
    BY <1>4, <1>5, <2>2 DEF TimeInv
  <2> QED BY <1>1, <1>3, <1>11, <2>1, <2>2
<1> QED BY <1>6, <1>8, <1>9, <1>10, <1>11 DEF TimeInv, Covered

(* Steps that leave requests where they are.                                *)
LEMMA ManageTime ==
  ASSUME TypeOK, TypeOK', TimeInv, Manage \/ Tick \/ UNCHANGED vars
  PROVE  TimeInv'
<1>1. /\ UNCHANGED <<reds, expiry>> /\ now <= now'
      /\ req' = req \/ \E a \in Admins : req' = Outdated(req, adm[a].code)
  <2>1. CASE Manage
    <3>1. ASSUME NEW c \in Codes, CreateVoucher(c) PROVE UNCHANGED <<reds, expiry, now, req>>
      BY <3>1 DEF CreateVoucher
    <3>2. ASSUME NEW a \in Admins, GetVoucher(a) PROVE UNCHANGED <<reds, expiry, now, req>>
      BY <3>2 DEF GetVoucher
    <3>3. ASSUME NEW a \in Admins, UpdateVoucher(a) \/ DeleteVoucher(a)
          PROVE  UNCHANGED <<reds, expiry, now>> /\ req' = Outdated(req, adm[a].code)
      BY <3>3, Zenon DEF UpdateVoucher, DeleteVoucher, AdminWrite
    <3> QED BY <2>1, <3>1, <3>2, <3>3 DEF Manage, TypeOK
  <2>2. CASE Tick
    BY <2>2 DEF Tick, TypeOK
  <2>3. CASE UNCHANGED vars
    BY <2>3 DEF vars, TypeOK
  <2> QED BY <2>1, <2>2, <2>3
<1>2. ASSUME NEW s \in Requests
      PROVE  /\ req'[s].user = req[s].user /\ req'[s].code = req[s].code
             /\ req'[s].at = req[s].at
             /\ Timed(s) => req'[s].start = req[s].start
  <2>1. CASE req' = req
    BY <2>1
  <2>2. CASE \E a \in Admins : req' = Outdated(req, adm[a].code)
    <3>1. PICK a \in Admins : req' = Outdated(req, adm[a].code)
      BY <2>2
    <3>2. adm[a].code \in Codes
      BY DEF TypeOK, AdminCall
    <3>3. Timed(s) => req'[s] = req[s]
      BY <3>1 DEF Outdated, Timed
    <3> QED BY <3>1, <3>2, <3>3, OutdatedCalls
  <2> QED BY <1>1, <2>1, <2>2
<1>3. ASSUME NEW s \in Requests
      PROVE  /\ req'[s].user = req[s].user /\ req'[s].code = req[s].code
             /\ Owed(s)' => Owed(s)
             /\ Timed(s)' => Timed(s) /\ req'[s].start = req[s].start
  BY <1>2 DEF Owed, Timed
<1> QED BY <1>1, <1>3, QuietTime

(* TimeInv is inductive beside the invariant of the reservations.           *)
LEMMA NextTime ==
  ASSUME ReservationInv, ReservationInv', TimeInv, [Next]_vars
  PROVE  TimeInv'
<1>1. TypeOK /\ TypeOK'
  BY DEF ReservationInv
<1>2. ASSUME NEW r \in Requests, Redeem(r) \/ Progress(r) \/ Crash(r) PROVE TimeInv'
  BY <1>1, <1>2, OtherTime, ActivateTime, ExtendTime, CommitTime DEF Progress
<1> QED BY <1>1, <1>2, ManageTime DEF Next

-----------------------------------------------------------------------------
(* What a user has been given is kept.                                      *)

(* A smaller set of codes is worth less, and one code is worth one period.  *)
LEMMA Worth ==
  ASSUME NEW S, NEW T, IsFiniteSet(T), S \subseteq T
  PROVE  /\ Days * Cardinality(S) \in Nat /\ Days * Cardinality(T) \in Nat
         /\ Days * Cardinality(S) <= Days * Cardinality(T)
         /\ \A c : IsFiniteSet(T \cup {c}) /\ Days * Cardinality(T \cup {c}) \in Nat
                  /\ Days * Cardinality(T \cup {c}) <= Days * Cardinality(T) + Days
<1> DEFINE a == Cardinality(S)
           b == Cardinality(T)
<1>1. a \in Nat /\ b \in Nat /\ a <= b
  BY FS_Subset, FS_CardinalityType
<1>2. Days \in Nat
  BY TimeAssumption
<1>3. ASSUME NEW c
      PROVE  IsFiniteSet(T \cup {c}) /\ Cardinality(T \cup {c}) \in {b, b + 1}
  BY FS_AddElement
<1> HIDE DEF a, b
<1>4. Days * a \in Nat /\ Days * b \in Nat /\ Days * (b + 1) = Days * b + Days
  BY <1>1, <1>2
<1>5. Days * a <= Days * b
  <2>1. PICK d \in Nat : b = a + d
    BY <1>1
  <2>2. Days * b = Days * a + Days * d /\ Days * d \in Nat
    BY <2>1, <1>1, <1>2
  <2> QED BY <2>2, <1>4
<1>6. ASSUME NEW c
      PROVE  /\ IsFiniteSet(T \cup {c}) /\ Days * Cardinality(T \cup {c}) \in Nat
             /\ Days * Cardinality(T \cup {c}) <= Days * b + Days
  <2>1. PICK n : n = Cardinality(T \cup {c})
    OBVIOUS
  <2>2. n \in {b, b + 1} /\ IsFiniteSet(T \cup {c})
    BY <1>3, <2>1
  <2>3. Days * n = Days * b \/ Days * n = Days * b + Days
    BY <1>4, <2>2
  <2>4. Days * n \in Nat /\ Days * n <= Days * b + Days
    BY <1>2, <1>4, <2>3
  <2> QED BY <2>1, <2>2, <2>4
<1> QED BY <1>4, <1>5, <1>6 DEF a, b

(* What was given to a user is finite.                                      *)
LEMMA GivenIsFinite ==
  ASSUME KeptInv, TimeInv, NEW u \in Users
  PROVE  IsFiniteSet(Given(u))
<1>1. Given(u) \in SUBSET Redeemed(u) /\ IsFiniteSet(Redeemed(u))
  BY DEF KeptInv, TimeInv
<1> QED BY <1>1, FS_Subset

(* A step that gives u nothing and reads no subscription of u.              *)
LEMMA SameTime ==
  ASSUME KeptInv, TimeInv, TypeOK, NEW u \in Users, raced[u] \subseteq raced'[u],
         expiry'[u] = expiry[u], Given(u)' \subseteq Given(u),
         \A s \in Requests :
            /\ req'[s].user = req[s].user
            /\ req[s].user = u /\ req'[s].at = "extend" =>
                  req[s].at = "extend" /\ req'[s].start = req[s].start
  PROVE  "subscription" \notin raced'[u] => TimeKept(u)'
<1> SUFFICES ASSUME "subscription" \notin raced'[u] PROVE TimeKept(u)'
  OBVIOUS
<1>1. TimeKept(u)
  BY DEF KeptInv
<1> DEFINE m == Days * Cardinality(Given(u))
           n == Days * Cardinality(Given(u)')
<1>2. m \in Nat /\ n \in Nat /\ n <= m
  BY GivenIsFinite, Worth
<1>3. m <= expiry[u] /\ expiry[u] \in Nat
  BY <1>1 DEF TimeKept, TypeOK
<1>4. \A r \in Requests : req[r].user = u /\ req[r].at = "extend" =>
         m <= req[r].start /\ req[r].start \in Nat
  BY <1>1, CallFields DEF TimeKept
<1> HIDE DEF m, n
<1>5. n <= expiry'[u]
  BY <1>2, <1>3
<1>6. \A r \in Requests : req'[r].user = u /\ req'[r].at = "extend" => n <= req'[r].start
  BY <1>2, <1>4
<1>7. \A r, s \in Requests :
         req'[r].user = u /\ req'[r].at = "extend" /\ s # r /\ req'[s].user = u
            => req'[s].at # "extend"
  BY <1>1 DEF TimeKept
<1> QED BY <1>5, <1>6, <1>7 DEF TimeKept, n

(* A step that neither reads nor writes the payments of u.                  *)
LEMMA SameList ==
  ASSUME KeptInv, NEW u \in Users, raced[u] \subseteq raced'[u], payments'[u] = payments[u],
         \A s \in Requests :
            /\ req'[s].user = req[s].user /\ req'[s].code = req[s].code
            /\ req[s].user = u /\ req'[s].at = "done" => req[s].at = "done"
            /\ req[s].user = u /\ req'[s].at = "record" =>
                  req[s].at = "record" /\ req'[s].listed = req[s].listed
  PROVE  "payments" \notin raced'[u] => ListKept(u)'
<1> SUFFICES ASSUME "payments" \notin raced'[u] PROVE ListKept(u)'
  OBVIOUS
<1>1. ListKept(u)
  BY DEF KeptInv
<1> QED BY <1>1 DEF ListKept

(* The steps that read and write no account data.                           *)
LEMMA QuietKept ==
  ASSUME KeptInv, TimeInv, TypeOK, UNCHANGED <<expiry, payments, raced>>,
         \A c \in Codes : reds[c] \subseteq reds'[c],
         \A s \in Requests :
            /\ req'[s].user = req[s].user /\ req'[s].code = req[s].code
            /\ \/ req'[s].at \notin {"extend", "list", "record", "done"}
               \/ /\ req'[s].at = req[s].at /\ req'[s].start = req[s].start
                  /\ req'[s].listed = req[s].listed
  PROVE  KeptInv'
<1> SUFFICES ASSUME NEW u \in Users
             PROVE  /\ Given(u)' \subseteq Redeemed(u)'
                    /\ "subscription" \notin raced'[u] => TimeKept(u)'
                    /\ "payments" \notin raced'[u] => ListKept(u)'
  BY DEF KeptInv
<1>1. Given(u)' \subseteq Given(u)
  BY DEF Given
<1>2. Redeemed(u) \subseteq Redeemed(u)'
  BY DEF Redeemed
<1>3. Given(u) \subseteq Redeemed(u)
  BY DEF KeptInv
<1>4. "subscription" \notin raced'[u] => TimeKept(u)'
  BY <1>1, SameTime
<1>5. "payments" \notin raced'[u] => ListKept(u)'
  BY SameList
<1> QED BY <1>1, <1>2, <1>3, <1>4, <1>5

(* The requests before they read, and those that are lost.                  *)
LEMMA OtherKept ==
  ASSUME KeptInv, TimeInv, TypeOK, NEW r \in Requests,
         \/ Redeem(r) \/ Select(r) \/ Insert(r) \/ Increment(r) \/ Retry(r)
         \/ Activate(r) \/ Crash(r)
  PROVE  KeptInv'
<1>1. req[r] \in Call
  BY CallFields
<1>2. /\ UNCHANGED <<reds, expiry, payments, raced>>
      /\ \A s \in Requests : s # r => req'[s] = req[s]
      /\ req'[r].user = req[r].user /\ req'[r].code = req[r].code
      /\ req'[r].at \notin {"extend", "list", "record", "done"}
  <2>1. CASE Redeem(r)
    BY <1>1, <2>1 DEF Redeem, TypeOK, Call
  <2>2. CASE Select(r)
    BY <1>1, <2>2 DEF Select, TypeOK, Call
  <2>3. CASE Insert(r)
    BY <1>1, <2>3 DEF Insert, TypeOK, Call
  <2>4. CASE Increment(r)
    BY <1>1, <2>4 DEF Increment, TypeOK, Call
  <2>5. CASE Retry(r)
    BY <1>1, <2>5 DEF Retry, TypeOK, Call
  <2>6. CASE Activate(r)
    BY <1>1, <2>6 DEF Activate, TypeOK, Call
  <2>7. CASE Crash(r)
    BY <1>1, <2>7 DEF Crash, TypeOK, Call
  <2> QED BY <2>1, <2>2, <2>3, <2>4, <2>5, <2>6, <2>7
<1>3. \A c \in Codes : reds[c] \subseteq reds'[c]
  BY <1>2
<1>4. \A s \in Requests :
            /\ req'[s].user = req[s].user /\ req'[s].code = req[s].code
            /\ \/ req'[s].at \notin {"extend", "list", "record", "done"}
               \/ /\ req'[s].at = req[s].at /\ req'[s].start = req[s].start
                  /\ req'[s].listed = req[s].listed
  BY <1>2
<1> QED BY <1>2, <1>3, <1>4, QuietKept

(* A write to a voucher row, and the commit.                                *)
LEMMA RowKept ==
  ASSUME KeptInv, TimeInv, TypeOK, Manage \/ Tick \/ UNCHANGED vars \/ \E r \in Requests : Commit(r)
  PROVE  KeptInv'
<1>1. /\ UNCHANGED <<expiry, payments, raced>>
      /\ \A c \in Codes : reds[c] \subseteq reds'[c]
      /\ \/ req' = req
         \/ \E c \in Codes : req' = Outdated(req, c)
         \/ \E c \in Codes, r \in Requests : req' = [Outdated(req, c) EXCEPT ![r].at = "activate"]
  <2>1. CASE Manage
    <3>1. ASSUME NEW c \in Codes, CreateVoucher(c)
          PROVE  UNCHANGED <<reds, req, expiry, payments, raced>>
      BY <3>1 DEF CreateVoucher
    <3>2. ASSUME NEW a \in Admins, GetVoucher(a)
          PROVE  UNCHANGED <<reds, req, expiry, payments, raced>>
      BY <3>2 DEF GetVoucher
    <3>3. ASSUME NEW a \in Admins, UpdateVoucher(a) \/ DeleteVoucher(a)
          PROVE  /\ UNCHANGED <<reds, expiry, payments, raced>>
                 /\ \E c \in Codes : req' = Outdated(req, c)
      <4>1. UNCHANGED <<reds, expiry, payments, raced>> /\ req' = Outdated(req, adm[a].code)
        BY <3>3, Zenon DEF UpdateVoucher, DeleteVoucher, AdminWrite
      <4>2. adm[a].code \in Codes
        BY DEF TypeOK, AdminCall
      <4> QED BY <4>1, <4>2
    <3> QED BY <2>1, <3>1, <3>2, <3>3 DEF Manage
  <2>2. CASE Tick
    BY <2>2 DEF Tick
  <2>3. CASE UNCHANGED vars
    BY <2>3 DEF vars
  <2>4. ASSUME NEW r \in Requests, Commit(r)
        PROVE  /\ UNCHANGED <<expiry, payments, raced>>
               /\ \A c \in Codes : reds[c] \subseteq reds'[c]
               /\ \E c \in Codes : req' = [Outdated(req, c) EXCEPT ![r].at = "activate"]
    BY <2>4, CallFields DEF Commit, TypeOK
  <2> QED BY <2>1, <2>2, <2>3, <2>4
<1>2. ASSUME NEW s \in Requests, NEW c \in Codes
      PROVE  /\ Outdated(req, c)[s] \in Call /\ Outdated(req, c) \in [Requests -> Call]
             /\ Outdated(req, c)[s].user = req[s].user
             /\ Outdated(req, c)[s].code = req[s].code
             /\ Outdated(req, c)[s].at = req[s].at
             /\ Outdated(req, c)[s].start = req[s].start
             /\ Outdated(req, c)[s].listed = req[s].listed
  <2>1. req[s] \in Call /\ Outdated(req, c) \in [Requests -> Call]
    BY CallFields, OutdatedCalls
  <2> QED BY <2>1 DEF Outdated, Call
<1>3. ASSUME NEW s \in Requests
      PROVE  /\ req'[s].user = req[s].user /\ req'[s].code = req[s].code
             /\ \/ req'[s].at \notin {"extend", "list", "record", "done"}
                \/ /\ req'[s].at = req[s].at /\ req'[s].start = req[s].start
                   /\ req'[s].listed = req[s].listed
  <2>1. CASE req' = req
    BY <2>1
  <2>2. ASSUME NEW c \in Codes, req' = Outdated(req, c)
        PROVE  /\ req'[s].user = req[s].user /\ req'[s].code = req[s].code
               /\ req'[s].at = req[s].at /\ req'[s].start = req[s].start
               /\ req'[s].listed = req[s].listed
    BY <1>2, <2>2
  <2>3. ASSUME NEW c \in Codes, NEW r \in Requests,
               req' = [Outdated(req, c) EXCEPT ![r].at = "activate"]
        PROVE  /\ req'[s].user = req[s].user /\ req'[s].code = req[s].code
               /\ \/ req'[s].at = "activate"
                  \/ /\ req'[s].at = req[s].at /\ req'[s].start = req[s].start
                     /\ req'[s].listed = req[s].listed
    <3>1. CASE s = r
      BY <1>2, <2>3, <3>1 DEF Call
    <3>2. CASE s # r
      BY <1>2, <2>3, <3>2
    <3> QED BY <3>1, <3>2
  <2> QED BY <1>1, <2>1, <2>2, <2>3
<1> QED BY <1>1, <1>3, QuietKept

(* A request that reads the subscription while no other is about to write    *)
(* it starts after all that was given.                                      *)
LEMMA ReadKept ==
  ASSUME KeptInv, TimeInv, TypeOK, TypeOK', NEW r \in Requests, ReadSubscription(r)
  PROVE  KeptInv'
<1>1. PICK w \in Users : w = req[r].user
  BY CallFields
<1>2. /\ UNCHANGED <<reds, expiry, payments>> /\ raced' = Races(r, "subscription", "extend")
      /\ \A s \in Requests : s # r => req'[s] = req[s]
      /\ req[r].at = "read" /\ req'[r].at = "extend"
      /\ req'[r].user = req[r].user /\ req'[r].code = req[r].code
      /\ req'[r].start \in Nat /\ expiry[w] <= req'[r].start
  <2>1. req[r] \in Call /\ req[r].start \in Nat /\ expiry[w] \in Nat
    BY CallFields DEF TypeOK
  <2> QED BY <1>1, <2>1 DEF ReadSubscription, TypeOK, Call
<1>3. ASSUME NEW u \in Users
      PROVE  /\ raced[u] \subseteq raced'[u] /\ Given(u)' \subseteq Given(u)
             /\ Redeemed(u)' = Redeemed(u)
             /\ "payments" \in raced'[u] => "payments" \in raced[u]
  BY <1>1, <1>2 DEF Races, TypeOK, Given, Redeemed
<1>4. ASSUME NEW u \in Users, "payments" \notin raced'[u] PROVE ListKept(u)'
  BY <1>2, <1>3, <1>4, SameList
<1>5. ASSUME NEW u \in Users, u # w, "subscription" \notin raced'[u] PROVE TimeKept(u)'
  <2>1. \A s \in Requests :
            /\ req'[s].user = req[s].user
            /\ req[s].user = u /\ req'[s].at = "extend" =>
                  req[s].at = "extend" /\ req'[s].start = req[s].start
    BY <1>1, <1>2, <1>5
  <2> QED BY <2>1, <1>2, <1>3, <1>5, SameTime
<1>6. ASSUME "subscription" \notin raced'[w] PROVE TimeKept(w)'
  <2>1. \A s \in Requests : s # r /\ req[s].user = w => req[s].at # "extend"
    BY <1>1, <1>2, <1>6 DEF Races, TypeOK
  <2>2. TimeKept(w)
    BY <1>3, <1>6 DEF KeptInv
  <2> DEFINE m == Days * Cardinality(Given(w))
             n == Days * Cardinality(Given(w)')
  <2>3. m \in Nat /\ n \in Nat /\ n <= m
    BY <1>3, GivenIsFinite, Worth
  <2>4. m <= expiry[w] /\ expiry[w] \in Nat
    BY <2>2 DEF TimeKept, TypeOK
  <2> HIDE DEF m, n
  <2>5. n <= expiry'[w] /\ n <= req'[r].start
    BY <1>2, <2>3, <2>4
  <2>6. \A s \in Requests : req'[s].user = w /\ req'[s].at = "extend" => s = r
    BY <1>2, <2>1
  <2> QED BY <2>5, <2>6 DEF TimeKept, n
<1>7. \A u \in Users : Given(u)' \subseteq Redeemed(u)'
  BY <1>3 DEF KeptInv
<1> QED BY <1>4, <1>5, <1>6, <1>7 DEF KeptInv

(* The write of the subscription adds one period to all that was given.     *)
LEMMA ExtendKept ==
  ASSUME KeptInv, TimeInv, TypeOK, TypeOK', NEW r \in Requests, Extend(r)
  PROVE  KeptInv'
<1>1. PICK w \in Users, c \in Codes : w = req[r].user /\ c = req[r].code
  BY CallFields
<1>2. /\ UNCHANGED <<reds, payments, raced>>
      /\ expiry' = [expiry EXCEPT ![w] = req[r].start + Days]
      /\ \A s \in Requests : s # r => req'[s] = req[s]
      /\ req[r].at = "extend" /\ req'[r].at = "list" /\ req[r].start \in Nat
      /\ req'[r].user = w /\ req'[r].code = c
  <2>1. req[r] \in Call /\ req[r].start \in Nat
    BY CallFields
  <2> QED BY <1>1, <2>1 DEF Extend, TypeOK, Call
<1>3. ASSUME NEW u \in Users
      PROVE  /\ Redeemed(u)' = Redeemed(u)
             /\ u # w => Given(u)' \subseteq Given(u)
             /\ Given(w)' \subseteq Given(w) \cup {c}
  BY <1>1, <1>2 DEF Redeemed, Given
<1>4. ASSUME NEW u \in Users, "payments" \notin raced'[u] PROVE ListKept(u)'
  BY <1>1, <1>2, <1>4, SameList
<1>5. ASSUME NEW u \in Users, u # w, "subscription" \notin raced'[u] PROVE TimeKept(u)'
  <2>1. \A s \in Requests :
            /\ req'[s].user = req[s].user
            /\ req[s].user = u /\ req'[s].at = "extend" =>
                  req[s].at = "extend" /\ req'[s].start = req[s].start
    BY <1>1, <1>2, <1>5
  <2>2. expiry'[u] = expiry[u]
    BY <1>2, <1>5 DEF TypeOK
  <2> QED BY <2>1, <2>2, <1>2, <1>3, <1>5, SameTime
<1>6. ASSUME "subscription" \notin raced'[w] PROVE TimeKept(w)'
  <2>1. TimeKept(w)
    BY <1>2, <1>6 DEF KeptInv
  <2>2. \A s \in Requests : s # r /\ req[s].user = w => req[s].at # "extend"
    BY <1>1, <1>2, <2>1 DEF TimeKept
  <2>3. IsFiniteSet(Given(w)) /\ IsFiniteSet(Given(w) \cup {c})
    BY GivenIsFinite, FS_AddElement
  <2> DEFINE m == Days * Cardinality(Given(w))
             k == Days * Cardinality(Given(w) \cup {c})
             n == Days * Cardinality(Given(w)')
  <2>4. m \in Nat /\ k \in Nat /\ k <= m + Days
    BY <2>3, Worth
  <2>5. n \in Nat /\ n <= k
    BY <1>3, <2>3, Worth
  <2>6. m <= req[r].start
    BY <1>1, <1>2, <2>1 DEF TimeKept
  <2> HIDE DEF m, k, n
  <2>7. expiry'[w] = req[r].start + Days
    BY <1>2 DEF TypeOK
  <2>8. n <= expiry'[w]
    BY <1>2, <2>4, <2>5, <2>6, <2>7, TimeAssumption
  <2>9. \A s \in Requests : req'[s].user = w => req'[s].at # "extend"
    BY <1>2, <2>2
  <2> QED BY <2>8, <2>9 DEF TimeKept, n
<1>7. ASSUME NEW u \in Users PROVE Given(u)' \subseteq Redeemed(u)'
  <2>1. c \in Redeemed(w)
    BY <1>1, <1>2 DEF TimeInv, Owed, Redeemed
  <2> QED BY <1>3, <2>1 DEF KeptInv
<1> QED BY <1>4, <1>5, <1>6, <1>7 DEF KeptInv

(* A request that reads the list while no other is about to write it has all *)
(* that was recorded, and writes it back with its own.                      *)
LEMMA PaymentsKept ==
  ASSUME KeptInv, TimeInv, TypeOK, TypeOK', NEW r \in Requests, ListPayments(r) \/ RecordPayment(r)
  PROVE  KeptInv'
<1>1. PICK w \in Users : w = req[r].user
  BY CallFields
<1>2. /\ UNCHANGED <<reds, expiry>>
      /\ \A s \in Requests : s # r => req'[s] = req[s]
      /\ req[r].at \in {"list", "record"} /\ req'[r].at \in {"record", "done"}
      /\ req'[r].user = req[r].user /\ req'[r].code = req[r].code
      /\ \A u \in Users : u # w => payments'[u] = payments[u]
      /\ raced' \in {raced, Races(r, "payments", "record")}
  <2>1. req[r] \in Call
    BY CallFields
  <2>2. CASE ListPayments(r)
    BY <1>1, <2>1, <2>2 DEF ListPayments, TypeOK, Call
  <2>3. CASE RecordPayment(r)
    BY <1>1, <2>1, <2>3 DEF RecordPayment, TypeOK, Call
  <2> QED BY <2>2, <2>3
<1>3. ASSUME NEW u \in Users
      PROVE  /\ raced[u] \subseteq raced'[u] /\ Given(u)' \subseteq Given(u)
             /\ Redeemed(u)' = Redeemed(u)
             /\ "subscription" \in raced'[u] => "subscription" \in raced[u]
  BY <1>1, <1>2 DEF Races, TypeOK, Given, Redeemed
<1>4. ASSUME NEW u \in Users, "subscription" \notin raced'[u] PROVE TimeKept(u)'
  BY <1>2, <1>3, <1>4, SameTime
<1>5. ASSUME NEW u \in Users, u # w, "payments" \notin raced'[u] PROVE ListKept(u)'
  <2>1. \A s \in Requests :
            /\ req'[s].user = req[s].user /\ req'[s].code = req[s].code
            /\ req[s].user = u /\ req'[s].at = "done" => req[s].at = "done"
            /\ req[s].user = u /\ req'[s].at = "record" =>
                  req[s].at = "record" /\ req'[s].listed = req[s].listed
    BY <1>1, <1>2, <1>5
  <2> QED BY <2>1, <1>2, <1>3, <1>5, SameList
<1>6. ASSUME "payments" \notin raced'[w] PROVE ListKept(w)'
  <2>1. ListKept(w)
    BY <1>3, <1>6 DEF KeptInv
  <2>2. CASE ListPayments(r)
    <3>1. /\ req'[r].at = "record" /\ req'[r].listed = payments[w] /\ payments' = payments
          /\ raced' = Races(r, "payments", "record")
      BY <1>1, <2>2, CallFields DEF ListPayments, TypeOK, Call
    <3>2. \A s \in Requests : s # r /\ req[s].user = w => req[s].at # "record"
      BY <1>1, <1>6, <3>1 DEF Races, TypeOK
    <3> QED BY <1>1, <1>2, <2>1, <3>1, <3>2 DEF ListKept
  <2>3. CASE RecordPayment(r)
    <3>1. /\ req[r].at = "record" /\ req'[r].at = "done"
          /\ payments'[w] = req[r].listed \cup {req[r].code}
      BY <1>1, <2>3, CallFields DEF RecordPayment, TypeOK, Call
    <3>2. \A s \in Requests : s # r /\ req[s].user = w =>
             req[s].at # "record" /\ (req[s].at = "done" => req[s].code \in req[r].listed)
      BY <1>1, <2>1, <3>1 DEF ListKept
    <3> QED BY <1>1, <1>2, <3>1, <3>2 DEF ListKept
  <2> QED BY <2>2, <2>3
<1>7. \A u \in Users : Given(u)' \subseteq Redeemed(u)'
  BY <1>3 DEF KeptInv
<1> QED BY <1>4, <1>5, <1>6, <1>7 DEF KeptInv

(* KeptInv is inductive beside the two other invariants.                    *)
LEMMA NextKept ==
  ASSUME ReservationInv, ReservationInv', TimeInv, KeptInv, [Next]_vars
  PROVE  KeptInv'
<1>1. TypeOK /\ TypeOK'
  BY DEF ReservationInv
<1>2. ASSUME NEW r \in Requests, Redeem(r) \/ Progress(r) \/ Crash(r) PROVE KeptInv'
  BY <1>1, <1>2, OtherKept, RowKept, ReadKept, ExtendKept, PaymentsKept DEF Progress
<1> QED BY <1>1, <1>2, RowKept DEF Next

-----------------------------------------------------------------------------
(* The invariant of the reservations holds in every reachable state.        *)
THEOREM Reservations == Spec => []ReservationInv
<1>1. ReservationInv /\ [Next]_vars => ReservationInv'
  BY NextReservation
<1> QED BY <1>1, InitReservation, PTL DEF Spec

(* Every variable of the vouchers keeps its type.                           *)
THEOREM VoucherTypes == Spec => []TypeOK
<1>1. ReservationInv => TypeOK
  BY DEF ReservationInv
<1> QED BY <1>1, Reservations, PTL

(* redemption_count is always the number of redemption rows.                *)
THEOREM CountIsExact == Spec => []CountMatchesRows
<1>1. ReservationInv => CountMatchesRows
  BY DEF ReservationInv, Counted, CountMatchesRows
<1> QED BY <1>1, Reservations, PTL

(* No redemption commits on a stale check.                                  *)
THEOREM NoStaleRedemption == Spec => RedeemedWithinLimits
<1> DEFINE Within == \A r \in Requests : req[r].at = "commit" /\ req'[r].at = "activate" =>
                        LET v == row[req[r].code] IN
                        /\ Redeemable(v, req[r].began, 0)
                        /\ req[r].user \notin reds[req[r].code]
<1>1. ReservationInv => Within
  BY DEF ReservationInv, ChecksHold, Checked, LocksHeld
<1>2. ReservationInv /\ [Next]_vars => [Within]_vars
  BY <1>1
<1>3. [][Within]_vars => RedeemedWithinLimits
  BY DEF RedeemedWithinLimits
<1> QED BY <1>2, <1>3, Reservations, PTL DEF Spec

(* No user ever holds, or is about to be given, time that the granted        *)
(* redemptions do not cover (activate_subscription after the commit).       *)
THEOREM TimeIsCovered == Spec => []TimeInv
<1>1. Init => TimeInv
  <2> SUFFICES ASSUME Init PROVE TimeInv
    OBVIOUS
  <2>1. \A r \in Requests : req[r].at = "new"
    BY DEF Init
  <2>2. \A u \in Users : Redeemed(u) = {} /\ Granted(u) = {}
    BY DEF Init, Redeemed, Granted
  <2>3. IsFiniteSet({}) /\ Cardinality({}) = 0
    BY FS_EmptySet
  <2>4. \A u \in Users : expiry[u] = 0 /\ now = 0
    BY DEF Init
  <2>5. 0 <= 0 + Days * 0
    BY TimeAssumption
  <2> QED BY <2>1, <2>2, <2>3, <2>4, <2>5 DEF TimeInv, Owed, Timed
<1>2. ReservationInv /\ ReservationInv' /\ TimeInv /\ [Next]_vars => TimeInv'
  BY NextTime
<1> QED BY <1>1, <1>2, Reservations, PTL DEF Spec

(* Whatever is retried, lost or raced, a user never holds more time than the *)
(* redemptions of the user are worth.                                       *)
THEOREM NoFreeTime == Spec => []NoTimeWithoutRedemption
<1>1. ReservationInv /\ TimeInv => NoTimeWithoutRedemption
  <2> SUFFICES ASSUME ReservationInv, TimeInv, NEW u \in Users
               PROVE  expiry[u] <= now + Days * Cardinality(Redeemed(u))
    BY DEF NoTimeWithoutRedemption, Redeemed
  <2>1. /\ IsFiniteSet(Redeemed(u)) /\ Granted(u) \in SUBSET Redeemed(u)
        /\ expiry[u] <= now + Days * Cardinality(Granted(u))
        /\ expiry[u] \in Nat /\ now \in Nat /\ Days \in Nat
    BY TimeAssumption DEF TimeInv, Granted, ReservationInv, TypeOK
  <2> DEFINE a == Cardinality(Granted(u))
             b == Cardinality(Redeemed(u))
  <2>2. a \in Nat /\ b \in Nat /\ a <= b
    BY <2>1, FS_Subset, FS_CardinalityType
  <2> HIDE DEF a, b
  <2>3. PICK d \in Nat : b = a + d
    BY <2>2
  <2>4. Days * b = Days * a + Days * d /\ Days * a \in Nat /\ Days * d \in Nat
    BY <2>1, <2>2, <2>3
  <2> QED BY <2>1, <2>4 DEF a, b
<1> QED BY <1>1, Reservations, TimeIsCovered, PTL

(* Only two requests of the same user that have read the same account data   *)
(* before either writes it can lose what was given (activate_subscription    *)
(* and record_payment); no crash, retry or other user does.                 *)
THEOREM GivenIsKept == Spec => []KeptInv
<1>1. Init => KeptInv
  <2> SUFFICES ASSUME Init PROVE KeptInv
    OBVIOUS
  <2>1. \A r \in Requests : req[r].at = "new"
    BY DEF Init
  <2>2. \A u \in Users : Given(u) = {} /\ expiry[u] = 0
    BY <2>1 DEF Init, Given
  <2>3. Days * Cardinality({}) <= 0
    BY FS_EmptySet, TimeAssumption
  <2> QED BY <2>1, <2>2, <2>3 DEF KeptInv, TimeKept, ListKept
<1>2. ReservationInv /\ ReservationInv' /\ TimeInv /\ KeptInv /\ [Next]_vars => KeptInv'
  BY NextKept
<1> QED BY <1>1, <1>2, Reservations, TimeIsCovered, PTL DEF Spec

(* A user keeps the period and the record of every redemption that was       *)
(* carried out, unless the user's own requests overlapped.                  *)
THEOREM NoRedemptionLost == Spec => []RedemptionsAreKept
<1>1. KeptInv => RedemptionsAreKept
  BY DEF KeptInv, TimeKept, ListKept, RedemptionsAreKept, Kept
<1> QED BY <1>1, GivenIsKept, PTL

=============================================================================
