---------------------- MODULE StreamReplicationProofs ----------------------
(***************************************************************************)
(* TLAPS proofs about StreamReplication: the types and that positions only *)
(* move forwards, for any set of writers and any bounds; and, for a stream *)
(* with one writer whose connection is never lost, that the replica skips  *)
(* no row and applies no batch in part, but for the rows whose processing  *)
(* has raised.                                                             *)
(***************************************************************************)
EXTENDS StreamReplication, ExtremaTheorems, TLAPS

-----------------------------------------------------------------------------
(* Commands without a gap.                                                  *)

(* Where no rows are up to a and none from there to c, there are none.      *)
LEMMA EmptyJoin ==
  ASSUME NEW R, NEW a \in Nat, NEW b \in Nat, NEW c \in Nat,
         Empty(R, a, b), Empty(R, b, c)
  PROVE  Empty(R, a, c)
  BY DEF Empty

(* Tokens that are empty can be left out before a command.                  *)
LEMMA FollowsBefore ==
  ASSUME NEW w, NEW R, NEW a \in Nat, NEW b \in Nat, NEW cmd \in Commands, NEW s,
         Empty(R, a, b), Follows(w, R, b, s, cmd)
  PROVE  Follows(w, R, a, s, cmd)
<1>1. CASE cmd.type = "RDATA"
  <2>1. cmd.row[2] - 1 \in Nat
    BY <1>1, ReplicationAssumption DEF Commands, Rdata, Position, Row
  <2> QED BY <2>1, <1>1, EmptyJoin DEF Follows
<1>2. CASE cmd.type # "RDATA"
  <2>1. cmd.new \in Nat
    BY <1>2, ReplicationAssumption DEF Commands, Rdata, Position, Tokens
  <2> QED BY <2>1, <1>2, EmptyJoin DEF Follows
<1> QED BY <1>1, <1>2

(* The number of rows of a token.                                           *)
LEMMA RowCount ==
  ASSUME TypeOK, NEW w \in Writers, NEW t \in 1..Len(rows[w])
  PROVE  /\ rows[w][t] \in 0..MaxBatch /\ rows[w][t] \in Nat
         /\ t \in 1..MaxToken /\ t \in Nat /\ Len(rows[w]) \in Nat
  BY ReplicationAssumption DEF TypeOK, CurrentToken, Tokens

(* The token that a command reaches.                                        *)
LEMMA ReachesNat ==
  ASSUME NEW cmd \in Commands
  PROVE  Reaches(cmd) \in Nat
  BY ReplicationAssumption DEF Commands, Rdata, Position, Tokens, Reaches

(* Two segments make one.                                                   *)
LEMMA SegmentJoin ==
  ASSUME NEW w, NEW R, NEW n \in Nat, NEW m \in Nat, NEW l \in Nat,
         NEW S \in Seq(Commands), NEW T \in Seq(Commands),
         Segment(w, R, n, S, m), Segment(w, R, m, T, l)
  PROVE  Segment(w, R, n, S \o T, l)
<1>1. CASE S = <<>>
  <2>1. S \o T = T
    BY <1>1
  <2>2. Empty(R, n, m)
    BY <1>1 DEF Segment
  <2>3. T = <<>> => Empty(R, n, l)
    BY <2>2, EmptyJoin DEF Segment
  <2>4. T # <<>> => Follows(w, R, n, {}, T[1])
    BY <2>2, FollowsBefore DEF Segment
  <2> QED BY <2>1, <2>3, <2>4 DEF Segment
<1>2. CASE T = <<>>
  <2>1. S \o T = S
    BY <1>2
  <2>2. Empty(R, m, l)
    BY <1>2 DEF Segment
  <2>3. S = <<>> => Empty(R, n, l)
    BY <2>2, EmptyJoin DEF Segment
  <2>4. S # <<>> => Empty(R, Reaches(S[Len(S)]), l)
    BY <2>2, EmptyJoin, ReachesNat DEF Segment
  <2> QED BY <2>1, <2>3, <2>4 DEF Segment
<1>3. CASE S # <<>> /\ T # <<>>
  <2>1. PICK a \in Nat \ {0}, b \in Nat \ {0} : a = Len(S) /\ b = Len(T)
    BY <1>3
  <2>2. PICK U : U = S \o T
    OBVIOUS
  <2>3. /\ U \in Seq(Commands) /\ Len(U) = a + b /\ U # <<>>
        /\ \A i \in 1..a : U[i] = S[i] /\ S[i] \in Commands
        /\ \A i \in (a + 1)..(a + b) : U[i] = T[i - a]
        /\ \A i \in 1..b : T[i] \in Commands
    BY <2>1, <2>2
  <2>4. ASSUME NEW i \in 1..(a + b) PROVE Sound(w, R, U[i])
    <3>1. CASE i <= a
      BY <2>1, <2>3, <3>1 DEF Segment
    <3>2. CASE i > a
      <4>1. U[i] = T[i - a] /\ i - a \in 1..b
        BY <2>1, <2>3, <3>2
      <4> QED BY <4>1, <2>1 DEF Segment
    <3> QED BY <2>1, <3>1, <3>2
  <2>5. ASSUME NEW i \in 1..(a + b - 1) PROVE Link(w, R, U[i], U[i + 1])
    <3>1. CASE i < a
      <4>1. U[i] = S[i] /\ U[i + 1] = S[i + 1] /\ i \in 1..(a - 1)
        BY <2>1, <2>3, <3>1
      <4> QED BY <4>1, <2>1 DEF Segment
    <3>2. CASE i > a
      <4>1. PICK j : j = i - a
        OBVIOUS
      <4>2. j \in 1..(b - 1) /\ U[i] = T[j] /\ U[i + 1] = T[j + 1]
        <5>1. i + 1 \in (a + 1)..(a + b) /\ (i + 1) - a = j + 1 /\ i \in (a + 1)..(a + b)
          BY <2>1, <3>2, <4>1
        <5> QED BY <2>1, <2>3, <4>1, <5>1
      <4> QED BY <4>2, <2>1 DEF Segment
    <3>3. CASE i = a
      <4>1. U[i] = S[a] /\ U[i + 1] = T[1]
        <5>1. PICK j : j = a + 1
          OBVIOUS
        <5>2. j \in (a + 1)..(a + b) /\ j - a = 1
          BY <2>1, <5>1
        <5>3. U[j] = T[1]
          BY <2>3, <5>2
        <5> QED BY <2>1, <2>3, <3>3, <5>1, <5>3
      <4>2. /\ ~ Open(S[a]) /\ Empty(R, Reaches(S[a]), m)
            /\ Follows(w, R, m, {}, T[1])
        BY <1>3, <2>1 DEF Segment
      <4>3. S[a] \in Commands /\ T[1] \in Commands
        BY <2>1, <2>3
      <4>4. Follows(w, R, Reaches(S[a]), {}, T[1])
        BY <4>2, <4>3, FollowsBefore, ReachesNat
      <4> QED BY <4>1, <4>2, <4>4 DEF Link
    <3> QED BY <2>1, <3>1, <3>2, <3>3
  <2>6. U[1] = S[1] /\ U[a + b] = T[b]
    <3>1. PICK j : j = a + b
      OBVIOUS
    <3>2. j \in (a + 1)..(a + b) /\ j - a = b
      BY <2>1, <3>1
    <3>3. U[j] = T[b]
      BY <2>3, <3>2
    <3>4. U[1] = S[1]
      BY <2>1, <2>3
    <3> QED BY <3>1, <3>3, <3>4
  <2>7. /\ Follows(w, R, n, {}, S[1])
        /\ ~ Open(T[b]) /\ Empty(R, Reaches(T[b]), l)
    BY <1>3, <2>1 DEF Segment
  <2>8. Segment(w, R, n, U, l)
    BY <2>3, <2>4, <2>5, <2>6, <2>7 DEF Segment
  <2> QED BY <2>2, <2>8
<1> QED BY <1>1, <1>2, <1>3

(* The RDATA commands of one token.                                         *)
LEMMA BatchSegment ==
  ASSUME TypeOK, NEW w \in Writers, NEW t \in 1..Len(rows[w]), NEW p \in Nat, p = t - 1
  PROVE  Batch(w, t) \in Seq(Commands) /\ Segment(w, rows[w], p, Batch(w, t), t)
<1>0. PICK k : k = rows[w][t]
  OBVIOUS
<1>1. /\ k \in 0..MaxBatch /\ k \in Nat /\ t \in 1..MaxToken /\ t \in Nat
      /\ Len(rows[w]) \in Nat
  BY <1>0, RowCount
<1>10. PICK B : B = Batch(w, t)
  OBVIOUS
<1>2. /\ DOMAIN B = 1..k
      /\ \A i \in 1..k : B[i] = [type |-> "RDATA", writer |-> w,
                                 token |-> IF i = k THEN t ELSE 0, row |-> <<w, t, i>>]
  BY <1>0, <1>10 DEF Batch
<1>3. \A i \in 1..k : B[i] \in Commands
  BY <1>1, <1>2, ReplicationAssumption DEF Commands, Rdata, Row, Tokens
<1>4. B = [i \in 1..k |-> B[i]]
  BY <1>0, <1>2, <1>10 DEF Batch
<1>5. B \in Seq(Commands) /\ Len(B) = k
  BY <1>1, <1>3, <1>4
<1>6. ASSUME NEW i \in 1..k PROVE Sound(w, rows[w], B[i])
  <2>1. /\ B[i].type = "RDATA" /\ B[i].writer = w /\ B[i].row = <<w, t, i>>
        /\ B[i].token = IF i = rows[w][t] THEN t ELSE 0
    <3>1. B[i] = [type |-> "RDATA", writer |-> w,
                  token |-> IF i = k THEN t ELSE 0, row |-> <<w, t, i>>]
      BY <1>2
    <3> QED BY <3>1, <1>0
  <2>2. i \in 1..rows[w][t]
    BY <1>0
  <2> QED BY <2>1, <2>2 DEF Sound
<1>7. ASSUME NEW i \in 1..(k - 1) PROVE Link(w, rows[w], B[i], B[i + 1])
  <2>1. /\ B[i].type = "RDATA" /\ B[i].token = 0 /\ B[i].row = <<w, t, i>>
        /\ B[i + 1].type = "RDATA" /\ B[i + 1].row = <<w, t, i + 1>>
    BY <1>1, <1>2
  <2> QED BY <2>1 DEF Link, Open
<1>8. CASE k = 0
  <2>1. Empty(rows[w], p, t)
    <3>1. rows[w][t] = 0
      BY <1>0, <1>8
    <3>2. \A s \in (p + 1)..t : s = t
      BY <1>1
    <3> QED BY <3>1, <3>2 DEF Empty
  <2>2. B = <<>> /\ Len(B) = 0
    BY <1>5, <1>8
  <2>3. Segment(w, rows[w], p, B, t)
    BY <2>1, <2>2 DEF Segment
  <2> QED BY <2>3, <1>5, <1>10
<1>9. CASE k # 0
  <2>1. Follows(w, rows[w], p, {}, B[1])
    <3>1. B[1].type = "RDATA" /\ B[1].row = <<w, t, 1>>
      BY <1>1, <1>2, <1>9
    <3> QED BY <3>1, <1>1 DEF Follows, Empty
  <2>2. ~ Open(B[k]) /\ Reaches(B[k]) = t
    BY <1>1, <1>2, <1>9 DEF Open, Reaches
  <2>3. Empty(rows[w], t, t)
    BY <1>1 DEF Empty
  <2>4. B # <<>>
    BY <1>5, <1>9
  <2>5. Len(B) = k
    BY <1>5
  <2> QED BY <2>1, <2>2, <2>3, <2>4, <2>5, <1>5, <1>6, <1>7, <1>10 DEF Segment
<1> QED BY <1>1, <1>8, <1>9

(* FlattenSeq is well defined: its recursive function exists.               *)
LEMMA FlattenExists ==
  ASSUME NEW F, NEW k \in Nat
  PROVE  \E f : f = [i \in 1..k |-> IF i = 1 THEN F[i] ELSE f[i - 1] \o F[i]]
<1> DEFINE T == {n \in Nat : ~ \E f : f = [i \in 1..n |-> IF i = 1 THEN F[i]
                                                          ELSE f[i - 1] \o F[i]]}
<1> SUFFICES ASSUME T # {} PROVE FALSE
  OBVIOUS
<1>1. PICK m \in T : \A y \in T : m <= y
  <2>1. T \subseteq Nat
    OBVIOUS
  <2> HIDE DEF T
  <2> QED BY <2>1, LeastNat
<1>2. m \in Nat /\ ~ \E f : f = [i \in 1..m |-> IF i = 1 THEN F[i] ELSE f[i - 1] \o F[i]]
  OBVIOUS
<1>3. m # 0
  <2> SUFFICES ASSUME m = 0 PROVE FALSE
    OBVIOUS
  <2> DEFINE f == [i \in 1..0 |-> 0]
  <2>1. f = [i \in 1..m |-> IF i = 1 THEN F[i] ELSE f[i - 1] \o F[i]]
    OBVIOUS
  <2> QED BY <2>1, <1>2
<1>4. m - 1 \in Nat /\ m - 1 \notin T
  <2> HIDE DEF T
  <2> QED BY <1>1, <1>2, <1>3
<1>5. PICK f : f = [i \in 1..(m - 1) |-> IF i = 1 THEN F[i] ELSE f[i - 1] \o F[i]]
  BY <1>4
<1> HIDE DEF T
<1> DEFINE g == [i \in 1..m |-> IF i = 1 THEN F[i] ELSE f[i - 1] \o F[i]]
<1>6. ASSUME NEW i \in 1..m, i # 1 PROVE g[i - 1] = f[i - 1]
  <2>1. i - 1 \in 1..(m - 1) /\ i - 1 \in 1..m
    BY <1>2, <1>6
  <2> QED BY <2>1, <1>5
<1>7. g = [i \in 1..m |-> IF i = 1 THEN F[i] ELSE g[i - 1] \o F[i]]
  BY <1>6
<1> QED BY <1>2, <1>7

(* FlattenSeq appends one sequence after the other.                         *)
LEMMA FlattenSteps ==
  ASSUME NEW F, NEW k \in Nat, k # 0, Len(F) = k
  PROVE  \E f : /\ f = [i \in 1..k |-> IF i = 1 THEN F[i] ELSE f[i - 1] \o F[i]]
                /\ FlattenSeq(F) = f[k]
<1>1. \E f : f = [i \in 1..k |-> IF i = 1 THEN F[i] ELSE f[i - 1] \o F[i]]
  BY FlattenExists
<1> DEFINE f == CHOOSE f : f = [i \in 1..Len(F) |-> IF i = 1 THEN F[i] ELSE f[i - 1] \o F[i]]
<1>2. FlattenSeq(F) = f[Len(F)]
  BY DEF FlattenSeq
<1>3. f = [i \in 1..k |-> IF i = 1 THEN F[i] ELSE f[i - 1] \o F[i]]
  BY <1>1
<1> HIDE DEF f
<1> QED BY <1>2, <1>3

(* The RDATA commands of the tokens from+1 to from+k.                       *)
LEMMA FlattenSegment ==
  ASSUME TypeOK, NEW w \in Writers, NEW from \in Nat, NEW k \in Nat \ {0},
         from + k <= Len(rows[w]),
         NEW F, Len(F) = k, \A i \in 1..k : F[i] = Batch(w, from + i)
  PROVE  FlattenSeq(F) \in Seq(Commands) /\ Segment(w, rows[w], from, FlattenSeq(F), from + k)
<1>1. Len(rows[w]) \in Nat
  BY DEF TypeOK
<1>2. \A i \in 1..k : F[i] \in Seq(Commands) /\ Segment(w, rows[w], from + i - 1, F[i], from + i)
  <2> SUFFICES ASSUME NEW i \in 1..k
               PROVE  F[i] \in Seq(Commands) /\ Segment(w, rows[w], from + i - 1, F[i], from + i)
    OBVIOUS
  <2>1. PICK t, p : t = from + i /\ p = from + i - 1
    OBVIOUS
  <2>2. t \in 1..Len(rows[w]) /\ p \in Nat /\ p = t - 1
    BY <2>1, <1>1
  <2>3. Batch(w, t) \in Seq(Commands) /\ Segment(w, rows[w], p, Batch(w, t), t)
    BY <2>2, BatchSegment
  <2> QED BY <2>1, <2>3
<1>4. PICK f : /\ f = [i \in 1..k |-> IF i = 1 THEN F[i] ELSE f[i - 1] \o F[i]]
               /\ FlattenSeq(F) = f[k]
  <2>1. k \in Nat /\ k # 0
    OBVIOUS
  <2> QED BY <2>1, FlattenSteps
<1> DEFINE Good(n) == f[n] \in Seq(Commands) /\ Segment(w, rows[w], from, f[n], from + n)
           T == {n \in 1..k : ~ Good(n)}
<1>5. ASSUME T # {} PROVE FALSE
  <2>1. PICK m \in T : \A y \in T : m <= y
    <3>1. T \subseteq Nat
      OBVIOUS
    <3> HIDE DEF T
    <3> QED BY <1>5, <3>1, LeastNat
  <2>2. m \in 1..k /\ ~ Good(m)
    OBVIOUS
  <2>3. CASE m = 1
    BY <2>2, <2>3, <1>2, <1>4
  <2>4. CASE m # 1
    <3>1. PICK p \in Nat : p = m - 1
      BY <2>2, <2>4
    <3>2. p \in 1..k /\ p \notin T
      <4> HIDE DEF T
      <4> QED BY <2>1, <2>2, <2>4, <3>1
    <3>3. Good(p)
      BY <3>2
    <3>4. f[m] = f[p] \o F[m]
      BY <1>4, <2>2, <2>4, <3>1
    <3>5. Segment(w, rows[w], from + p, F[m], from + m) /\ F[m] \in Seq(Commands)
      BY <1>2, <2>2, <3>1
    <3>6. PICK a \in Nat, b \in Nat : a = from + p /\ b = from + m
      BY <2>2
    <3>7. Segment(w, rows[w], from, f[p] \o F[m], b)
      BY <3>3, <3>5, <3>6, SegmentJoin
    <3>8. f[m] \in Seq(Commands)
      BY <3>3, <3>4, <3>5
    <3> QED BY <2>2, <3>4, <3>6, <3>7, <3>8
  <2> QED BY <2>3, <2>4
<1>6. Good(k)
  <2>1. k \in 1..k /\ k \notin T
    BY <1>5
  <2> QED BY <2>1
<1> QED BY <1>4, <1>6

(* What a streamer sends for the rows after from and up to u leaves no gap. *)
LEMMA UpdatesSegment ==
  ASSUME TypeOK, NEW w \in Writers, NEW from \in Nat, NEW u \in Nat,
         from < u, u <= Len(rows[w])
  PROVE  Updates(w, from, u) \in Seq(Commands) /\ Segment(w, rows[w], from, Updates(w, from, u), u)
<1>1. Len(rows[w]) \in Nat /\ Len(rows[w]) <= MaxToken /\ MaxToken \in Nat
  BY ReplicationAssumption DEF TypeOK, CurrentToken, Tokens
<1>2. PICK used : used = {t \in (from + 1)..u : rows[w][t] > 0}
  OBVIOUS
<1>3. PICK l : l = Max({from} \cup used)
  OBVIOUS
<1>4. l \in Nat /\ l <= u /\ \A t \in used : t <= l
  <2> DEFINE V == {from} \cup used
  <2>1. V \subseteq Nat /\ V # {} /\ \A y \in V : y <= u
    BY <1>2
  <2>2. used \subseteq V /\ l = Max(V)
    BY <1>3
  <2> HIDE DEF V
  <2>3. Max(V) \in V /\ \A y \in V : y <= Max(V)
    BY <2>1, MaxIsGreatest
  <2> QED BY <2>1, <2>2, <2>3
<1>5. Empty(rows[w], l, u)
  <2> SUFFICES ASSUME NEW t \in (l + 1)..u, rows[w][t] # 0 PROVE FALSE
    BY DEF Empty
  <2>1. t \in 1..Len(rows[w])
    BY <1>1, <1>4
  <2>2. rows[w][t] \in Nat
    BY <2>1, RowCount
  <2>3. t \notin used
    BY <1>4
  <2>4. t <= from
    BY <2>2, <2>3, <1>2, <1>4
  <2>5. from <= l
    <3> DEFINE V == {from} \cup used
    <3>1. V \subseteq Nat /\ V # {} /\ (\A y \in V : y <= u) /\ from \in V /\ l = Max(V)
      BY <1>2, <1>3
    <3> HIDE DEF V
    <3> QED BY <3>1, MaxIsGreatest
  <2> QED BY <2>4, <2>5, <1>4
<1>6. PICK k \in Nat \ {0} : k = u - from
  OBVIOUS
<1>7. PICK F : F = [i \in 1..k |-> Batch(w, from + i)]
  OBVIOUS
<1>8. PICK P : P = IF l < u THEN <<PositionCommand(w, l, u)>> ELSE <<>>
  OBVIOUS
<1>9. Updates(w, from, u) = FlattenSeq(F) \o P
  BY <1>2, <1>3, <1>6, <1>7, <1>8 DEF Updates
<1>10. FlattenSeq(F) \in Seq(Commands) /\ Segment(w, rows[w], from, FlattenSeq(F), u)
  <2>1. from + k = u
    BY <1>6
  <2>2. from + k <= Len(rows[w])
    BY <2>1
  <2>3. FlattenSeq(F) \in Seq(Commands) /\ Segment(w, rows[w], from, FlattenSeq(F), from + k)
    <3>1. Len(F) = k /\ \A i \in 1..k : F[i] = Batch(w, from + i)
      BY <1>7
    <3> QED BY <2>2, <3>1, FlattenSegment
  <2> QED BY <2>1, <2>3
<1>11. P \in Seq(Commands) /\ Segment(w, rows[w], u, P, u)
  <2>1. Empty(rows[w], u, u)
    BY DEF Empty
  <2>2. CASE l < u
    <3>1. PICK c : c = PositionCommand(w, l, u)
      OBVIOUS
    <3>2. /\ c.type = "POSITION" /\ c.writer = w /\ c.prev = l /\ c.new = u
          /\ c \in Commands
      BY <3>1, <1>1, <1>4 DEF PositionCommand, Commands, Position, Tokens
    <3>3. Sound(w, rows[w], c) /\ Follows(w, rows[w], u, {}, c) /\ ~ Open(c) /\ Reaches(c) = u
      BY <3>2, <2>1, <1>5 DEF Sound, Follows, Open, Reaches
    <3>4. P = <<c>>
      BY <3>1, <2>2, <1>8
    <3>5. P \in Seq(Commands) /\ Len(P) = 1 /\ P[1] = c /\ P # <<>>
      BY <3>2, <3>4
    <3> QED BY <3>3, <3>5, <2>1 DEF Segment
  <2>3. CASE ~ (l < u)
    <3>1. P = <<>> /\ Len(P) = 0 /\ P \in Seq(Commands)
      BY <2>3, <1>8
    <3> QED BY <3>1, <2>1 DEF Segment
  <2> QED BY <2>2, <2>3
<1>12. PICK S : S = FlattenSeq(F)
  OBVIOUS
<1>13. S \o P \in Seq(Commands) /\ Segment(w, rows[w], from, S \o P, u)
  BY <1>10, <1>11, <1>12, SegmentJoin
<1> QED BY <1>9, <1>12, <1>13

-----------------------------------------------------------------------------
(* Types, for any set of writers.  A streamer is never ahead of its writer,  *)
(* and commands arrive only at a replica that is subscribed.                *)
TypeInv == TypeOK /\ FetchInv /\ ConnInv

(* The fields of a command.                                                 *)
LEMMA CommandFields ==
  ASSUME NEW cmd \in Commands
  PROVE  /\ cmd.writer \in Writers
         /\ cmd.type \in {"RDATA", "POSITION"}
         /\ cmd.type = "RDATA" => cmd.token \in Tokens /\ cmd.row \in Row
         /\ cmd.type = "POSITION" => /\ cmd \in Position
                                     /\ cmd.prev \in Tokens /\ cmd.new \in Tokens
  BY DEF Commands, Rdata, Position

(* A write appends to the rows of its writer.                               *)
LEMMA WriteType ==
  ASSUME TypeInv, NEW w \in Writers, NEW n \in 0..MaxBatch, Write(w, n)
  PROVE  TypeInv'
<1> USE DEF TypeInv
<1>1. rows[w] \in Seq(0..MaxBatch) /\ Len(rows[w]) < MaxToken /\ Len(rows[w]) \in Nat
  BY DEF Write, TypeOK, CurrentToken
<1>2. PICK s : s = Append(rows[w], n)
  OBVIOUS
<1>3. s \in Seq(0..MaxBatch) /\ Len(s) = Len(rows[w]) + 1
  BY <1>1, <1>2
<1>4. \A v \in Writers : rows'[v] = IF v = w THEN s ELSE rows[v]
  BY <1>2 DEF Write, TypeOK
<1>5. /\ rows' \in [Writers -> Seq(0..MaxBatch)]
      /\ \A v \in Writers : CurrentToken(v)' \in Tokens
      /\ \A v \in Writers : CurrentToken(v)' >= CurrentToken(v)
  <2>1. rows' \in [Writers -> Seq(0..MaxBatch)]
    BY <1>2, <1>3 DEF Write, TypeOK
  <2>2. ASSUME NEW v \in Writers
        PROVE  CurrentToken(v)' \in Tokens /\ CurrentToken(v)' >= CurrentToken(v)
    <3>1. Len(rows[v]) \in 0..MaxToken /\ MaxToken \in Nat
      BY ReplicationAssumption DEF TypeOK, CurrentToken, Tokens
    <3>2. CASE v = w
      <4>1. Len(rows'[v]) = Len(rows[w]) + 1
        BY <1>3, <1>4, <3>2
      <4> QED BY <4>1, <3>1, <3>2, <1>1 DEF CurrentToken, Tokens
    <3>3. CASE v # w
      BY <1>4, <3>1, <3>3 DEF CurrentToken, Tokens
    <3> QED BY <3>2, <3>3
  <2> QED BY <2>1, <2>2
<1>6. UNCHANGED <<str, outbox, asked, outages, conn, up, net, queue, work, joined, batch, tok,
                  seen, failed, failures, misses>>
  BY DEF Write, rvars
<1>7. TypeOK'
  BY <1>5, <1>6 DEF TypeOK
<1>8. FetchInv'
  <2> SUFFICES ASSUME NEW v \in Writers
               PROVE  str[v].last <= CurrentToken(v)' /\ str[v].upto <= CurrentToken(v)'
    BY <1>6 DEF FetchInv
  <2>1. str[v].last \in Nat /\ str[v].upto \in Nat
    <3>1. str[v] \in Streamer
      BY DEF TypeOK
    <3> QED BY <3>1, ReplicationAssumption DEF Streamer, Tokens
  <2>2. CurrentToken(v) \in Nat /\ CurrentToken(v)' \in Nat
    BY <1>5, ReplicationAssumption DEF TypeOK, Tokens
  <2> QED BY <2>1, <2>2, <1>5 DEF FetchInv
<1> QED BY <1>6, <1>7, <1>8 DEF ConnInv

(* A step of a streamer that moves it no further than its writer.           *)
LEMMA StreamerType ==
  ASSUME TypeInv, NEW w \in Writers, NEW s \in Streamer,
         s.last <= CurrentToken(w), s.upto <= CurrentToken(w),
         str' = [str EXCEPT ![w] = s], outbox' \in [Writers -> Seq(Commands)],
         asked' \subseteq Writers, outages' \in Nat, failures' \in Nat,
         UNCHANGED <<rows, rvars, misses>>
  PROVE  TypeInv'
<1> USE DEF TypeInv
<1>1. UNCHANGED <<rows, conn, up, net, queue, work, joined, batch, tok, seen, failed, misses>>
  BY DEF rvars
<1>2. TypeOK'
  BY <1>1 DEF TypeOK, CurrentToken
<1>3. FetchInv'
  BY <1>1 DEF FetchInv, CurrentToken, TypeOK
<1> QED BY <1>1, <1>2, <1>3 DEF ConnInv

(* The steps of the streamers.                                              *)
LEMMA WriterType ==
  ASSUME TypeInv, NEW w \in Writers,
         \/ Poke(w) \/ Loop(w) \/ Stream(w) \/ StreamFails(w) \/ OnReplicate(w)
         \/ WriterLost(w) \/ WriterSubscribed(w) \/ WriterReplicates(w)
  PROVE  TypeInv'
<1>1. TypeOK /\ FetchInv
  BY DEF TypeInv
<1>2. PICK s \in Streamer : s = str[w]
  BY <1>1 DEF TypeOK
<1>3. /\ s.at \in {"idle", "loop", "fetch"} /\ s.last \in Tokens /\ s.from \in Tokens
      /\ s.upto \in Tokens /\ s.pending \in BOOLEAN /\ s.announce \in BOOLEAN
      /\ s.link \in {"up", "down", "subscribed"}
  BY DEF Streamer
<1>4. PICK l \in Tokens : l = CurrentToken(w)
  BY <1>1 DEF TypeOK
<1>5. l \in Nat /\ s.last \in Nat /\ s.upto \in Nat /\ s.from \in Nat
      /\ s.last <= l /\ s.upto <= l
  BY <1>1, <1>2, <1>3, <1>4, ReplicationAssumption DEF FetchInv, Tokens
<1>6. str \in [Writers -> Streamer] /\ outbox \in [Writers -> Seq(Commands)]
      /\ asked \subseteq Writers /\ outages \in Nat /\ failures \in Nat
  BY <1>1 DEF TypeOK
<1> DEFINE Moves(z) == /\ z \in Streamer /\ z.last <= CurrentToken(w) /\ z.upto <= CurrentToken(w)
                       /\ str' = [str EXCEPT ![w] = z]
<1>7. CASE Poke(w)
  <2>1. CASE s.link = "down"
    <3>1. PICK z : z = [s EXCEPT !.last = l]
      OBVIOUS
    <3>2. Moves(z)
      <4>1. str' = [str EXCEPT ![w].last = CurrentToken(w)]
        BY <1>2, <1>7, <2>1 DEF Poke
      <4>2. str' = [str EXCEPT ![w] = z]
        BY <4>1, <1>2, <1>4, <1>6, <3>1
      <4> QED BY <4>2, <3>1, <1>3, <1>4, <1>5 DEF Streamer
    <3>3. UNCHANGED <<rows, outbox, asked, outages, rvars, failures, misses>>
      BY <1>7 DEF Poke
    <3> QED BY <3>2, <3>3, <1>6, StreamerType
  <2>2. CASE s.link # "down"
    <3>1. PICK z : z = [s EXCEPT !.pending = TRUE,
                                 !.at = IF s.at = "idle" THEN "loop" ELSE s.at]
      OBVIOUS
    <3>2. Moves(z)
      BY <1>2, <1>3, <1>4, <1>5, <1>6, <1>7, <2>2, <3>1 DEF Poke, Streamer
    <3>3. UNCHANGED <<rows, outbox, asked, outages, rvars, failures, misses>>
      BY <1>7 DEF Poke
    <3> QED BY <3>2, <3>3, <1>6, StreamerType
  <2> QED BY <2>1, <2>2
<1>8. CASE Loop(w)
  <2>1. PICK z : z = [s EXCEPT !.at = IF ~ s.pending THEN "idle"
                                     ELSE IF s.last = l THEN "loop" ELSE "fetch",
                               !.from = s.last, !.upto = l, !.pending = FALSE,
                               !.announce = s.announce /\ ~ s.pending]
    OBVIOUS
  <2>2. Moves(z)
    <3>1. str' = [str EXCEPT ![w].at = IF ~ s.pending THEN "idle"
                                       ELSE IF s.last = l THEN "loop" ELSE "fetch",
                             ![w].from = s.last, ![w].upto = l, ![w].pending = FALSE,
                             ![w].announce = @ /\ ~ s.pending]
      BY <1>2, <1>4, <1>8 DEF Loop
    <3>2. str' = [str EXCEPT ![w] = z]
      BY <3>1, <1>2, <1>6, <2>1
    <3>3. z \in Streamer /\ z.last = s.last /\ z.upto = l
      BY <2>1, <1>3, <1>4 DEF Streamer
    <3> QED BY <3>2, <3>3, <1>4, <1>5
  <2>3. PICK cmds : /\ cmds = IF s.pending /\ s.announce
                              THEN <<PositionCommand(w, s.last, s.last)>> ELSE <<>>
                    /\ Send(w, cmds)
    BY <1>2, <1>8 DEF Loop
  <2>4. cmds \in Seq(Commands)
    <3>1. PositionCommand(w, s.last, s.last) \in Commands
      BY <1>3 DEF PositionCommand, Commands, Position
    <3> QED BY <2>3, <3>1
  <2>5. outbox' \in [Writers -> Seq(Commands)]
    BY <2>3, <2>4, <1>6 DEF Send
  <2>6. UNCHANGED <<rows, asked, outages, rvars, failures, misses>>
    BY <1>8 DEF Loop
  <2> QED BY <2>2, <2>5, <2>6, <1>6, StreamerType
<1>9. CASE Stream(w)
  <2>1. PICK u \in (s.from + 1)..s.upto :
           /\ Send(w, Updates(w, s.from, u))
           /\ str' = [str EXCEPT ![w].at = "loop", ![w].last = u,
                                 ![w].pending = @ \/ u < s.upto]
    BY <1>2, <1>9 DEF Stream
  <2>2. u \in Nat /\ u <= l /\ s.from < u /\ u \in Tokens
    BY <2>1, <1>4, <1>5, ReplicationAssumption DEF Tokens
  <2>3. PICK z : z = [s EXCEPT !.at = "loop", !.last = u, !.pending = s.pending \/ u < s.upto]
    OBVIOUS
  <2>4. Moves(z)
    BY <1>2, <1>3, <1>4, <1>5, <1>6, <2>1, <2>2, <2>3 DEF Streamer
  <2>5. Updates(w, s.from, u) \in Seq(Commands)
    BY <2>2, <1>1, <1>4, <1>5, UpdatesSegment DEF CurrentToken
  <2>6. outbox' \in [Writers -> Seq(Commands)]
    BY <2>1, <2>5, <1>6 DEF Send
  <2>7. UNCHANGED <<rows, asked, outages, rvars, failures, misses>>
    BY <1>9 DEF Stream
  <2> QED BY <2>4, <2>6, <2>7, <1>6, StreamerType
<1>10. CASE StreamFails(w)
  <2>1. PICK z : z = [s EXCEPT !.at = "idle", !.pending = FALSE]
    OBVIOUS
  <2>2. Moves(z)
    BY <1>2, <1>3, <1>4, <1>5, <1>6, <1>10, <2>1 DEF StreamFails, Streamer
  <2>3. UNCHANGED <<rows, outbox, asked, outages, rvars, misses>> /\ failures' \in Nat
    BY <1>6, <1>10 DEF StreamFails
  <2> QED BY <2>2, <2>3, <1>6, StreamerType
<1>11. CASE OnReplicate(w)
  <2>1. PICK z : z = [s EXCEPT !.announce = TRUE]
    OBVIOUS
  <2>2. Moves(z)
    BY <1>2, <1>3, <1>4, <1>5, <1>6, <1>11, <2>1 DEF OnReplicate, Streamer
  <2>3. UNCHANGED <<rows, outbox, outages, rvars, failures, misses>> /\ asked' \subseteq Writers
    BY <1>6, <1>11 DEF OnReplicate
  <2> QED BY <2>2, <2>3, <1>6, StreamerType
<1>12. CASE WriterLost(w)
  <2>1. PICK z : z = [s EXCEPT !.link = "down"]
    OBVIOUS
  <2>2. Moves(z)
    BY <1>2, <1>3, <1>4, <1>5, <1>6, <1>12, <2>1 DEF WriterLost, Streamer
  <2>3. UNCHANGED <<rows, outbox, rvars, failures, misses>> /\ asked' \subseteq Writers
        /\ outages' \in Nat
    BY <1>6, <1>12 DEF WriterLost
  <2> QED BY <2>2, <2>3, <1>6, StreamerType
<1>13. CASE WriterSubscribed(w)
  <2>1. PICK z : z = [s EXCEPT !.link = "subscribed"]
    OBVIOUS
  <2>2. Moves(z)
    BY <1>2, <1>3, <1>4, <1>5, <1>6, <1>13, <2>1 DEF WriterSubscribed, Streamer
  <2>3. UNCHANGED <<rows, outbox, asked, outages, rvars, failures, misses>>
    BY <1>13 DEF WriterSubscribed
  <2> QED BY <2>2, <2>3, <1>6, StreamerType
<1>14. CASE WriterReplicates(w)
  <2>1. PICK z : z = [s EXCEPT !.link = "up", !.announce = TRUE]
    OBVIOUS
  <2>2. Moves(z)
    BY <1>2, <1>3, <1>4, <1>5, <1>6, <1>14, <2>1 DEF WriterReplicates, Streamer
  <2>3. UNCHANGED <<rows, outbox, outages, rvars, failures, misses>> /\ asked' \subseteq Writers
    BY <1>6, <1>14 DEF WriterReplicates
  <2> QED BY <2>2, <2>3, <1>6, StreamerType
<1> QED BY <1>7, <1>8, <1>9, <1>10, <1>11, <1>12, <1>13, <1>14

(* on_rdata keeps the larger position.                                      *)
LEMMA OnRdataType ==
  ASSUME TypeOK, NEW w \in Writers, NEW token \in Tokens, NEW these, these \subseteq Row,
         OnRdata(w, token, these)
  PROVE  /\ tok' \in [Writers -> Tokens] /\ seen' \subseteq Row
         /\ \A v \in Writers : tok[v] <= tok'[v]
<1>1. tok \in [Writers -> Tokens] /\ Tokens \subseteq Nat
  BY ReplicationAssumption DEF TypeOK, Tokens
<1>2. PICK l : l = Larger(tok[w], token)
  OBVIOUS
<1>3. l \in Tokens /\ tok[w] <= l
  <2>1. tok[w] \in Nat /\ tok[w] \in Tokens /\ token \in Nat
    BY <1>1
  <2>2. l = IF tok[w] > token THEN tok[w] ELSE token
    BY <1>2 DEF Larger
  <2> QED BY <2>1, <2>2
<1>4. tok' = [tok EXCEPT ![w] = l] /\ seen' = seen \cup these
  BY <1>2 DEF OnRdata
<1>5. \A v \in Writers : tok[v] \in Nat
  BY <1>1
<1> QED BY <1>1, <1>3, <1>4, <1>5 DEF TypeOK

(* The rows of a fetch, and the greatest token among them.                  *)
LEMMA FetchedRows ==
  ASSUME NEW these, these \subseteq Row, NEW m, m = Max({0} \cup {r[2] : r \in these})
  PROVE  /\ m \in Tokens /\ m \in {0} \cup {r[2] : r \in these}
         /\ \A r \in these : r[2] <= m
<1> DEFINE V == {0} \cup {r[2] : r \in these}
<1>1. V \subseteq Tokens /\ Tokens \subseteq Nat /\ 0 \in V /\ \A r \in these : r[2] \in V
  BY ReplicationAssumption DEF Row, Tokens
<1>2. MaxToken \in Nat /\ \A y \in V : y <= MaxToken
  BY <1>1, ReplicationAssumption DEF Tokens
<1>3. m = Max(V)
  OBVIOUS
<1> HIDE DEF V
<1>4. Max(V) \in V /\ \A y \in V : y <= Max(V)
  <2>1. V \subseteq Nat /\ V # {}
    BY <1>1
  <2> QED BY <2>1, <1>2, MaxIsGreatest
<1>5. m \in V /\ \A r \in these : r[2] <= m
  BY <1>1, <1>3, <1>4
<1> QED BY <1>1, <1>5 DEF V

(* Removing the first command of a sequence, and what it is.                *)
LEMMA HeadTail ==
  ASSUME NEW S, NEW q \in Seq(S), q # <<>>
  PROVE  Head(q) \in S /\ Tail(q) \in Seq(S) /\ Head(q) = q[1]
  OBVIOUS

(* The steps of Redis and of the replica.                                   *)
LEMMA ReplicaType ==
  ASSUME TypeInv,
         \/ \E w \in Writers : Publish(w)
         \/ Subscribe \/ Lost \/ Receive
         \/ ProcessRdata \/ RdataFails
         \/ ProcessPosition \/ CatchUp \/ PositionFails \/ PositionDone
  PROVE  TypeInv' /\ \A w \in Writers : tok[w] <= tok'[w]
<1>1. TypeOK /\ FetchInv /\ ConnInv
  BY DEF TypeInv
<1>2. /\ rows \in [Writers -> Seq(0..MaxBatch)] /\ \A w \in Writers : CurrentToken(w) \in Tokens
      /\ str \in [Writers -> Streamer] /\ outbox \in [Writers -> Seq(Commands)]
      /\ asked \subseteq Writers /\ conn \in 0..MaxConns /\ conn \in Nat /\ up \in BOOLEAN
      /\ net \in Seq(Commands) /\ queue \in Seq([conn : 1..MaxConns, cmd : Commands])
      /\ work \in Work \cup {Idle} /\ joined \subseteq 1..MaxConns
      /\ batch \subseteq Row /\ seen \subseteq Row /\ failed \subseteq Row
      /\ tok \in [Writers -> Tokens]
      /\ outages \in Nat /\ failures \in Nat /\ misses \in Nat /\ MaxConns \in Nat
  BY <1>1, ReplicationAssumption DEF TypeOK
<1>3. \A w \in Writers : tok[w] \in Nat
  BY <1>2, ReplicationAssumption DEF Tokens
<1> DEFINE Kept == UNCHANGED <<rows, str>>
           Same == tok' = tok /\ seen' = seen /\ failed' = failed
<1>4. ASSUME Kept PROVE FetchInv' /\ \A w \in Writers : CurrentToken(w)' \in Tokens
  BY <1>1, <1>2, <1>4 DEF FetchInv, CurrentToken
<1>5. CASE \E w \in Writers : Publish(w)
  <2>1. PICK w \in Writers : Publish(w)
    BY <1>5
  <2>2. outbox[w] \in Seq(Commands) /\ outbox[w] # <<>>
    BY <2>1, <1>2 DEF Publish
  <2>3. Head(outbox[w]) \in Commands /\ Tail(outbox[w]) \in Seq(Commands)
    BY <2>2, HeadTail
  <2>4. outbox' \in [Writers -> Seq(Commands)] /\ net' \in Seq(Commands)
    BY <2>1, <2>3, <1>2 DEF Publish
  <2>5. ConnInv'
    BY <2>1, <1>1 DEF Publish, ConnInv
  <2>6. Kept /\ Same /\ UNCHANGED <<asked, outages, conn, up, queue, work, joined, batch,
                                    failures, misses>>
    BY <2>1 DEF Publish
  <2> QED BY <2>4, <2>5, <2>6, <1>2, <1>3, <1>4 DEF TypeInv, TypeOK
<1>6. CASE Subscribe
  <2>1. conn' \in 0..MaxConns /\ up' = TRUE /\ conn' # 0
    BY <1>2, <1>6 DEF Subscribe
  <2>2. Kept /\ Same /\ UNCHANGED <<outbox, outages, net, queue, work, joined, batch,
                                    failures, misses>> /\ asked' \subseteq Writers
    BY <1>6 DEF Subscribe
  <2>3. ConnInv'
    BY <2>1 DEF ConnInv
  <2> QED BY <2>1, <2>2, <2>3, <1>2, <1>3, <1>4 DEF TypeInv, TypeOK
<1>7. CASE Lost
  <2>1. /\ Kept /\ Same /\ UNCHANGED <<outbox, asked, outages, conn, queue, work, batch,
                                       failures, misses>>
        /\ net' = <<>> /\ up' = FALSE /\ joined' \subseteq 1..MaxConns
    BY <1>2, <1>7 DEF Lost, wvars
  <2>2. ConnInv'
    BY <2>1 DEF ConnInv
  <2>3. net' \in Seq(Commands)
    BY <2>1
  <2>7. up' \in BOOLEAN
    BY <2>1, Zenon
  <2>4. UNCHANGED <<rows, str, outbox, asked, outages, conn, queue, work, batch, tok, seen,
                    failed, failures, misses>> /\ joined' \subseteq 1..MaxConns
    BY <2>1
  <2>5. FetchInv' /\ \A w \in Writers : CurrentToken(w)' \in Tokens
    BY <2>4, <1>4
  <2>6. TypeOK'
    BY <2>3, <2>4, <2>5, <2>7, <1>2 DEF TypeOK
  <2> QED BY <2>2, <2>4, <2>5, <2>6, <1>3 DEF TypeInv
<1>8. CASE Receive
  <2>1. net # <<>> /\ up /\ conn \in 1..MaxConns
    BY <1>1, <1>2, <1>8 DEF Receive, ConnInv
  <2>2. Head(net) \in Commands /\ Tail(net) \in Seq(Commands)
    BY <2>1, <1>2, HeadTail
  <2>3. PICK e : e = [conn |-> conn, cmd |-> Head(net)]
    OBVIOUS
  <2>4. e \in [conn : 1..MaxConns, cmd : Commands]
    BY <2>1, <2>2, <2>3
  <2>5. queue' = queue \/ queue' = Append(queue, e)
    BY <1>8, <2>3 DEF Receive
  <2>6. queue' \in Seq([conn : 1..MaxConns, cmd : Commands])
    <3>1. PICK E : E = [conn : 1..MaxConns, cmd : Commands]
      OBVIOUS
    <3>2. e \in E /\ queue \in Seq(E)
      BY <2>4, <3>1, <1>2
    <3>3. Append(queue, e) \in Seq(E)
      BY <3>2
    <3> QED BY <2>5, <3>1, <3>2, <3>3
  <2>7. /\ Kept /\ Same /\ UNCHANGED <<outbox, asked, outages, conn, up, work, joined, batch,
                                       failures, misses>>
        /\ net' = Tail(net)
    BY <1>8 DEF Receive, wvars
  <2>8. ConnInv'
    BY <2>1, <2>7, <1>1 DEF ConnInv
  <2> QED BY <2>2, <2>6, <2>7, <2>8, <1>2, <1>3, <1>4 DEF TypeInv, TypeOK
<1>9. CASE ProcessRdata
  <2>1. queue # <<>> /\ queue' = Tail(queue) /\ Head(queue).cmd.type = "RDATA"
    BY <1>9 DEF ProcessRdata
  <2>2. PICK e \in [conn : 1..MaxConns, cmd : Commands] : e = Head(queue)
    BY <2>1, <1>2, HeadTail
  <2>3. queue' \in Seq([conn : 1..MaxConns, cmd : Commands])
    BY <2>1, <1>2, HeadTail
  <2>4. PICK cmd \in Commands : cmd = e.cmd
    BY <2>2
  <2>5. cmd.writer \in Writers /\ cmd.token \in Tokens /\ cmd.row \in Row
    BY <2>1, <2>2, <2>4, CommandFields
  <2>6. /\ Kept /\ UNCHANGED <<outbox, asked, outages, conn, up, net, work, joined, failed,
                               failures, misses>>
        /\ \/ batch' = batch /\ Same
           \/ batch' = batch \cup {cmd.row} /\ Same
           \/ batch' = {} /\ Same
           \/ batch' = {} /\ OnRdata(cmd.writer, cmd.token, batch \cup {cmd.row})
    BY <1>9, <2>2, <2>4 DEF ProcessRdata, wvars
  <2>7. batch' \subseteq Row
    BY <2>5, <2>6, <1>2
  <2>8. /\ tok' \in [Writers -> Tokens] /\ seen' \subseteq Row
        /\ \A w \in Writers : tok[w] <= tok'[w]
    <3>1. CASE Same
      BY <3>1, <1>2, <1>3
    <3>2. CASE OnRdata(cmd.writer, cmd.token, batch \cup {cmd.row})
      <4>1. PICK these : these = batch \cup {cmd.row}
        OBVIOUS
      <4>2. these \subseteq Row /\ OnRdata(cmd.writer, cmd.token, these)
        BY <4>1, <3>2, <2>5, <1>2
      <4> QED BY <4>2, <2>5, <1>1, OnRdataType
    <3> QED BY <2>6, <3>1, <3>2
  <2>9. ConnInv'
    BY <2>6, <1>1 DEF ConnInv
  <2> QED BY <2>3, <2>6, <2>7, <2>8, <2>9, <1>2, <1>4 DEF TypeInv, TypeOK
<1>10. CASE ProcessPosition
  <2>1. queue # <<>> /\ queue' = Tail(queue) /\ Head(queue).cmd.type = "POSITION"
    BY <1>10 DEF ProcessPosition
  <2>2. PICK e \in [conn : 1..MaxConns, cmd : Commands] : e = Head(queue)
    BY <2>1, <1>2, HeadTail
  <2>3. queue' \in Seq([conn : 1..MaxConns, cmd : Commands])
    BY <2>1, <1>2, HeadTail
  <2>4. PICK cmd \in Commands, c \in 1..MaxConns : cmd = e.cmd /\ c = e.conn
    BY <2>2
  <2>5. cmd.writer \in Writers /\ cmd \in Position
    BY <2>1, <2>2, <2>4, CommandFields
  <2>6. /\ Kept /\ Same /\ UNCHANGED <<outbox, asked, outages, conn, up, net, failures, misses>>
        /\ \/ UNCHANGED <<work, joined, batch>>
           \/ /\ joined' = {} /\ batch' = {}
              /\ work' = [at |-> IF UpToDate(cmd) THEN "end" ELSE "fetch", conn |-> c,
                          cmd |-> cmd, from |-> tok[cmd.writer]]
    BY <1>10, <2>2, <2>4 DEF ProcessPosition, wvars
  <2>7. tok[cmd.writer] \in Tokens
    BY <2>5, <1>2
  <2>8. work' \in Work \cup {Idle} /\ joined' \subseteq 1..MaxConns /\ batch' \subseteq Row
    <3>1. PICK at \in {"fetch", "end"} : at = IF UpToDate(cmd) THEN "end" ELSE "fetch"
      OBVIOUS
    <3>2. [at |-> at, conn |-> c, cmd |-> cmd, from |-> tok[cmd.writer]] \in Work
      BY <2>5, <2>7 DEF Work
    <3> QED BY <2>6, <3>1, <3>2, <1>2
  <2>9. ConnInv'
    BY <2>6, <1>1 DEF ConnInv
  <2> QED BY <2>3, <2>6, <2>8, <2>9, <1>2, <1>3, <1>4 DEF TypeInv, TypeOK
<1>15. ASSUME NEW w \in Writers, NEW from \in Tokens, NEW u \in Tokens, OnUpdates(w, from, u)
       PROVE  /\ tok' \in [Writers -> Tokens] /\ seen' \subseteq Row
              /\ \A v \in Writers : tok[v] <= tok'[v]
  <2>1. PICK these : these = {r \in Row : /\ r[1] = w /\ r[2] \in (from + 1)..u
                                          /\ r[3] <= rows[w][r[2]]}
    OBVIOUS
  <2>2. PICK m : m = Max({0} \cup {r[2] : r \in these})
    OBVIOUS
  <2>3. these \subseteq Row /\ m \in Tokens
    BY <2>1, <2>2, FetchedRows
  <2>4. OnRdata(w, m, these)
    BY <2>1, <2>2, <1>15 DEF OnUpdates
  <2> QED BY <2>3, <2>4, <1>1, OnRdataType
<1>11. CASE CatchUp
  <2>1. work \in Work /\ work.at = "fetch"
    <3>1. work.at = "fetch"
      BY <1>11 DEF CatchUp
    <3> QED BY <3>1, <1>2 DEF Idle
  <2>2. PICK w \in Writers, new \in Tokens, from \in Tokens :
           w = work.cmd.writer /\ new = work.cmd.new /\ from = work.from
    BY <2>1 DEF Work, Position
  <2>3. PICK u \in IF from < new THEN (from + 1)..new ELSE {new} :
           /\ OnUpdates(w, from, u)
           /\ work' = [work EXCEPT !.at = IF u < new THEN "fetch" ELSE "end", !.from = u]
    BY <1>11, <2>2 DEF CatchUp
  <2>4. u \in Tokens
    BY <2>2, <2>3, ReplicationAssumption DEF Tokens
  <2>5. /\ tok' \in [Writers -> Tokens] /\ seen' \subseteq Row
        /\ \A v \in Writers : tok[v] <= tok'[v]
    BY <2>3, <2>4, <1>15
  <2>6. work' \in Work
    BY <2>1, <2>3, <2>4 DEF Work
  <2>7. Kept /\ UNCHANGED <<outbox, asked, outages, conn, up, net, queue, joined, batch, failed,
                            failures, misses>>
    BY <1>11 DEF CatchUp, wvars
  <2>8. ConnInv'
    BY <2>7, <1>1 DEF ConnInv
  <2> QED BY <2>5, <2>6, <2>7, <2>8, <1>2, <1>4 DEF TypeInv, TypeOK
<1>12. CASE PositionFails
  <2>1. Kept /\ UNCHANGED <<outbox, asked, outages, conn, up, net, queue, joined, batch, failed,
                            failures>>
        /\ misses' \in Nat /\ work' = Idle /\ work # Idle
    BY <1>2, <1>12 DEF PositionFails, wvars
  <2>2. PICK w \in Writers, new \in Tokens, from \in Tokens :
           w = work.cmd.writer /\ new = work.cmd.new /\ from = work.from
    BY <2>1, <1>2 DEF Work, Position
  <2>3. \/ \E u \in from..new : OnUpdates(w, from, u)
        \/ OnRdata(w, new, {})
        \/ UNCHANGED <<tok, seen>>
    BY <2>2, <1>12 DEF PositionFails
  <2>4. /\ tok' \in [Writers -> Tokens] /\ seen' \subseteq Row
        /\ \A v \in Writers : tok[v] <= tok'[v]
    <3>1. CASE \E u \in from..new : OnUpdates(w, from, u)
      <4>1. PICK u \in from..new : OnUpdates(w, from, u)
        BY <3>1
      <4>2. u \in Tokens
        BY <2>2, ReplicationAssumption DEF Tokens
      <4> QED BY <4>1, <4>2, <1>15
    <3>2. CASE OnRdata(w, new, {})
      BY <3>2, <1>1, OnRdataType
    <3>3. CASE UNCHANGED <<tok, seen>>
      BY <3>3, <1>2, <1>3
    <3> QED BY <2>3, <3>1, <3>2, <3>3
  <2>5. ConnInv'
    BY <2>1, <1>1 DEF ConnInv
  <2> QED BY <2>1, <2>4, <2>5, <1>2, <1>4 DEF TypeInv, TypeOK
<1>14. CASE RdataFails
  <2>1. queue # <<>> /\ queue' = Tail(queue) /\ Head(queue).cmd.type = "RDATA"
    BY <1>14 DEF RdataFails
  <2>2. PICK e \in [conn : 1..MaxConns, cmd : Commands] : e = Head(queue)
    BY <2>1, <1>2, HeadTail
  <2>3. queue' \in Seq([conn : 1..MaxConns, cmd : Commands])
    BY <2>1, <1>2, HeadTail
  <2>4. e.cmd.row \in Row
    BY <2>1, <2>2, CommandFields
  <2>5. /\ Kept /\ UNCHANGED <<outbox, asked, outages, conn, up, net, work, joined, tok, seen,
                               failures>>
        /\ misses' \in Nat /\ failed' \subseteq failed \cup (batch \cup {e.cmd.row})
        /\ batch' \subseteq batch
    BY <1>2, <1>14, <2>2 DEF RdataFails, wvars
  <2>6. failed' \subseteq Row /\ batch' \subseteq Row
    BY <2>4, <2>5, <1>2
  <2>7. ConnInv'
    BY <2>5, <1>1 DEF ConnInv
  <2> QED BY <2>3, <2>5, <2>6, <2>7, <1>2, <1>3, <1>4 DEF TypeInv, TypeOK
<1>13. CASE PositionDone
  <2>1. work \in Work /\ work.at = "end"
    BY <1>2, <1>13 DEF PositionDone, Idle
  <2>2. PICK w \in Writers, new \in Tokens, c \in 1..MaxConns :
           w = work.cmd.writer /\ new = work.cmd.new /\ c = work.conn
    BY <2>1 DEF Work, Position
  <2>3. OnRdata(w, new, {})
    BY <1>13, <2>2 DEF PositionDone
  <2>4. /\ tok' \in [Writers -> Tokens] /\ seen' \subseteq Row
        /\ \A v \in Writers : tok[v] <= tok'[v]
    BY <2>3, <1>1, OnRdataType
  <2>5. Kept /\ UNCHANGED <<outbox, asked, outages, conn, up, net, queue, batch, failed,
                            failures, misses>>
        /\ joined' \subseteq 1..MaxConns /\ work' = Idle
    BY <1>2, <1>13, <2>2 DEF PositionDone, wvars
  <2>6. ConnInv'
    BY <2>5, <1>1 DEF ConnInv
  <2> QED BY <2>4, <2>5, <2>6, <1>2, <1>4 DEF TypeInv, TypeOK
<1> QED BY <1>5, <1>6, <1>7, <1>8, <1>9, <1>10, <1>11, <1>12, <1>13, <1>14

(* The invariant holds initially ...                                        *)
LEMMA InitType == Init => TypeInv
<1> SUFFICES ASSUME Init PROVE TypeInv
  OBVIOUS
<1>1. /\ rows = [w \in Writers |-> <<>>] /\ outbox = [w \in Writers |-> <<>>]
      /\ tok = [w \in Writers |-> 0]
      /\ str = [w \in Writers |-> [at |-> "idle", last |-> 0, from |-> 0, upto |-> 0,
                                   pending |-> FALSE, announce |-> ~ Settled, link |-> "up"]]
      /\ asked = {} /\ net = <<>> /\ queue = <<>> /\ work = Idle /\ batch = {} /\ seen = {}
      /\ failed = {} /\ outages = 0 /\ failures = 0 /\ misses = 0
      /\ conn = IF Settled THEN 1 ELSE 0
      /\ up = Settled
      /\ joined = IF Settled THEN {1} ELSE {}
  BY DEF Init
<1>2. MaxToken \in Nat /\ MaxConns \in Nat \ {0} /\ Settled \in BOOLEAN /\ 0 \in Tokens
  BY ReplicationAssumption DEF Tokens
<1>3. rows \in [Writers -> Seq(0..MaxBatch)] /\ outbox \in [Writers -> Seq(Commands)]
  BY <1>1
<1>4. \A w \in Writers : CurrentToken(w) = 0
  BY <1>1 DEF CurrentToken
<1>5. str \in [Writers -> Streamer] /\ tok \in [Writers -> Tokens]
  BY <1>1, <1>2 DEF Streamer
<1>6. net \in Seq(Commands) /\ queue \in Seq([conn : 1..MaxConns, cmd : Commands])
  BY <1>1
<1>7. conn \in 0..MaxConns /\ joined \subseteq 1..MaxConns
  BY <1>1, <1>2
<1>8. up \in BOOLEAN
  BY <1>1, <1>2
<1>9. TypeOK
  BY <1>1, <1>2, <1>3, <1>4, <1>5, <1>6, <1>7, <1>8 DEF TypeOK
<1>10. FetchInv
  BY <1>1, <1>4 DEF FetchInv
<1>11. ConnInv
  BY <1>1 DEF ConnInv
<1> QED BY <1>9, <1>10, <1>11 DEF TypeInv

(* ... and every step keeps it, and moves no position of the replica back.  *)
LEMMA NextType ==
  ASSUME TypeInv, Next
  PROVE  TypeInv' /\ \A w \in Writers : tok[w] <= tok'[w]
<1>1. \A w \in Writers : tok[w] \in Nat
  BY ReplicationAssumption DEF TypeInv, TypeOK, Tokens
<1>2. CASE \E w \in Writers, n \in 0..MaxBatch : Write(w, n)
  <2>1. PICK w \in Writers, n \in 0..MaxBatch : Write(w, n)
    BY <1>2
  <2>2. tok' = tok
    BY <2>1 DEF Write, rvars
  <2> QED BY <2>1, <2>2, <1>1, WriteType
<1>3. CASE \E w \in Writers : \/ Poke(w) \/ Loop(w) \/ Stream(w) \/ StreamFails(w)
                              \/ OnReplicate(w) \/ WriterLost(w) \/ WriterSubscribed(w)
                              \/ WriterReplicates(w)
  <2>1. tok' = tok
    BY <1>3 DEF Poke, Loop, Stream, StreamFails, OnReplicate, WriterLost, WriterSubscribed,
                WriterReplicates, rvars
  <2> QED BY <2>1, <1>1, <1>3, WriterType
<1>4. CASE \/ \E w \in Writers : Publish(w)
           \/ Subscribe \/ Lost \/ Receive
           \/ ProcessRdata \/ RdataFails
           \/ ProcessPosition \/ CatchUp \/ PositionFails \/ PositionDone
  BY <1>4, ReplicaType
<1> QED BY <1>2, <1>3, <1>4 DEF Next

(* A step that changes nothing keeps it.                                    *)
LEMMA StutterType ==
  ASSUME TypeInv, UNCHANGED vars
  PROVE  TypeInv'
  BY DEF TypeInv, TypeOK, FetchInv, ConnInv, CurrentToken, vars, wvars, rvars

(* The types hold in every state, for any writers and any outages.          *)
THEOREM TypesInvariant == Spec => []TypeInv
<1>1. TypeInv /\ [Next]_vars => TypeInv'
  BY NextType, StutterType
<1> QED BY <1>1, InitType, PTL DEF Spec

(* The variables of the streamers and of the replica keep their types.      *)
THEOREM ReplicationTypes == Spec => []TypeOK
<1>1. TypeInv => TypeOK
  BY DEF TypeInv
<1> QED BY <1>1, TypesInvariant, PTL

(* The replica's positions never go back, whatever arrives late or twice.   *)
THEOREM PositionsNeverMoveBack == Spec => PositionsMoveForwards
<1> DEFINE Forwards == \A w \in Writers : tok[w] <= tok'[w]
<1>1. TypeInv /\ [Next]_vars => [Forwards]_vars
  BY NextType
<1>2. [][Forwards]_vars => PositionsMoveForwards
  BY DEF PositionsMoveForwards
<1> QED BY <1>1, <1>2, TypesInvariant, PTL DEF Spec

-----------------------------------------------------------------------------
(* The pipe.                                                                *)

(* What a pipe holds.                                                       *)
Item == [conn : Nat, cmd : Commands]

(* The commands before token n can be left out for who has more.            *)
LEMMA FollowsAfter ==
  ASSUME NEW w, NEW R, NEW m \in Nat, NEW n \in Nat, m <= n, NEW b, NEW cmd \in Commands,
         Follows(w, R, m, b, cmd)
  PROVE  Follows(w, R, n, b, cmd)
<1>1. CASE cmd.type = "RDATA"
  <2>1. cmd.row[2] - 1 \in Nat
    BY <1>1, ReplicationAssumption DEF Commands, Rdata, Position, Row
  <2>2. Empty(R, m, cmd.row[2] - 1) => Empty(R, n, cmd.row[2] - 1)
    BY <2>1 DEF Empty
  <2> QED BY <2>2, <1>1 DEF Follows
<1>2. CASE cmd.type # "RDATA"
  <2>1. cmd.new \in Nat
    BY <1>2, ReplicationAssumption DEF Commands, Rdata, Position, Tokens
  <2>2. Empty(R, m, cmd.new) => Empty(R, n, cmd.new)
    BY <2>1 DEF Empty
  <2> QED BY <2>2, <1>2 DEF Follows
<1> QED BY <1>1, <1>2

(* A command can leave a pipe from its head, where the connection changes,  *)
(* or when it is a POSITION.                                                *)
LEMMA GaplessRemove ==
  ASSUME NEW w, NEW R, NEW e \in Nat, NEW l \in Nat, NEW p \in Seq(Item), NEW q \in Seq(Item),
         NEW a \in Nat, a < Len(p), Len(q) = Len(p) - 1,
         \A i \in 1..a : q[i] = p[i],
         \A i \in (a + 1)..Len(q) : q[i] = p[i + 1],
         a = 0 \/ p[a].conn < p[a + 1].conn \/ p[a + 1].cmd.type = "POSITION",
         Gapless(w, R, p, e, l)
  PROVE  Gapless(w, R, q, e, l)
<1>1. PICK k \in Nat : k = Len(p)
  OBVIOUS
<1>2. k # 0 /\ Len(q) = k - 1 /\ k - 1 \in Nat
  BY <1>1
<1>3. \A i \in 1..k : p[i] \in Item /\ p[i].conn \in Nat /\ p[i].cmd \in Commands
  <2>1. \A i \in 1..k : p[i] \in Item
    BY <1>1
  <2> QED BY <2>1 DEF Item
<1>4. /\ \A i \in 1..k : p[i].conn <= e /\ Sound(w, R, p[i].cmd)
      /\ \A i \in 1..(k - 1) : /\ p[i].conn <= p[i + 1].conn
                               /\ p[i].conn = p[i + 1].conn => Link(w, R, p[i].cmd, p[i + 1].cmd)
      /\ p[k].conn = e => ~ Open(p[k].cmd) /\ Empty(R, Reaches(p[k].cmd), l)
  BY <1>1, <1>2 DEF Gapless
<1>5. ASSUME NEW i \in 1..(k - 1)
      PROVE  \E j \in 1..k : q[i] = p[j] /\ j = IF i <= a THEN i ELSE i + 1
  <2>1. CASE i <= a
    BY <2>1, <1>2
  <2>2. CASE i > a
    <3>1. i \in (a + 1)..Len(q) /\ i + 1 \in 1..k
      BY <2>2, <1>2
    <3> QED BY <2>2, <3>1
  <2> QED BY <2>1, <2>2
<1>6. ASSUME NEW i \in 1..(k - 1) PROVE q[i].conn <= e /\ Sound(w, R, q[i].cmd)
  BY <1>4, <1>5
<1>7. ASSUME NEW i \in 1..(k - 2)
      PROVE  /\ q[i].conn <= q[i + 1].conn
             /\ q[i].conn = q[i + 1].conn => Link(w, R, q[i].cmd, q[i + 1].cmd)
  <2>1. i \in 1..(k - 1) /\ i + 1 \in 1..(k - 1) /\ k - 2 \in Int
    BY <1>1
  <2>2. PICK x : x = i + 1
    OBVIOUS
  <2>3. x \in 1..(k - 1)
    BY <2>1, <2>2
  <2>4. CASE i < a
    <3>1. q[i] = p[i] /\ q[i + 1] = p[i + 1]
      BY <2>1, <2>2, <2>3, <2>4
    <3> QED BY <3>1, <2>1, <1>4
  <2>5. CASE i > a
    <3>1. q[i] = p[x] /\ q[x] = p[x + 1] /\ x \in 1..(k - 1)
      BY <2>1, <2>2, <2>3, <2>5, <1>2
    <3> QED BY <3>1, <2>2, <1>4
  <2>6. CASE i = a
    <3>1. q[i] = p[i] /\ q[x] = p[x + 1] /\ i \in 1..(k - 1) /\ x \in 1..(k - 1)
          /\ i \in 1..k /\ x \in 1..k /\ x + 1 \in 1..k
      BY <2>1, <2>2, <2>3, <2>6, <1>2
    <3>2. /\ p[i].conn <= p[x].conn /\ p[x].conn <= p[x + 1].conn
          /\ p[i].conn = p[x].conn => Link(w, R, p[i].cmd, p[x].cmd)
          /\ p[x].conn = p[x + 1].conn => Link(w, R, p[x].cmd, p[x + 1].cmd)
      BY <3>1, <2>2, <1>4
    <3>3. /\ p[i].conn \in Nat /\ p[x].conn \in Nat /\ p[x + 1].conn \in Nat
          /\ p[i].cmd \in Commands /\ p[x].cmd \in Commands /\ p[x + 1].cmd \in Commands
      BY <3>1, <1>3
    <3>4. ASSUME p[i].conn = p[x + 1].conn PROVE Link(w, R, p[i].cmd, p[x + 1].cmd)
      <4>1. p[i].conn = p[x].conn /\ p[x].conn = p[x + 1].conn
        BY <3>2, <3>3, <3>4
      <4>2. p[x].cmd.type = "POSITION"
        BY <4>1, <2>2, <2>6, <3>3
      <4>3. ~ Open(p[i].cmd) /\ ~ Open(p[x].cmd) /\ Reaches(p[x].cmd) = p[x].cmd.new
        BY <4>1, <4>2, <3>2 DEF Link, Open, Reaches
      <4>4. Empty(R, Reaches(p[i].cmd), Reaches(p[x].cmd))
        BY <4>1, <4>2, <4>3, <3>2 DEF Link, Follows
      <4>5. Follows(w, R, Reaches(p[x].cmd), {}, p[x + 1].cmd)
        BY <4>1, <4>3, <3>2 DEF Link
      <4>6. Follows(w, R, Reaches(p[i].cmd), {}, p[x + 1].cmd)
        BY <4>4, <4>5, <3>3, ReachesNat, FollowsBefore
      <4> QED BY <4>3, <4>6 DEF Link
    <3>5. p[i].conn <= p[x + 1].conn
      <4>1. PICK u, v, z : u = p[i].conn /\ v = p[x].conn /\ z = p[x + 1].conn
        OBVIOUS
      <4>2. u \in Nat /\ v \in Nat /\ z \in Nat /\ u <= v /\ v <= z
        BY <4>1, <3>2, <3>3
      <4>3. u <= z
        BY <4>2
      <4> QED BY <4>1, <4>3
    <3>6. q[i] = p[i] /\ q[i + 1] = p[x + 1]
      BY <3>1, <2>2
    <3> QED BY <3>4, <3>5, <3>6
  <2> QED BY <2>4, <2>5, <2>6
<1>8. ASSUME q # <<>>, q[k - 1].conn = e
      PROVE  ~ Open(q[k - 1].cmd) /\ Empty(R, Reaches(q[k - 1].cmd), l)
  <2>1. PICK z \in Nat : z = k - 1
    BY <1>2
  <2>2. z # 0 /\ z \in 1..(k - 1) /\ z \in 1..k /\ k \in 1..k /\ z + 1 = k
    BY <2>1, <1>2, <1>8
  <2>3. CASE a < z
    <3>1. q[z] = p[k]
      BY <2>1, <2>2, <2>3, <1>2
    <3> QED BY <3>1, <2>1, <1>4, <1>8
  <2>4. CASE a = z
    <3>1. q[z] = p[z]
      BY <2>2, <2>4
    <3>2. /\ p[z].conn <= p[k].conn /\ p[k].conn <= e
          /\ p[z].conn = p[k].conn => Link(w, R, p[z].cmd, p[k].cmd)
      BY <2>2, <1>4
    <3>3. p[z].conn \in Nat /\ p[k].conn \in Nat /\ p[z].cmd \in Commands /\ p[k].cmd \in Commands
      BY <2>2, <1>3
    <3>4. p[z].conn = e /\ p[k].conn = e
      BY <3>1, <3>2, <3>3, <2>1, <1>8
    <3>5. p[k].cmd.type = "POSITION"
      BY <3>3, <3>4, <2>2, <2>4
    <3>6. ~ Open(p[z].cmd) /\ Reaches(p[k].cmd) = p[k].cmd.new
      BY <3>2, <3>4, <3>5 DEF Link, Reaches
    <3>7. Empty(R, Reaches(p[z].cmd), Reaches(p[k].cmd)) /\ Empty(R, Reaches(p[k].cmd), l)
      BY <3>2, <3>4, <3>5, <3>6, <1>4 DEF Link, Follows
    <3>8. Empty(R, Reaches(p[z].cmd), l)
      BY <3>3, <3>7, ReachesNat, EmptyJoin
    <3> QED BY <3>1, <3>6, <3>8, <2>1
  <2> QED BY <2>1, <2>2, <2>3, <2>4, <1>1
<1> QED BY <1>2, <1>6, <1>7, <1>8 DEF Gapless

(* The head of a pipe and what is behind it: nothing of connection c, or a   *)
(* command that follows the head.                                           *)
LEMMA TailCases ==
  ASSUME NEW w, NEW R, NEW e \in Nat, NEW l \in Nat, NEW p \in Seq(Item), p # <<>>,
         Gapless(w, R, p, e, l)
  PROVE  /\ p[1] \in Item /\ p[1].conn \in Nat /\ p[1].cmd \in Commands /\ p[1].conn <= e
         /\ Sound(w, R, p[1].cmd)
         /\ Tail(p) \in Seq(Item)
         /\ Tail(p) = <<>> /\ p[1].conn = e =>
               ~ Open(p[1].cmd) /\ Empty(R, Reaches(p[1].cmd), l)
         /\ Tail(p) # <<>> =>
               /\ Tail(p)[1].cmd \in Commands /\ Tail(p)[1].conn \in Nat
               /\ p[1].conn <= Tail(p)[1].conn
               /\ p[1].conn = Tail(p)[1].conn => Link(w, R, p[1].cmd, Tail(p)[1].cmd)
<1>1. PICK k \in Nat \ {0} : k = Len(p)
  OBVIOUS
<1>2. PICK q : q = Tail(p)
  OBVIOUS
<1>3. q \in Seq(Item) /\ Len(q) = k - 1 /\ (q # <<>> => k > 1 /\ q[1] = p[2])
  BY <1>1, <1>2
<1>4. p[1] \in Item /\ (k > 1 => p[2] \in Item)
  BY <1>1
<1>5. /\ p[1].conn \in Nat /\ p[1].cmd \in Commands
      /\ (k > 1 => p[2].conn \in Nat /\ p[2].cmd \in Commands)
  BY <1>4 DEF Item
<1>6. 1 \in 1..k /\ p[1].conn <= e /\ Sound(w, R, p[1].cmd)
  BY <1>1 DEF Gapless
<1>7. k > 1 => p[1].conn <= p[2].conn
               /\ (p[1].conn = p[2].conn => Link(w, R, p[1].cmd, p[2].cmd))
  <2>1. k > 1 => 1 \in 1..(k - 1) /\ 1 + 1 = 2
    BY <1>1
  <2> QED BY <2>1, <1>1 DEF Gapless
<1>8. k = 1 /\ p[1].conn = e => ~ Open(p[1].cmd) /\ Empty(R, Reaches(p[1].cmd), l)
  BY <1>1 DEF Gapless
<1>9. q = <<>> => k = 1
  <2>1. q = <<>> => Len(q) = 0
    OBVIOUS
  <2> QED BY <2>1, <1>1, <1>3
<1> QED BY <1>2, <1>3, <1>4, <1>5, <1>6, <1>7, <1>8, <1>9

(* A pipe without its head.                                                 *)
LEMMA GaplessTail ==
  ASSUME NEW w, NEW R, NEW e \in Nat, NEW l \in Nat, NEW p \in Seq(Item), p # <<>>,
         Gapless(w, R, p, e, l)
  PROVE  Gapless(w, R, Tail(p), e, l)
<1>1. PICK q : q = Tail(p)
  OBVIOUS
<1>2. q \in Seq(Item) /\ Len(q) = Len(p) - 1 /\ 0 < Len(p)
      /\ \A i \in (0 + 1)..Len(q) : q[i] = p[i + 1]
  BY <1>1
<1>3. \A i \in 1..0 : q[i] = p[i]
  OBVIOUS
<1>4. PICK a \in Nat : a = 0
  OBVIOUS
<1>5. Gapless(w, R, q, e, l)
  BY <1>2, <1>3, <1>4, GaplessRemove
<1> QED BY <1>1, <1>5

(* A connection before the head's has nothing left in the pipe.             *)
LEMMA CursorPast ==
  ASSUME NEW w, NEW R, NEW e \in Nat, NEW l \in Nat, NEW p \in Seq(Item), p # <<>>,
         Gapless(w, R, p, e, l), NEW c \in Nat, c < p[1].conn, NEW n, NEW b
  PROVE  Cursor(w, R, Tail(p), e, l, c, n, b)
<1>1. p[1].conn \in Nat /\ p[1].conn <= e
  BY TailCases
<1>2. CASE Tail(p) = <<>>
  <2>1. c # e
    BY <1>1
  <2> QED BY <1>2, <2>1 DEF Cursor
<1>3. CASE Tail(p) # <<>>
  <2>1. p[1].conn <= Tail(p)[1].conn /\ Tail(p)[1].conn \in Nat
    BY <1>3, TailCases
  <2>2. PICK x \in Nat, y \in Nat : x = p[1].conn /\ y = Tail(p)[1].conn
    BY <1>1, <2>1
  <2>3. c < x /\ x <= y
    BY <2>1, <2>2
  <2>4. c < y
    BY <2>3
  <2> QED BY <1>3, <2>2, <2>4 DEF Cursor
<1> QED BY <1>2, <1>3

(* After a command that completes a token, one who has at least as much      *)
(* goes on.                                                                 *)
LEMMA CursorNext ==
  ASSUME NEW w, NEW R, NEW e \in Nat, NEW l \in Nat, NEW p \in Seq(Item), p # <<>>,
         Gapless(w, R, p, e, l), NEW n \in Nat, ~ Open(p[1].cmd), Reaches(p[1].cmd) <= n
  PROVE  Cursor(w, R, Tail(p), e, l, p[1].conn, n, {})
<1>1. PICK m \in Nat : m = Reaches(p[1].cmd)
  BY TailCases, ReachesNat
<1>2. CASE Tail(p) = <<>>
  <2>1. p[1].conn = e => Empty(R, m, l)
    BY <1>1, <1>2, TailCases
  <2>2. Empty(R, m, l) => Empty(R, n, l)
    BY <1>1 DEF Empty
  <2> QED BY <1>2, <2>1, <2>2 DEF Cursor
<1>3. CASE Tail(p) # <<>>
  <2>1. /\ p[1].conn <= Tail(p)[1].conn /\ Tail(p)[1].cmd \in Commands
        /\ p[1].conn = Tail(p)[1].conn => Follows(w, R, m, {}, Tail(p)[1].cmd)
    BY <1>1, <1>3, TailCases DEF Link
  <2>2. p[1].conn = Tail(p)[1].conn => Follows(w, R, n, {}, Tail(p)[1].cmd)
    BY <1>1, <2>1, FollowsAfter
  <2> QED BY <1>3, <2>1, <2>2 DEF Cursor
<1> QED BY <1>2, <1>3

(* A POSITION that is left out.                                             *)
LEMMA CursorSkip ==
  ASSUME NEW w, NEW R, NEW e \in Nat, NEW l \in Nat, NEW p \in Seq(Item), p # <<>>,
         Gapless(w, R, p, e, l), NEW c \in Nat, NEW n \in Nat, NEW b,
         p[1].cmd.type = "POSITION", Cursor(w, R, p, e, l, c, n, b)
  PROVE  Cursor(w, R, Tail(p), e, l, c, n, b)
<1>1. c <= p[1].conn /\ (c = p[1].conn => Follows(w, R, n, b, p[1].cmd))
  BY DEF Cursor
<1>2. p[1].conn \in Nat /\ p[1].cmd \in Commands /\ ~ Open(p[1].cmd)
  BY TailCases DEF Open
<1>3. CASE c < p[1].conn
  BY <1>3, CursorPast
<1>4. CASE c = p[1].conn
  <2>1. PICK m \in Nat : m = Reaches(p[1].cmd)
    BY <1>2, ReachesNat
  <2>2. b = {} /\ Empty(R, n, m)
    BY <1>1, <1>4, <2>1 DEF Follows, Reaches
  <2>3. CASE Tail(p) = <<>>
    <3>1. c = e => Empty(R, m, l)
      BY <1>4, <2>1, <2>3, TailCases
    <3>2. Empty(R, m, l) => Empty(R, n, l)
      BY <2>2, EmptyJoin
    <3> QED BY <2>2, <2>3, <3>1, <3>2 DEF Cursor
  <2>4. CASE Tail(p) # <<>>
    <3>1. /\ c <= Tail(p)[1].conn /\ Tail(p)[1].cmd \in Commands
          /\ c = Tail(p)[1].conn => Follows(w, R, m, {}, Tail(p)[1].cmd)
      BY <1>2, <1>4, <2>1, <2>4, TailCases DEF Link
    <3>2. c = Tail(p)[1].conn => Follows(w, R, n, {}, Tail(p)[1].cmd)
      BY <2>2, <3>1, FollowsBefore
    <3> QED BY <2>2, <2>4, <3>1, <3>2 DEF Cursor
  <2> QED BY <2>3, <2>4
<1> QED BY <1>1, <1>2, <1>3, <1>4

(* A row of a batch that is still open joins the ones before it.            *)
LEMMA CursorOpen ==
  ASSUME NEW w, NEW R, NEW e \in Nat, NEW l \in Nat, NEW p \in Seq(Item), p # <<>>,
         Gapless(w, R, p, e, l), NEW n \in Nat, NEW b, Open(p[1].cmd),
         Follows(w, R, n, b, p[1].cmd)
  PROVE  Cursor(w, R, Tail(p), e, l, p[1].conn, n, b \cup {p[1].cmd.row})
<1>1. /\ p[1].cmd.type = "RDATA" /\ p[1].cmd.token = 0 /\ p[1].cmd \in Commands
      /\ Sound(w, R, p[1].cmd)
  BY TailCases DEF Open
<1>2. PICK t, i : p[1].cmd.row = <<w, t, i>>
  BY <1>1 DEF Sound
<1>3. t \in Nat \ {0} /\ i \in Nat \ {0}
  BY <1>1, <1>2, ReplicationAssumption DEF Commands, Rdata, Position, Row
<1>4. b = {<<w, t, j>> : j \in 1..(i - 1)} /\ Empty(R, n, t - 1)
  BY <1>1, <1>2 DEF Follows
<1>5. b \cup {<<w, t, i>>} = {<<w, t, j>> : j \in 1..((i + 1) - 1)}
  <2>1. 1..((i + 1) - 1) = 1..(i - 1) \cup {i}
    BY <1>3
  <2> QED BY <1>4, <2>1
<1>6. CASE Tail(p) = <<>>
  BY <1>6, TailCases DEF Cursor
<1>7. CASE Tail(p) # <<>>
  <2>1. PICK d : d = Tail(p)[1].cmd
    OBVIOUS
  <2>2. p[1].conn <= Tail(p)[1].conn
        /\ (p[1].conn = Tail(p)[1].conn => Link(w, R, p[1].cmd, d))
    BY <2>1, <1>7, TailCases
  <2>3. p[1].cmd.row[2] = t /\ p[1].cmd.row[3] = i
    BY <1>2
  <2>4. ASSUME Link(w, R, p[1].cmd, d)
        PROVE  Follows(w, R, n, b \cup {<<w, t, i>>}, d)
    <3>1. d.type = "RDATA" /\ d.row = <<w, t, i + 1>>
      BY <2>3, <2>4 DEF Link
    <3>2. d.row[2] = t /\ d.row[3] = i + 1
      BY <3>1
    <3> QED BY <3>1, <3>2, <1>4, <1>5 DEF Follows
  <2> QED BY <1>2, <1>7, <2>1, <2>2, <2>4 DEF Cursor
<1> QED BY <1>6, <1>7

(* q is p with the commands S of connection e behind it.                    *)
Extends(p, S, e, q) ==
    /\ Len(q) = Len(p) + Len(S)
    /\ \A i \in 1..Len(p) : q[i] = p[i]
    /\ \A i \in (Len(p) + 1)..(Len(p) + Len(S)) : q[i].conn = e /\ q[i].cmd = S[i - Len(p)]

(* Commands without a gap from l to m take a pipe that ends at l to m.      *)
LEMMA GaplessAppend ==
  ASSUME NEW w, NEW R, NEW e \in Nat, NEW l \in Nat, NEW m \in Nat,
         NEW p \in Seq(Item), NEW q \in Seq(Item), NEW S \in Seq(Commands),
         Extends(p, S, e, q), Gapless(w, R, p, e, l), Segment(w, R, l, S, m)
  PROVE  Gapless(w, R, q, e, m)
<1>1. PICK k \in Nat, j \in Nat : k = Len(p) /\ j = Len(S)
  OBVIOUS
<1>2. /\ Len(q) = k + j
      /\ \A i \in 1..k : q[i] = p[i]
      /\ \A i \in (k + 1)..(k + j) : q[i].conn = e /\ q[i].cmd = S[i - k]
  BY <1>1 DEF Extends
<1>3. (k = 0 <=> p = <<>>) /\ (j = 0 <=> S = <<>>)
  BY <1>1
<1>4. \A i \in 1..k : p[i] \in Item
  BY <1>1
<1>5. \A i \in 1..k : p[i].conn \in Nat /\ p[i].cmd \in Commands
  BY <1>4 DEF Item
<1>6. /\ \A i \in 1..k : p[i].conn <= e /\ Sound(w, R, p[i].cmd)
      /\ \A i \in 1..(k - 1) : /\ p[i].conn <= p[i + 1].conn
                               /\ p[i].conn = p[i + 1].conn => Link(w, R, p[i].cmd, p[i + 1].cmd)
      /\ k # 0 /\ p[k].conn = e => ~ Open(p[k].cmd) /\ Empty(R, Reaches(p[k].cmd), l)
  BY <1>1, <1>3 DEF Gapless
<1>7. /\ \A i \in 1..j : Sound(w, R, S[i]) /\ S[i] \in Commands
      /\ \A i \in 1..(j - 1) : Link(w, R, S[i], S[i + 1])
      /\ j = 0 => Empty(R, l, m)
      /\ j # 0 => Follows(w, R, l, {}, S[1]) /\ ~ Open(S[j]) /\ Empty(R, Reaches(S[j]), m)
  BY <1>1, <1>3 DEF Segment
<1>8. ASSUME NEW i \in 1..(k + j) PROVE q[i].conn <= e /\ Sound(w, R, q[i].cmd)
  <2>1. CASE i <= k
    <3>1. i \in 1..k /\ q[i] = p[i]
      BY <2>1, <1>2
    <3> QED BY <3>1, <1>6
  <2>2. CASE i > k
    <3>1. q[i].conn = e /\ q[i].cmd = S[i - k] /\ i - k \in 1..j
      BY <2>2, <1>2
    <3> QED BY <3>1, <1>7
  <2> QED BY <2>1, <2>2
<1>9. ASSUME NEW i \in 1..(k + j - 1)
      PROVE  /\ q[i].conn <= q[i + 1].conn
             /\ q[i].conn = q[i + 1].conn => Link(w, R, q[i].cmd, q[i + 1].cmd)
  <2>1. CASE i < k
    <3>1. PICK y : y = i + 1
      OBVIOUS
    <3>2. i \in 1..k /\ y \in 1..k /\ i \in 1..(k - 1)
      BY <2>1, <3>1
    <3>3. q[i] = p[i] /\ q[y] = p[y]
      BY <3>2, <1>2
    <3> QED BY <3>1, <3>2, <3>3, <1>6
  <2>2. CASE i > k
    <3>1. PICK x \in Nat, y \in Nat : x = i - k /\ y = i + 1
      BY <2>2
    <3>2. i \in (k + 1)..(k + j) /\ y \in (k + 1)..(k + j) /\ y - k = x + 1 /\ x \in 1..(j - 1)
      BY <2>2, <3>1
    <3>3. q[i].conn = e /\ q[i].cmd = S[x] /\ q[y].conn = e /\ q[y].cmd = S[x + 1]
      BY <3>1, <3>2, <1>2
    <3> QED BY <3>1, <3>2, <3>3, <1>7
  <2>3. CASE i = k
    <3>1. PICK y : y = k + 1
      OBVIOUS
    <3>2. y \in (k + 1)..(k + j) /\ y - k = 1 /\ k # 0 /\ j # 0 /\ k \in 1..k /\ 1 \in 1..j
      BY <2>3, <3>1
    <3>3. q[k] = p[k] /\ q[y].conn = e /\ q[y].cmd = S[1]
      BY <3>1, <3>2, <1>2
    <3>4. p[k].conn <= e /\ p[k].cmd \in Commands /\ S[1] \in Commands
      BY <3>2, <1>5, <1>6, <1>7
    <3>5. ASSUME p[k].conn = e PROVE Link(w, R, p[k].cmd, S[1])
      <4>1. ~ Open(p[k].cmd) /\ Empty(R, Reaches(p[k].cmd), l) /\ Follows(w, R, l, {}, S[1])
        BY <3>2, <3>5, <1>6, <1>7
      <4>2. Follows(w, R, Reaches(p[k].cmd), {}, S[1])
        BY <4>1, <3>4, ReachesNat, FollowsBefore
      <4> QED BY <4>1, <4>2 DEF Link
    <3> QED BY <2>3, <3>1, <3>3, <3>4, <3>5
  <2> QED BY <2>1, <2>2, <2>3
<1>10. ASSUME q # <<>>, q[k + j].conn = e
       PROVE  ~ Open(q[k + j].cmd) /\ Empty(R, Reaches(q[k + j].cmd), m)
  <2>1. CASE j = 0
    <3>1. k # 0 /\ k + j = k /\ q[k] = p[k] /\ k \in 1..k
      BY <2>1, <1>2, <1>10
    <3>2. ~ Open(p[k].cmd) /\ Empty(R, Reaches(p[k].cmd), l) /\ Empty(R, l, m)
      BY <2>1, <3>1, <1>6, <1>7, <1>10
    <3>3. Empty(R, Reaches(p[k].cmd), m)
      BY <3>1, <3>2, <1>5, ReachesNat, EmptyJoin
    <3> QED BY <3>1, <3>2, <3>3
  <2>2. CASE j # 0
    <3>1. PICK y : y = k + j
      OBVIOUS
    <3>2. y \in (k + 1)..(k + j) /\ y - k = j
      BY <2>2, <3>1
    <3>3. q[y].cmd = S[j]
      BY <3>2, <1>2
    <3> QED BY <2>2, <3>1, <3>3, <1>7
  <2> QED BY <2>1, <2>2
<1> QED BY <1>2, <1>8, <1>9, <1>10 DEF Gapless

(* Who misses nothing in a pipe misses nothing in a longer one.             *)
LEMMA CursorAppend ==
  ASSUME NEW w, NEW R, NEW e \in Nat, NEW l \in Nat, NEW m \in Nat,
         NEW p \in Seq(Item), NEW q \in Seq(Item), NEW S \in Seq(Commands),
         Extends(p, S, e, q), Segment(w, R, l, S, m),
         NEW c \in Nat, c <= e, NEW n \in Nat, NEW b,
         Cursor(w, R, p, e, l, c, n, b)
  PROVE  Cursor(w, R, q, e, m, c, n, b)
<1>1. CASE p # <<>>
  <2>1. q # <<>> /\ q[1] = p[1]
    BY <1>1 DEF Extends
  <2> QED BY <2>1, <1>1 DEF Cursor
<1>2. CASE p = <<>> /\ S = <<>>
  <2>1. q = <<>>
    BY <1>2 DEF Extends
  <2>2. Empty(R, l, m) /\ (c = e => b = {} /\ Empty(R, n, l))
    BY <1>2 DEF Segment, Cursor
  <2>3. c = e => Empty(R, n, m)
    BY <2>2, EmptyJoin
  <2> QED BY <2>1, <2>2, <2>3 DEF Cursor
<1>3. CASE p = <<>> /\ S # <<>>
  <2>1. Len(p) = 0 /\ Len(S) \in Nat /\ Len(S) # 0
    BY <1>3
  <2>2. q # <<>> /\ q[1].conn = e /\ q[1].cmd = S[1]
    <3>1. 1 \in (Len(p) + 1)..(Len(p) + Len(S)) /\ 1 - Len(p) = 1
      BY <2>1
    <3> QED BY <2>1, <3>1 DEF Extends
  <2>3. S[1] \in Commands /\ Follows(w, R, l, {}, S[1])
    BY <1>3 DEF Segment
  <2>4. c = e => b = {} /\ Follows(w, R, n, {}, S[1])
    BY <2>3, <1>3, FollowsBefore DEF Cursor
  <2> QED BY <2>2, <2>4 DEF Cursor
<1> QED BY <1>1, <1>2, <1>3

(* A connection is lost: the commands up to index a stay, the next b are     *)
(* lost, and the rest will be received on the next connection.              *)
LEMMA GaplessCut ==
  ASSUME NEW w, NEW R, NEW e \in Nat, NEW l \in Nat, NEW p \in Seq(Item), NEW q \in Seq(Item),
         NEW a \in Nat, NEW b \in Nat, NEW d \in Nat, Len(p) = a + b + d, Len(q) = a + d,
         \A i \in 1..a : q[i] = p[i],
         \A i \in (a + 1)..(a + d) : q[i].conn = e + 1 /\ q[i].cmd = p[i + b].cmd,
         \A i \in (a + b + 1)..(a + b + d) : p[i].conn = e,
         Gapless(w, R, p, e, l)
  PROVE  Gapless(w, R, q, e + 1, l)
<1>1. \A i \in 1..(a + b + d) : p[i] \in Item
  OBVIOUS
<1>2. \A i \in 1..(a + b + d) : p[i].conn \in Nat
  BY <1>1 DEF Item
<1>3. /\ \A i \in 1..(a + b + d) : p[i].conn <= e /\ Sound(w, R, p[i].cmd)
      /\ \A i \in 1..(a + b + d - 1) :
            /\ p[i].conn <= p[i + 1].conn
            /\ p[i].conn = p[i + 1].conn => Link(w, R, p[i].cmd, p[i + 1].cmd)
      /\ a + b + d # 0 /\ p[a + b + d].conn = e =>
            ~ Open(p[a + b + d].cmd) /\ Empty(R, Reaches(p[a + b + d].cmd), l)
  <2>1. PICK k \in Nat : k = a + b + d
    OBVIOUS
  <2>2. Len(p) = k /\ (k # 0 => p # <<>>)
    BY <2>1
  <2>3. /\ \A i \in 1..k : p[i].conn <= e /\ Sound(w, R, p[i].cmd)
        /\ \A i \in 1..(k - 1) :
              /\ p[i].conn <= p[i + 1].conn
              /\ p[i].conn = p[i + 1].conn => Link(w, R, p[i].cmd, p[i + 1].cmd)
        /\ k # 0 /\ p[k].conn = e => ~ Open(p[k].cmd) /\ Empty(R, Reaches(p[k].cmd), l)
    BY <2>2 DEF Gapless
  <2> QED BY <2>1, <2>3
<1>4. ASSUME NEW i \in 1..(a + d) PROVE q[i].conn <= e + 1 /\ Sound(w, R, q[i].cmd)
  <2>1. CASE i <= a
    BY <2>1, <1>2, <1>3
  <2>2. CASE i > a
    <3>1. i + b \in 1..(a + b + d) /\ q[i].conn = e + 1 /\ q[i].cmd = p[i + b].cmd
      BY <2>2
    <3> QED BY <3>1, <1>3
  <2> QED BY <2>1, <2>2
<1>5. ASSUME NEW i \in 1..(a + d - 1)
      PROVE  /\ q[i].conn <= q[i + 1].conn
             /\ q[i].conn = q[i + 1].conn => Link(w, R, q[i].cmd, q[i + 1].cmd)
  <2>1. CASE i < a
    <3>1. PICK y : y = i + 1
      OBVIOUS
    <3>2. i \in 1..a /\ y \in 1..a /\ i \in 1..(a + b + d - 1)
      BY <2>1, <3>1
    <3>3. q[i] = p[i] /\ q[y] = p[y]
      BY <3>2
    <3> QED BY <3>1, <3>2, <3>3, <1>3
  <2>2. CASE i = a
    <3>1. PICK y : y = i + 1
      OBVIOUS
    <3>2. q[i] = p[i] /\ q[y].conn = e + 1 /\ i \in 1..(a + b + d)
      BY <2>2, <3>1
    <3>3. PICK x \in Nat : x = p[i].conn /\ x <= e
      BY <3>2, <1>2, <1>3
    <3>4. x <= e + 1 /\ x # e + 1
      BY <3>3
    <3> QED BY <3>1, <3>2, <3>3, <3>4
  <2>3. CASE i > a
    <3>1. PICK y, z : y = i + 1 /\ z = i + b
      OBVIOUS
    <3>2. /\ i \in (a + 1)..(a + d) /\ y \in (a + 1)..(a + d) /\ y + b = z + 1
          /\ z \in (a + b + 1)..(a + b + d) /\ z + 1 \in (a + b + 1)..(a + b + d)
          /\ z \in 1..(a + b + d - 1)
      BY <2>3, <3>1
    <3>3. /\ q[i].conn = e + 1 /\ q[i].cmd = p[z].cmd /\ q[y].conn = e + 1
          /\ q[y].cmd = p[z + 1].cmd /\ p[z].conn = e /\ p[z + 1].conn = e
      BY <3>1, <3>2
    <3>4. Link(w, R, p[z].cmd, p[z + 1].cmd)
      BY <3>2, <3>3, <1>3
    <3>5. q[i].conn = q[y].conn /\ q[i].conn \in Nat
      BY <3>3
    <3>6. q[i].conn <= q[y].conn /\ Link(w, R, q[i].cmd, q[y].cmd)
      BY <3>3, <3>4, <3>5
    <3> QED BY <3>1, <3>6
  <2> QED BY <2>1, <2>2, <2>3
<1>6. ASSUME q # <<>>, q[a + d].conn = e + 1
      PROVE  ~ Open(q[a + d].cmd) /\ Empty(R, Reaches(q[a + d].cmd), l)
  <2>1. CASE d = 0
    <3>1. a # 0 /\ a + d = a /\ a \in 1..a /\ q[a] = p[a] /\ a \in 1..(a + b + d)
      BY <2>1, <1>6
    <3>2. p[a].conn <= e /\ p[a].conn \in Nat
      BY <3>1, <1>2, <1>3
    <3> QED BY <3>1, <3>2, <1>6
  <2>2. CASE d # 0
    <3>1. PICK y, z : y = a + d /\ z = a + b + d
      OBVIOUS
    <3>2. y \in (a + 1)..(a + d) /\ y + b = z /\ z \in (a + b + 1)..(a + b + d) /\ z # 0
      BY <2>2, <3>1
    <3>3. q[y].cmd = p[z].cmd /\ p[z].conn = e
      BY <3>2
    <3> QED BY <3>1, <3>2, <3>3, <1>3
  <2> QED BY <2>1, <2>2
<1> QED BY <1>4, <1>5, <1>6 DEF Gapless

(* A write changes nothing about the tokens before it.                      *)
LEMMA EmptyGrow ==
  ASSUME NEW R \in Seq(Nat), NEW x \in Nat, NEW R2, R2 = Append(R, x),
         NEW n \in Nat, NEW m \in Nat, m <= Len(R), Empty(R, n, m)
  PROVE  Empty(R2, n, m)
<1>1. \A t \in 1..Len(R) : R2[t] = R[t]
  OBVIOUS
<1>2. \A t \in (n + 1)..m : t \in 1..Len(R)
  OBVIOUS
<1> QED BY <1>1, <1>2 DEF Empty

(* ... so a command that was sound is sound, where it is in reach ...       *)
LEMMA SoundGrow ==
  ASSUME NEW w, NEW R \in Seq(Nat), NEW x \in Nat, NEW R2, R2 = Append(R, x),
         NEW cmd \in Commands, Sound(w, R, cmd)
  PROVE  Sound(w, R2, cmd)
<1>1. /\ \A t \in 1..Len(R) : R2[t] = R[t] /\ t \in 1..Len(R2)
      /\ Len(R) \in Nat /\ Len(R2) = Len(R) + 1
  OBVIOUS
<1>2. ASSUME cmd.type = "RDATA"
      PROVE  \E t \in 1..Len(R2) : \E i \in 1..R2[t] :
                cmd.row = <<w, t, i>> /\ cmd.token = IF i = R2[t] THEN t ELSE 0
  <2>1. PICK t \in 1..Len(R) : \E i \in 1..R[t] :
           cmd.row = <<w, t, i>> /\ cmd.token = IF i = R[t] THEN t ELSE 0
    BY <1>2 DEF Sound
  <2>2. R2[t] = R[t] /\ t \in 1..Len(R2)
    BY <1>1
  <2> QED BY <2>1, <2>2
<1>3. cmd.type = "POSITION" => cmd.new <= Len(R2) /\ Empty(R2, cmd.prev, cmd.new)
  <2> SUFFICES ASSUME cmd.type = "POSITION"
               PROVE  cmd.new <= Len(R2) /\ Empty(R2, cmd.prev, cmd.new)
    OBVIOUS
  <2>1. PICK m \in Nat, k \in Nat : m = cmd.new /\ k = cmd.prev
    BY CommandFields, ReplicationAssumption DEF Tokens
  <2>2. m <= Len(R) /\ Empty(R, k, m)
    BY <2>1 DEF Sound
  <2>3. Empty(R2, k, m)
    BY <2>2, EmptyGrow
  <2>4. m <= Len(R2)
    BY <2>2, <1>1
  <2> QED BY <2>1, <2>3, <2>4
<1>4. cmd.writer = w
  BY DEF Sound
<1> QED BY <1>2, <1>3, <1>4 DEF Sound

(* ... and one that followed follows.                                       *)
LEMMA FollowsGrow ==
  ASSUME NEW w, NEW R \in Seq(Nat), NEW x \in Nat, NEW R2, R2 = Append(R, x),
         NEW cmd \in Commands, Sound(w, R, cmd), NEW n \in Nat, NEW b,
         Follows(w, R, n, b, cmd)
  PROVE  Follows(w, R2, n, b, cmd)
<1>1. CASE cmd.type = "RDATA"
  <2>1. PICK t, i : t \in 1..Len(R) /\ cmd.row = <<w, t, i>>
    BY <1>1 DEF Sound
  <2>2. PICK m \in Nat : m = cmd.row[2] - 1 /\ m <= Len(R)
    BY <2>1
  <2>3. Empty(R, n, m) /\ b = {<<w, cmd.row[2], j>> : j \in 1..(cmd.row[3] - 1)}
    BY <1>1, <2>2 DEF Follows
  <2>4. Empty(R2, n, m)
    BY <2>2, <2>3, EmptyGrow
  <2> QED BY <1>1, <2>2, <2>3, <2>4 DEF Follows
<1>2. CASE cmd.type # "RDATA"
  <2>1. cmd.type = "POSITION"
    BY <1>2, CommandFields
  <2>2. cmd.new \in Nat /\ cmd.new <= Len(R) /\ Empty(R, n, cmd.new) /\ b = {}
    BY <1>2, <2>1, CommandFields, ReplicationAssumption DEF Sound, Follows, Tokens
  <2>3. Empty(R2, n, cmd.new)
    BY <2>2, EmptyGrow
  <2> QED BY <1>2, <2>2, <2>3 DEF Follows
<1> QED BY <1>1, <1>2

(* A write leaves no gap in a pipe.                                         *)
LEMMA GaplessGrow ==
  ASSUME NEW w, NEW R \in Seq(Nat), NEW x \in Nat, NEW R2, R2 = Append(R, x),
         NEW e \in Nat, NEW l \in Nat, l <= Len(R), NEW p \in Seq(Item),
         Gapless(w, R, p, e, l)
  PROVE  Gapless(w, R2, p, e, l)
<1>1. \A i \in 1..Len(p) : p[i] \in Item
  OBVIOUS
<1>2. \A i \in 1..Len(p) : p[i].conn <= e /\ Sound(w, R, p[i].cmd) /\ p[i].cmd \in Commands
  BY <1>1 DEF Gapless, Item
<1>3. \A i \in 1..Len(p) : p[i].conn <= e /\ Sound(w, R2, p[i].cmd)
  BY <1>2, SoundGrow
<1>4. ASSUME NEW i \in 1..(Len(p) - 1)
      PROVE  /\ p[i].conn <= p[i + 1].conn
             /\ p[i].conn = p[i + 1].conn => Link(w, R2, p[i].cmd, p[i + 1].cmd)
  <2>1. /\ p[i].conn <= p[i + 1].conn
        /\ p[i].conn = p[i + 1].conn => Link(w, R, p[i].cmd, p[i + 1].cmd)
    BY DEF Gapless
  <2>2. PICK j \in 1..Len(p) : j = i + 1
    OBVIOUS
  <2>3. i \in 1..Len(p)
    OBVIOUS
  <2>4. p[i].cmd \in Commands /\ p[j].cmd \in Commands /\ Sound(w, R, p[j].cmd)
    BY <2>3, <1>2
  <2>5. Link(w, R, p[i].cmd, p[j].cmd) => Link(w, R2, p[i].cmd, p[j].cmd)
    BY <2>4, ReachesNat, FollowsGrow DEF Link
  <2> QED BY <2>1, <2>2, <2>5
<1>5. ASSUME p # <<>>, p[Len(p)].conn = e
      PROVE  ~ Open(p[Len(p)].cmd) /\ Empty(R2, Reaches(p[Len(p)].cmd), l)
  <2>1. ~ Open(p[Len(p)].cmd) /\ Empty(R, Reaches(p[Len(p)].cmd), l)
    BY <1>5 DEF Gapless
  <2>2. p[Len(p)].cmd \in Commands
    BY <1>2, <1>5
  <2> QED BY <2>1, <2>2, ReachesNat, EmptyGrow
<1> QED BY <1>3, <1>4, <1>5 DEF Gapless

(* Nobody who missed nothing misses anything by a write.                    *)
LEMMA CursorGrow ==
  ASSUME NEW w, NEW R \in Seq(Nat), NEW x \in Nat, NEW R2, R2 = Append(R, x),
         NEW e \in Nat, NEW l \in Nat, l <= Len(R), NEW p \in Seq(Item),
         Gapless(w, R, p, e, l), NEW c, NEW n \in Nat, NEW b,
         Cursor(w, R, p, e, l, c, n, b)
  PROVE  Cursor(w, R2, p, e, l, c, n, b)
<1>1. CASE p = <<>>
  BY <1>1, EmptyGrow DEF Cursor
<1>2. CASE p # <<>>
  <2>1. p[1].cmd \in Commands /\ Sound(w, R, p[1].cmd)
    BY <1>2, TailCases
  <2>2. c <= p[1].conn /\ (c = p[1].conn => Follows(w, R, n, b, p[1].cmd))
    BY <1>2 DEF Cursor
  <2>3. c = p[1].conn => Follows(w, R2, n, b, p[1].cmd)
    BY <2>1, <2>2, FollowsGrow
  <2> QED BY <1>2, <2>2, <2>3 DEF Cursor
<1> QED BY <1>1, <1>2

(* What is where in a sequence p put together from S and T.                 *)
Concat(X, S, T, a, b, p) ==
    /\ p \in Seq(X) /\ a \in Nat /\ b \in Nat /\ Len(p) = a + b
    /\ \A i \in 1..a : p[i] = S[i]
    /\ \A i \in (a + 1)..(a + b) : p[i] = T[i - a]

(* The items of a concatenation, by their place.                            *)
LEMMA ConcatIndex ==
  ASSUME NEW X, NEW S \in Seq(X), NEW T \in Seq(X), NEW a, a = Len(S), NEW b, b = Len(T),
         NEW p, p = S \o T
  PROVE  Concat(X, S, T, a, b, p)
<1>1. p \in Seq(X) /\ a \in Nat /\ b \in Nat /\ Len(p) = a + b
  OBVIOUS
<1>2. \A i \in 1..a : p[i] = S[i]
  OBVIOUS
<1>3. ASSUME NEW i \in (a + 1)..(a + b) PROVE p[i] = T[i - a]
  BY <1>1
<1> QED BY <1>1, <1>2, <1>3 DEF Concat

(* A command with the connection it comes on.                               *)
LEMMA TaggedItems ==
  ASSUME NEW S \in Seq(Commands), NEW f \in Nat
  PROVE  /\ Tagged(S, f) \in Seq(Item) /\ Len(Tagged(S, f)) = Len(S)
         /\ \A i \in 1..Len(S) : Tagged(S, f)[i] = [conn |-> f, cmd |-> S[i]]
<1>1. \A i \in 1..Len(S) : [conn |-> f, cmd |-> S[i]] \in Item
  BY DEF Item
<1> QED BY <1>1 DEF Tagged

(* What is where in the pipe p: the queue Q, the commands N of connection c  *)
(* and the commands O of connection e.                                      *)
Parts(p, Q, N, O, c, e, a, b, d) ==
    /\ p \in Seq(Item) /\ Len(p) = a + b + d
    /\ a \in Nat /\ b \in Nat /\ d \in Nat
    /\ \A i \in 1..a : p[i] = Q[i]
    /\ \A i \in (a + 1)..(a + b) : p[i] = [conn |-> c, cmd |-> N[i - a]]
    /\ \A i \in (a + b + 1)..(a + b + d) : p[i] = [conn |-> e, cmd |-> O[i - (a + b)]]

(* The items of the queue, of what Redis has passed on and of the outbox,   *)
(* by their place in the pipe.                                              *)
LEMMA PipeIndex ==
  ASSUME NEW Q \in Seq(Item), NEW N \in Seq(Commands), NEW O \in Seq(Commands),
         NEW c \in Nat, NEW e \in Nat, NEW p, p = Q \o Tagged(N, c) \o Tagged(O, e),
         NEW a, a = Len(Q), NEW b, b = Len(N), NEW d, d = Len(O)
  PROVE  Parts(p, Q, N, O, c, e, a, b, d)
<1>1. PICK T, U, s : T = Tagged(N, c) /\ U = Tagged(O, e) /\ s = Q \o T /\ p = s \o U
  OBVIOUS
<1>2. /\ T \in Seq(Item) /\ Len(T) = b /\ \A i \in 1..b : T[i] = [conn |-> c, cmd |-> N[i]]
      /\ U \in Seq(Item) /\ Len(U) = d /\ \A i \in 1..d : U[i] = [conn |-> e, cmd |-> O[i]]
  BY <1>1, TaggedItems
<1>3. Concat(Item, Q, T, a, b, s)
  BY <1>1, <1>2, ConcatIndex
<1>4. PICK k \in Nat : k = a + b /\ s \in Seq(Item) /\ k = Len(s)
  BY <1>3 DEF Concat
<1>5. Concat(Item, s, U, k, d, p)
  BY <1>1, <1>2, <1>4, ConcatIndex
<1>6. /\ p \in Seq(Item) /\ Len(p) = a + b + d
      /\ a \in Nat /\ b \in Nat /\ d \in Nat
  BY <1>3, <1>4, <1>5 DEF Concat
<1>7. \A i \in 1..a : p[i] = Q[i]
  <2>1. \A i \in 1..a : i \in 1..k
    BY <1>6, <1>4
  <2> QED BY <2>1, <1>3, <1>5 DEF Concat
<1>8. \A i \in (a + 1)..(a + b) : p[i] = [conn |-> c, cmd |-> N[i - a]]
  <2>1. \A i \in (a + 1)..(a + b) : i \in 1..k /\ i - a \in 1..b
    BY <1>6, <1>4
  <2> QED BY <2>1, <1>2, <1>3, <1>5 DEF Concat
<1>9. \A i \in (a + b + 1)..(a + b + d) : p[i] = [conn |-> e, cmd |-> O[i - (a + b)]]
  <2>1. \A i \in (k + 1)..(k + d) : i - k \in 1..d
    BY <1>6, <1>4
  <2>2. \A i \in (k + 1)..(k + d) : p[i] = [conn |-> e, cmd |-> O[i - k]]
    BY <2>1, <1>2, <1>5 DEF Concat
  <2> QED BY <2>2, <1>4
<1> QED BY <1>6, <1>7, <1>8, <1>9 DEF Parts

-----------------------------------------------------------------------------
(* The invariant over the values of the variables, for a writer w alone: its *)
(* rows R, the pipe p with its last connection e and the streamer's token l, *)
(* and of the replica the connection c, the POSITION W in work, the joined   *)
(* connections J, the pending batch B, the position k, the rows S it has     *)
(* processed and the rows F it has failed to process.                        *)

Whole(w, R, S, F) ==
    \A t \in 1..Len(R) :
        \/ \A i \in 1..R[t] : <<w, t, i>> \in S \cup F
        \/ \A i \in 1..R[t] : <<w, t, i>> \notin S

(* What a POSITION in work has behind it and before it, when the rows H have *)
(* been dealt with.                                                          *)
Working(w, R, p, e, l, c, W, H) ==
    /\ W.conn <= c
    /\ Sound(w, R, W.cmd)
    /\ Covered(w, R, H, W.from)
    /\ W.at = "end" => Covered(w, R, H, W.cmd.new)
    /\ Cursor(w, R, p, e, l, W.conn, W.cmd.new, {})

(* The rows up to token n and the rows b after it are with the replica, and  *)
(* the joined connections go on from there.                                  *)
Point(w, R, p, e, l, J, B, H, n, b) ==
    /\ Covered(w, R, H \cup B, n)
    /\ b \subseteq H \cup B
    /\ \A r \in B : r \in b \/ r[2] <= n
    /\ \A d \in J : Cursor(w, R, p, e, l, d, n, b)

Consistent(w, R, p, e, l, c, W, J, B, k, S, F) ==
    /\ Gapless(w, R, p, e, l)
    /\ \A d \in J : d <= c
    /\ \E n \in Nat : \E b : Point(w, R, p, e, l, J, B, S \cup F, n, b)
    /\ W # Idle => J = {} /\ B = {} /\ Working(w, R, p, e, l, c, W, S \cup F)
    /\ Covered(w, R, S \cup F, k)
    /\ \A r \in S : r[1] = w => r[2] <= Len(R)
    /\ Whole(w, R, S, F)

(* The types of these values.                                               *)
Shape(w) ==
    /\ w \in Writers
    /\ rows[w] \in Seq(Nat) /\ str[w].last \in Nat /\ str[w].last <= Len(rows[w])
    /\ queue \in Seq(Item) /\ net \in Seq(Commands) /\ outbox[w] \in Seq(Commands)
    /\ conn \in Nat /\ EndTag \in Nat /\ conn <= EndTag
    /\ Pipe(w) \in Seq(Item)
    /\ work \in Work \cup {Idle}
    /\ joined \in SUBSET Nat /\ tok[w] \in Nat /\ seen \in SUBSET Row /\ batch \in SUBSET Row

(* A sequence over a set is one over any larger set.                        *)
LEMMA SeqWider ==
  ASSUME NEW A, NEW B, A \subseteq B, NEW q \in Seq(A)
  PROVE  q \in Seq(B)
  OBVIOUS

(* The values a state has for its only writer have their types.             *)
LEMMA Shapes ==
  ASSUME NEW w, Writers = {w}, TypeInv
  PROVE  Shape(w)
<1>1. /\ w \in Writers
      /\ rows[w] \in Seq(0..MaxBatch) /\ CurrentToken(w) = Len(rows[w])
      /\ str[w] \in Streamer /\ str[w].last <= Len(rows[w])
      /\ outbox[w] \in Seq(Commands) /\ net \in Seq(Commands)
      /\ tok[w] \in Tokens /\ conn \in 0..MaxConns /\ joined \subseteq 1..MaxConns
      /\ queue \in Seq([conn : 1..MaxConns, cmd : Commands])
      /\ work \in Work \cup {Idle} /\ seen \in SUBSET Row /\ batch \in SUBSET Row
  BY DEF TypeInv, TypeOK, FetchInv, CurrentToken
<1>2. rows[w] \in Seq(Nat) /\ str[w].last \in Nat /\ tok[w] \in Nat /\ conn \in Nat
      /\ joined \in SUBSET Nat
  <2>1. 0..MaxBatch \subseteq Nat /\ Tokens \subseteq Nat /\ 0..MaxConns \subseteq Nat
        /\ 1..MaxConns \subseteq Nat
    BY ReplicationAssumption DEF Tokens
  <2>2. rows[w] \in Seq(Nat)
    BY <1>1, <2>1, SeqWider
  <2> QED BY <1>1, <2>1, <2>2 DEF Streamer
<1>3. queue \in Seq(Item)
  <2>1. [conn : 1..MaxConns, cmd : Commands] \subseteq Item
    BY ReplicationAssumption DEF Item
  <2> QED BY <1>1, <2>1, SeqWider
<1>4. EndTag \in Nat /\ conn <= EndTag
  BY <1>2 DEF EndTag
<1>5. Pipe(w) \in Seq(Item)
  BY <1>1, <1>2, <1>3, <1>4, PipeIndex DEF Pipe, Parts
<1> QED BY <1>1, <1>2, <1>3, <1>4, <1>5 DEF Shape

(* The same in the form that holds of every state ...                       *)
LEMMA ShapesAlways == \A w : Writers = {w} /\ TypeInv => Shape(w)
  BY Shapes

(* ... and so of the state after a step.                                    *)
LEMMA ShapesNext == (\A w : Writers = {w} /\ TypeInv => Shape(w))'
  BY ShapesAlways, PTL

(* The invariant as one of values ...                                       *)
Held(w) ==
    Consistent(w, rows[w], Pipe(w), EndTag, str[w].last, conn, work, joined, batch, tok[w],
               seen, failed)

Queued == \A i \in 1..Len(queue) : queue[i].conn <= conn

(* The invariant, read as one of values.                                    *)
LEMMA HeldFrom ==
  ASSUME NEW w, Writers = {w}, ReplicaInv
  PROVE  StreamerInv(w) /\ Queued /\ Held(w)
<1>1. w \in Writers
  OBVIOUS
<1>2. /\ StreamerInv(w) /\ PipeInv(w) /\ JoinedInv(w) /\ WorkInv(w) /\ SeenInv(w)
      /\ BatchesAreWhole
  BY <1>1 DEF ReplicaInv
<1>3. Whole(w, rows[w], seen, failed)
  BY <1>1, <1>2 DEF BatchesAreWhole, Whole
<1>4. work # Idle => /\ joined = {} /\ batch = {}
                     /\ Working(w, rows[w], Pipe(w), EndTag, str[w].last, conn, work,
                                seen \cup failed)
  BY <1>2 DEF WorkInv, Working, Handled
<1>5. \E n \in Nat : \E b : Point(w, rows[w], Pipe(w), EndTag, str[w].last, joined, batch,
                                  seen \cup failed, n, b)
  <2>1. PICK n \in 0..Len(rows[w]), b \in SUBSET Taken :
           /\ Covered(w, rows[w], Taken, n)
           /\ \A r \in batch : r \in b \/ r[2] <= n
           /\ \A c \in joined : Cursor(w, rows[w], Pipe(w), EndTag, str[w].last, c, n, b)
    BY <1>2 DEF JoinedInv
  <2>2. Taken = (seen \cup failed) \cup batch
    BY DEF Taken, Handled
  <2>3. n \in Nat
    OBVIOUS
  <2>4. Point(w, rows[w], Pipe(w), EndTag, str[w].last, joined, batch, seen \cup failed, n, b)
    BY <2>1, <2>2 DEF Point
  <2> QED BY <2>3, <2>4
<1>6. \A d \in joined : d <= conn
  BY <1>2 DEF JoinedInv
<1> QED BY <1>2, <1>3, <1>4, <1>5, <1>6
        DEF PipeInv, SeenInv, Held, Consistent, Queued, Handled

(* The invariant, from what is known of the values ...                      *)
LEMMA HeldTo ==
  ASSUME NEW w, Writers = {w}, TypeInv, StreamerInv(w), Queued, Held(w)
  PROVE  ReplicaInv
<1>1. PipeInv(w) /\ SeenInv(w)
  BY DEF PipeInv, SeenInv, Held, Consistent, Queued, Handled
<1>2. WorkInv(w)
  BY DEF WorkInv, Working, Held, Consistent, Handled
<1>3. BatchesAreWhole
  BY DEF BatchesAreWhole, Whole, Held, Consistent
<1>4. JoinedInv(w)
  <2>1. PICK n \in Nat : \E b : Point(w, rows[w], Pipe(w), EndTag, str[w].last, joined, batch,
                                      seen \cup failed, n, b)
    BY DEF Held, Consistent
  <2>2. PICK b : Point(w, rows[w], Pipe(w), EndTag, str[w].last, joined, batch,
                       seen \cup failed, n, b)
    BY <2>1
  <2>3. Taken = (seen \cup failed) \cup batch
    BY DEF Taken, Handled
  <2>4. /\ Covered(w, rows[w], Taken, n) /\ b \in SUBSET Taken
        /\ \A r \in batch : r \in b \/ r[2] <= n
        /\ \A c \in joined : Cursor(w, rows[w], Pipe(w), EndTag, str[w].last, c, n, b)
    BY <2>2, <2>3 DEF Point
  <2>5. n \in 0..Len(rows[w])
    <3>1. Len(rows[w]) \in Nat
      BY Shapes DEF Shape
    <3> QED BY <2>4, <3>1 DEF Covered
  <2>6. \A d \in joined : d <= conn
    BY DEF Held, Consistent
  <2> QED BY <2>4, <2>5, <2>6 DEF JoinedInv
<1> QED BY <1>1, <1>2, <1>3, <1>4 DEF ReplicaInv, TypeInv

(* ... in every state ...                                                   *)
LEMMA HeldToAlways ==
  \A w : Writers = {w} /\ TypeInv /\ StreamerInv(w) /\ Queued /\ Held(w) => ReplicaInv
  BY HeldTo

(* ... and so after a step.                                                 *)
LEMMA HeldToNext ==
  (\A w : Writers = {w} /\ TypeInv /\ StreamerInv(w) /\ Queued /\ Held(w) => ReplicaInv)'
  BY HeldToAlways, PTL

(* ... before a step ...                                                    *)
LEMMA Before ==
  ASSUME NEW w, Writers = {w}, TypeInv, ReplicaInv
  PROVE  /\ StreamerInv(w) /\ Queued /\ Shape(w)
         /\ Consistent(w, rows[w], Pipe(w), EndTag, str[w].last, conn, work, joined, batch,
                       tok[w], seen, failed)
  BY HeldFrom, Shapes DEF Held

(* ... and after it.                                                        *)
LEMMA After ==
  ASSUME NEW w, Writers = {w}, TypeInv', StreamerInv(w)', Queued',
         Consistent(w, rows'[w], Pipe(w)', EndTag', str'[w].last, conn', work', joined', batch',
                    tok'[w], seen', failed')
  PROVE  ReplicaInv'
<1>1. Held(w)'
  BY DEF Held
<1> QED BY <1>1, HeldToNext

-----------------------------------------------------------------------------
(* The steps on these values.                                               *)

(* What a POSITION that is being processed consists of.                     *)
LEMMA WorkFields ==
  ASSUME NEW W \in Work
  PROVE  /\ W.conn \in Nat /\ W.cmd \in Commands /\ W.cmd \in Position
         /\ W.cmd.new \in Nat /\ W.cmd.prev \in Nat /\ W.from \in Nat
         /\ W.cmd.type = "POSITION" /\ W.at \in {"fetch", "end"}
  BY ReplicationAssumption DEF Work, Commands, Position, Tokens

(* Who has the same command to go on with has it still.                     *)
LEMMA CursorSameHead ==
  ASSUME NEW w, NEW R, NEW e, NEW l, NEW f, NEW m, NEW p, NEW q, p # <<>>, q # <<>>, q[1] = p[1],
         NEW c, NEW n, NEW b, Cursor(w, R, p, e, l, c, n, b)
  PROVE  Cursor(w, R, q, f, m, c, n, b)
  BY DEF Cursor

(* Who has more rows than a command needs may go on with it too.            *)
LEMMA CursorLater ==
  ASSUME NEW w, NEW R, NEW e \in Nat, NEW l \in Nat, NEW p \in Seq(Item), NEW c,
         NEW m \in Nat, NEW n \in Nat, m <= n, NEW b, Cursor(w, R, p, e, l, c, m, b)
  PROVE  Cursor(w, R, p, e, l, c, n, b)
<1>1. CASE p = <<>>
  <2>1. Empty(R, m, l) => Empty(R, n, l)
    BY DEF Empty
  <2> QED BY <1>1, <2>1 DEF Cursor
<1>2. CASE p # <<>>
  <2>1. p[1] \in Item
    BY <1>2
  <2>2. p[1].cmd \in Commands
    BY <2>1 DEF Item
  <2>3. c <= p[1].conn /\ (c = p[1].conn => Follows(w, R, m, b, p[1].cmd))
    BY <1>2 DEF Cursor
  <2>4. c = p[1].conn => Follows(w, R, n, b, p[1].cmd)
    BY <2>2, <2>3, FollowsAfter
  <2> QED BY <1>2, <2>3, <2>4 DEF Cursor
<1> QED BY <1>1, <1>2

(* Whoever reads pipe p, up to connection c, may go on with pipe q.         *)
Keeps(w, R, p, e, l, q, f, m, c) ==
    \A d \in Nat, n \in Nat : \A b :
        d <= c /\ Cursor(w, R, p, e, l, d, n, b) => Cursor(w, R, q, f, m, d, n, b)

(* A pipe that leaves everybody who reads it where they are.                *)
LEMMA PipeStep ==
  ASSUME NEW w, NEW R, NEW p, NEW e, NEW l, NEW q, NEW f, NEW m, NEW c \in Nat, NEW c2 \in Nat,
         c <= c2, NEW W \in Work \cup {Idle}, NEW J \in SUBSET Nat, NEW J2 \in SUBSET J, NEW B,
         NEW k \in Nat, NEW S, NEW F,
         Consistent(w, R, p, e, l, c, W, J, B, k, S, F),
         Gapless(w, R, q, f, m),
         Keeps(w, R, p, e, l, q, f, m, c)
  PROVE  Consistent(w, R, q, f, m, c2, W, J2, B, k, S, F)
<1>1. \A d \in J : d \in Nat /\ d <= c
  BY DEF Consistent
<1>2. \A d \in J2 : d <= c2
  BY <1>1
<1>3. \E n \in Nat : \E b : Point(w, R, q, f, m, J2, B, S \cup F, n, b)
  <2>1. PICK n \in Nat : \E b : Point(w, R, p, e, l, J, B, S \cup F, n, b)
    BY DEF Consistent
  <2>2. PICK b : Point(w, R, p, e, l, J, B, S \cup F, n, b)
    BY <2>1
  <2>3. \A d \in J2 : Cursor(w, R, q, f, m, d, n, b)
    BY <1>1, <2>2 DEF Point, Keeps
  <2>4. Point(w, R, q, f, m, J2, B, S \cup F, n, b)
    BY <2>2, <2>3 DEF Point
  <2> QED BY <2>4
<1>4. W # Idle => J2 = {} /\ B = {} /\ Working(w, R, q, f, m, c2, W, S \cup F)
  <2> SUFFICES ASSUME W # Idle
               PROVE  J2 = {} /\ B = {} /\ Working(w, R, q, f, m, c2, W, S \cup F)
    OBVIOUS
  <2>1. J = {} /\ B = {} /\ Working(w, R, p, e, l, c, W, S \cup F)
    BY DEF Consistent
  <2>2. W.conn \in Nat /\ W.cmd.new \in Nat
    BY WorkFields
  <2>3. W.conn <= c2 /\ Cursor(w, R, q, f, m, W.conn, W.cmd.new, {})
    BY <2>1, <2>2 DEF Working, Keeps
  <2> QED BY <2>1, <2>3 DEF Working
<1> QED BY <1>2, <1>3, <1>4 DEF Consistent


(* A new token without a processed row.                                     *)
LEMMA GrowStep ==
  ASSUME NEW w, NEW R \in Seq(Nat), NEW x \in Nat, NEW R2, R2 = Append(R, x),
         NEW p \in Seq(Item), NEW e \in Nat, NEW l \in Nat, l <= Len(R), NEW c \in Nat,
         NEW W \in Work \cup {Idle}, NEW J \in SUBSET Nat, NEW B, NEW k \in Nat,
         NEW S \in SUBSET Row, NEW F,
         Consistent(w, R, p, e, l, c, W, J, B, k, S, F)
  PROVE  Consistent(w, R2, p, e, l, c, W, J, B, k, S, F)
<1>1. /\ \A t \in 1..Len(R) : R2[t] = R[t]
      /\ Len(R) \in Nat /\ Len(R2) = Len(R) + 1
  OBVIOUS
<1>2. Gapless(w, R, p, e, l)
  BY DEF Consistent
<1>3. Gapless(w, R2, p, e, l)
  BY <1>2, GaplessGrow
<1>4. ASSUME NEW d, NEW n \in Nat, NEW b, Cursor(w, R, p, e, l, d, n, b)
      PROVE  Cursor(w, R2, p, e, l, d, n, b)
  BY <1>2, <1>4, CursorGrow
<1>5. ASSUME NEW n \in Nat, NEW H, Covered(w, R, H, n)
      PROVE  Covered(w, R2, H, n)
  <2>1. n <= Len(R)
    BY <1>5 DEF Covered
  <2>2. n <= Len(R2) /\ \A t \in 1..n : R2[t] = R[t]
    BY <2>1, <1>1
  <2> QED BY <2>2, <1>5 DEF Covered
<1>6. W # Idle => J = {} /\ B = {} /\ Working(w, R2, p, e, l, c, W, S \cup F)
  <2> SUFFICES ASSUME W # Idle
               PROVE  J = {} /\ B = {} /\ Working(w, R2, p, e, l, c, W, S \cup F)
    OBVIOUS
  <2>1. J = {} /\ B = {} /\ Working(w, R, p, e, l, c, W, S \cup F)
    BY DEF Consistent
  <2>2. W.cmd \in Commands /\ W.cmd.new \in Nat /\ W.from \in Nat
    BY WorkFields
  <2>3. Sound(w, R2, W.cmd)
    BY <2>1, <2>2, SoundGrow DEF Working
  <2> QED BY <2>1, <2>2, <2>3, <1>4, <1>5 DEF Working
<1>7. \A r \in S : r[1] = w => r[2] <= Len(R)
  BY DEF Consistent
<1>8. Whole(w, R2, S, F)
  <2> SUFFICES ASSUME NEW t \in 1..Len(R2)
               PROVE  \/ \A i \in 1..R2[t] : <<w, t, i>> \in S \cup F
                      \/ \A i \in 1..R2[t] : <<w, t, i>> \notin S
    BY DEF Whole
  <2>1. CASE t \in 1..Len(R)
    BY <2>1, <1>1 DEF Consistent, Whole
  <2>2. CASE t \notin 1..Len(R)
    <3>1. t \in Nat /\ ~ (t <= Len(R))
      BY <2>2, <1>1
    <3>2. ASSUME NEW i, <<w, t, i>> \in S PROVE FALSE
      <4>1. PICK r : r = <<w, t, i>>
        OBVIOUS
      <4>2. r \in S /\ r[1] = w /\ r[2] = t
        BY <4>1, <3>2
      <4> QED BY <4>2, <3>1, <1>7
    <3> QED BY <3>2
  <2> QED BY <2>1, <2>2
<1>9. \A r \in S : r[1] = w => r[2] <= Len(R2)
  <2> SUFFICES ASSUME NEW r \in S, r[1] = w PROVE r[2] <= Len(R2)
    OBVIOUS
  <2>1. r[2] <= Len(R) /\ r[2] \in Nat
    BY <1>7, ReplicationAssumption DEF Row
  <2> QED BY <2>1, <1>1
<1>10. Covered(w, R2, S \cup F, k) /\ \A d \in J : d <= c
  BY <1>5 DEF Consistent
<1>11. \E n \in Nat : \E b : Point(w, R2, p, e, l, J, B, S \cup F, n, b)
  <2>1. PICK n \in Nat : \E b : Point(w, R, p, e, l, J, B, S \cup F, n, b)
    BY DEF Consistent
  <2>2. PICK b : Point(w, R, p, e, l, J, B, S \cup F, n, b)
    BY <2>1
  <2>3. Covered(w, R2, (S \cup F) \cup B, n)
    BY <2>2, <1>5 DEF Point
  <2>4. \A d \in J : Cursor(w, R2, p, e, l, d, n, b)
    BY <2>2, <1>4 DEF Point
  <2>5. Point(w, R2, p, e, l, J, B, S \cup F, n, b)
    BY <2>2, <2>3, <2>4 DEF Point
  <2> QED BY <2>5
<1> QED BY <1>3, <1>6, <1>8, <1>9, <1>10, <1>11 DEF Consistent

(* Rows that are all done are so up to an earlier token, and stay so.       *)
LEMMA CoveredLess ==
  ASSUME NEW w, NEW R \in Seq(Nat), NEW H, NEW G, H \subseteq G, NEW n \in Nat, NEW m \in Nat,
         m <= n, Covered(w, R, H, n)
  PROVE  Covered(w, R, G, m)
<1>1. Len(R) \in Nat /\ n <= Len(R)
  BY DEF Covered
<1>2. m <= Len(R) /\ \A t \in 1..m : t \in 1..n
  BY <1>1
<1> QED BY <1>2 DEF Covered

(* Nobody has the stream, and nothing is pending.                           *)
LEMMA NoPoint ==
  ASSUME NEW w, NEW R \in Seq(Nat), NEW p, NEW e, NEW l, NEW H
  PROVE  \E n \in Nat : \E b : Point(w, R, p, e, l, {}, {}, H, n, b)
<1>1. Covered(w, R, H \cup {}, 0)
  BY DEF Covered
<1>2. Point(w, R, p, e, l, {}, {}, H, 0, {})
  BY <1>1 DEF Point
<1> QED BY <1>2

(* Where the joined connections go on when the head of the pipe is gone.     *)
LEMMA TailCursors ==
  ASSUME NEW w, NEW R, NEW p \in Seq(Item), p # <<>>, NEW e \in Nat, NEW l \in Nat,
         NEW J \in SUBSET Nat, NEW B, NEW H, NEW n \in Nat, NEW b, NEW m, NEW b2,
         Gapless(w, R, p, e, l), Point(w, R, p, e, l, J, B, H, n, b),
         p[1].conn \in J => Cursor(w, R, Tail(p), e, l, p[1].conn, m, b2)
  PROVE  \A d \in J : Cursor(w, R, Tail(p), e, l, d, m, b2)
<1> SUFFICES ASSUME NEW d \in J PROVE Cursor(w, R, Tail(p), e, l, d, m, b2)
  OBVIOUS
<1>1. d \in Nat /\ d <= p[1].conn
  BY DEF Point, Cursor
<1>2. PICK h \in Nat : h = p[1].conn
  BY TailCases
<1>3. CASE d < h
  <2>1. d < p[1].conn
    BY <1>2, <1>3
  <2> QED BY <2>1, CursorPast
<1>4. CASE d = h
  BY <1>2, <1>4
<1>5. d < h \/ d = h
  BY <1>1, <1>2
<1> QED BY <1>3, <1>4, <1>5

(* An RDATA of a connection that does not have the stream.                  *)
LEMMA IgnoreStep ==
  ASSUME NEW w, NEW R, NEW p \in Seq(Item), p # <<>>, NEW e \in Nat, NEW l \in Nat, NEW c,
         NEW J \in SUBSET Nat, NEW B, NEW k \in Nat, NEW S, NEW F,
         Consistent(w, R, p, e, l, c, Idle, J, B, k, S, F), p[1].conn \notin J
  PROVE  Consistent(w, R, Tail(p), e, l, c, Idle, J, B, k, S, F)
<1>1. Gapless(w, R, p, e, l)
  BY DEF Consistent
<1>2. Gapless(w, R, Tail(p), e, l)
  BY <1>1, GaplessTail
<1>3. PICK n \in Nat : \E b : Point(w, R, p, e, l, J, B, S \cup F, n, b)
  BY DEF Consistent
<1>4. PICK b : Point(w, R, p, e, l, J, B, S \cup F, n, b)
  BY <1>3
<1>5. \A d \in J : Cursor(w, R, Tail(p), e, l, d, n, b)
  BY <1>1, <1>4, TailCursors
<1>6. Point(w, R, Tail(p), e, l, J, B, S \cup F, n, b)
  BY <1>4, <1>5 DEF Point
<1> QED BY <1>2, <1>6 DEF Consistent

(* A row of a batch that is still open is taken, into the batch or not.      *)
LEMMA OpenPoint ==
  ASSUME NEW w, NEW R, NEW p \in Seq(Item), p # <<>>, NEW e \in Nat, NEW l \in Nat,
         NEW J \in SUBSET Nat, NEW B, NEW H, NEW n \in Nat, NEW b,
         Gapless(w, R, p, e, l), Point(w, R, p, e, l, J, B, H, n, b),
         p[1].conn \in J, Open(p[1].cmd), NEW x, x = p[1].cmd.row,
         NEW B2, NEW H2, H \subseteq H2, B \subseteq B2, B2 \subseteq B \cup {x},
         x \in H2 \cup B2
  PROVE  Point(w, R, Tail(p), e, l, J, B2, H2, n, b \cup {x})
<1>1. Follows(w, R, n, b, p[1].cmd)
  BY DEF Point, Cursor
<1>2. Cursor(w, R, Tail(p), e, l, p[1].conn, n, b \cup {x})
  BY <1>1, CursorOpen
<1>3. \A d \in J : Cursor(w, R, Tail(p), e, l, d, n, b \cup {x})
  BY <1>2, TailCursors
<1>4. Covered(w, R, H2 \cup B2, n)
  BY DEF Point, Covered
<1>5. b \cup {x} \subseteq H2 \cup B2
  BY DEF Point
<1>6. \A r \in B2 : r \in b \cup {x} \/ r[2] <= n
  BY DEF Point
<1> QED BY <1>3, <1>4, <1>5, <1>6 DEF Point

(* An RDATA without a token, on a connection that has the stream.           *)
LEMMA OpenStep ==
  ASSUME NEW w, NEW R, NEW p \in Seq(Item), p # <<>>, NEW e \in Nat, NEW l \in Nat, NEW c,
         NEW J \in SUBSET Nat, NEW B, NEW k \in Nat, NEW S, NEW F,
         Consistent(w, R, p, e, l, c, Idle, J, B, k, S, F), p[1].conn \in J, Open(p[1].cmd)
  PROVE  /\ Consistent(w, R, Tail(p), e, l, c, Idle, J, B \cup {p[1].cmd.row}, k, S, F)
         /\ Consistent(w, R, Tail(p), e, l, c, Idle, J, B, k, S, F \cup {p[1].cmd.row})
<1>1. Gapless(w, R, p, e, l)
  BY DEF Consistent
<1>2. Gapless(w, R, Tail(p), e, l)
  BY <1>1, GaplessTail
<1>3. PICK n \in Nat : \E b : Point(w, R, p, e, l, J, B, S \cup F, n, b)
  BY DEF Consistent
<1>4. PICK b : Point(w, R, p, e, l, J, B, S \cup F, n, b)
  BY <1>3
<1>5. PICK x : x = p[1].cmd.row
  OBVIOUS
<1>6. Consistent(w, R, Tail(p), e, l, c, Idle, J, B \cup {x}, k, S, F)
  <2>1. Point(w, R, Tail(p), e, l, J, B \cup {x}, S \cup F, n, b \cup {x})
    BY <1>1, <1>4, <1>5, OpenPoint
  <2> QED BY <2>1, <1>2 DEF Consistent
<1>7. Consistent(w, R, Tail(p), e, l, c, Idle, J, B, k, S, F \cup {x})
  <2>1. PICK F2 : F2 = F \cup {x}
    OBVIOUS
  <2>2. Point(w, R, Tail(p), e, l, J, B, S \cup F2, n, b \cup {x})
    <3>1. S \cup F \subseteq S \cup F2 /\ x \in (S \cup F2) \cup B
      BY <2>1
    <3> QED BY <3>1, <1>1, <1>4, <1>5, OpenPoint
  <2>3. Covered(w, R, S \cup F2, k) /\ Whole(w, R, S, F2)
    BY <2>1 DEF Consistent, Covered, Whole
  <2>4. Consistent(w, R, Tail(p), e, l, c, Idle, J, B, k, S, F2)
    BY <2>2, <2>3, <1>2 DEF Consistent
  <2> QED BY <2>1, <2>4
<1> QED BY <1>5, <1>6, <1>7

(* An RDATA with a token of rows that the replica has.                      *)
LEMMA OldStep ==
  ASSUME NEW w, NEW R, NEW p \in Seq(Item), p # <<>>, NEW e \in Nat, NEW l \in Nat, NEW c,
         NEW J \in SUBSET Nat, NEW B, NEW k \in Nat, NEW S, NEW F,
         Consistent(w, R, p, e, l, c, Idle, J, B, k, S, F), ~ Open(p[1].cmd),
         Reaches(p[1].cmd) <= k
  PROVE  Consistent(w, R, Tail(p), e, l, c, Idle, J, {}, k, S, F)
<1>1. Gapless(w, R, p, e, l)
  BY DEF Consistent
<1>2. Gapless(w, R, Tail(p), e, l)
  BY <1>1, GaplessTail
<1>3. PICK n \in Nat : \E b : Point(w, R, p, e, l, J, B, S \cup F, n, b)
  BY DEF Consistent
<1>4. PICK b : Point(w, R, p, e, l, J, B, S \cup F, n, b)
  BY <1>3
<1>5. Cursor(w, R, Tail(p), e, l, p[1].conn, k, {})
  BY <1>1, CursorNext
<1>6. \A d \in J : Cursor(w, R, Tail(p), e, l, d, k, {})
  BY <1>1, <1>4, <1>5, TailCursors
<1>7. Covered(w, R, (S \cup F) \cup {}, k)
  BY DEF Consistent, Covered
<1>8. Point(w, R, Tail(p), e, l, J, {}, S \cup F, k, {})
  BY <1>6, <1>7 DEF Point
<1> QED BY <1>2, <1>8 DEF Consistent

(* An RDATA with token t.                                                   *)
Completes(cmd, t) == cmd.type = "RDATA" /\ cmd.token = t

(* The head of the pipe is the RDATA that closes the batch with token t; and *)
(* what then holds of the rest of the pipe and of the rows G taken by then.  *)
Closing(w, R, p, e, l, J, B, H, n, b, t) ==
    /\ R \in Seq(Nat) /\ p \in Seq(Item) /\ p # <<>> /\ e \in Nat /\ l \in Nat
    /\ J \in SUBSET Nat /\ B \in SUBSET Row /\ n \in Nat /\ t \in Nat /\ t # 0
    /\ Gapless(w, R, p, e, l) /\ Point(w, R, p, e, l, J, B, H, n, b)
    /\ p[1].conn \in J /\ Completes(p[1].cmd, t)

Closed(w, R, p, e, l, J, B, G, t, m) ==
    /\ m \in Nat /\ t <= m
    /\ Covered(w, R, G, m)
    /\ \A r \in B \cup {p[1].cmd.row} : r[2] \in Nat /\ r[2] <= m
    /\ \A d \in J : Cursor(w, R, Tail(p), e, l, d, m, {})

(* An RDATA with a token completes the rows of the token: with it all rows  *)
(* up to the token, or to a later one, have been taken.                     *)
LEMMA ClosePoint ==
  ASSUME NEW w, NEW R, NEW p, NEW e, NEW l, NEW J, NEW B, NEW H, NEW n, NEW b, NEW t,
         Closing(w, R, p, e, l, J, B, H, n, b, t),
         NEW m, m = Larger(n, t), NEW G, G = (H \cup B) \cup {p[1].cmd.row}
  PROVE  Closed(w, R, p, e, l, J, B, G, t, m)
<1> SUFFICES ASSUME R \in Seq(Nat), p \in Seq(Item), p # <<>>, e \in Nat, l \in Nat,
                    J \in SUBSET Nat, B \in SUBSET Row, n \in Nat, t \in Nat, t # 0,
                    Gapless(w, R, p, e, l), Point(w, R, p, e, l, J, B, H, n, b),
                    p[1].conn \in J, Completes(p[1].cmd, t)
             PROVE  /\ m \in Nat /\ t <= m
                    /\ Covered(w, R, G, m)
                    /\ \A r \in B \cup {p[1].cmd.row} : r[2] \in Nat /\ r[2] <= m
                    /\ \A d \in J : Cursor(w, R, Tail(p), e, l, d, m, {})
  BY DEF Closing, Closed
<1>1. PICK cmd : cmd = p[1].cmd /\ cmd.type = "RDATA" /\ cmd.token = t
  BY DEF Completes
<1>2. Sound(w, R, cmd) /\ Follows(w, R, n, b, cmd)
  <2>1. Sound(w, R, cmd)
    BY <1>1, TailCases
  <2>2. Follows(w, R, n, b, cmd)
    BY <1>1 DEF Point, Cursor
  <2> QED BY <2>1, <2>2
<1>3. PICK u \in 1..Len(R) : \E i \in 1..R[u] :
         cmd.row = <<w, u, i>> /\ cmd.token = IF i = R[u] THEN u ELSE 0
  BY <1>1, <1>2 DEF Sound
<1>4. /\ u = t /\ cmd.row = <<w, t, R[t]>> /\ t \in 1..Len(R)
      /\ R[t] \in Nat \ {0} /\ Len(R) \in Nat
  BY <1>1, <1>3
<1>5. m \in Nat /\ t <= m /\ n <= m /\ (m = n \/ m = t)
  BY DEF Larger
<1>6. b = {<<w, t, i>> : i \in 1..(R[t] - 1)} /\ \A v \in (n + 1)..(t - 1) : R[v] = 0
  BY <1>1, <1>2, <1>4 DEF Follows, Empty
<1>7. \A i \in 1..R[t] : <<w, t, i>> \in G
  <2>1. ASSUME NEW i \in 1..R[t] PROVE <<w, t, i>> \in G
    <3>1. CASE i = R[t]
      BY <3>1, <1>1, <1>4
    <3>2. CASE i # R[t]
      <4>1. i \in 1..(R[t] - 1)
        BY <3>2, <1>4
      <4>2. <<w, t, i>> \in b
        BY <4>1, <1>6
      <4> QED BY <4>2 DEF Point
    <3> QED BY <3>1, <3>2
  <2> QED BY <2>1
<1>8. Covered(w, R, H \cup B, n)
  BY DEF Point
<1>9. Covered(w, R, G, m)
  <2>1. ASSUME NEW v \in 1..m, NEW i \in 1..R[v] PROVE <<w, v, i>> \in G
    <3>1. CASE v \in 1..n
      BY <3>1, <1>8 DEF Covered
    <3>2. CASE v \in (n + 1)..(t - 1)
      <4>1. R[v] = 0
        BY <3>2, <1>6
      <4> QED BY <4>1
    <3>3. CASE v = t
      BY <3>3, <1>7
    <3>4. v \in 1..n \/ v \in (n + 1)..(t - 1) \/ v = t
      BY <1>5
    <3> QED BY <3>1, <3>2, <3>3, <3>4
  <2>2. m <= Len(R)
    BY <1>4, <1>5, <1>8 DEF Covered
  <2> QED BY <2>1, <2>2 DEF Covered
<1>10. \A r \in B \cup {p[1].cmd.row} : r[2] \in Nat /\ r[2] <= m
  <2>1. ASSUME NEW r \in B PROVE r[2] \in Nat /\ r[2] <= m
    <3>1. r[2] \in Nat
      BY ReplicationAssumption DEF Row
    <3>2. CASE r \in b
      BY <3>2, <1>5, <1>6
    <3>3. CASE r[2] <= n
      BY <3>1, <3>3, <1>5
    <3> QED BY <3>1, <3>2, <3>3 DEF Point
  <2>2. cmd.row[2] = t
    BY <1>4
  <2> QED BY <2>1, <2>2, <1>1, <1>5
<1>11. \A d \in J : Cursor(w, R, Tail(p), e, l, d, m, {})
  <2>1. ~ Open(p[1].cmd) /\ Reaches(p[1].cmd) <= m
    BY <1>1, <1>5 DEF Open, Reaches
  <2>2. Cursor(w, R, Tail(p), e, l, p[1].conn, m, {})
    BY <2>1, <1>5, CursorNext
  <2> QED BY <2>2, TailCursors
<1> QED BY <1>5, <1>9, <1>10, <1>11

(* An RDATA with a token that is new: the rows of its batch are processed.   *)
LEMMA RdataStep ==
  ASSUME NEW w, NEW R \in Seq(Nat), NEW p \in Seq(Item), p # <<>>, NEW e \in Nat, NEW l \in Nat,
         NEW c, NEW J \in SUBSET Nat, NEW B \in SUBSET Row, NEW k \in Nat, NEW S, NEW F,
         Consistent(w, R, p, e, l, c, Idle, J, B, k, S, F), p[1].conn \in J,
         NEW t \in Nat, Completes(p[1].cmd, t), k < t
  PROVE  Consistent(w, R, Tail(p), e, l, c, Idle, J, {}, t, S \cup (B \cup {p[1].cmd.row}), F)
<1>1. Gapless(w, R, p, e, l) /\ Gapless(w, R, Tail(p), e, l)
  BY GaplessTail DEF Consistent
<1>2. PICK n \in Nat : \E b : Point(w, R, p, e, l, J, B, S \cup F, n, b)
  BY DEF Consistent
<1>3. PICK b : Point(w, R, p, e, l, J, B, S \cup F, n, b)
  BY <1>2
<1>4. PICK H, T, S2, m, G : /\ H = S \cup F
                            /\ T = B \cup {p[1].cmd.row} /\ S2 = S \cup T /\ m = Larger(n, t)
                            /\ G = (H \cup B) \cup {p[1].cmd.row}
  OBVIOUS
<1>5. /\ m \in Nat /\ t <= m
      /\ Covered(w, R, G, m)
      /\ \A r \in T : r[2] \in Nat /\ r[2] <= m
      /\ \A d \in J : Cursor(w, R, Tail(p), e, l, d, m, {})
  <2>1. t # 0 /\ m = Larger(n, t) /\ G = (H \cup B) \cup {p[1].cmd.row}
    BY <1>4
  <2>2. Point(w, R, p, e, l, J, B, H, n, b)
    BY <1>3, <1>4
  <2>3. /\ m \in Nat /\ t <= m
        /\ Covered(w, R, G, m)
        /\ \A r \in B \cup {p[1].cmd.row} : r[2] \in Nat /\ r[2] <= m
        /\ \A d \in J : Cursor(w, R, Tail(p), e, l, d, m, {})
    <3>1. Closing(w, R, p, e, l, J, B, H, n, b, t)
      BY <2>1, <2>2, <1>1 DEF Closing
    <3>2. Closed(w, R, p, e, l, J, B, G, t, m)
      BY <3>1, <2>1, ClosePoint
    <3> QED BY <3>2 DEF Closed
  <2> QED BY <2>3, <1>4
<1>6. G = S2 \cup F /\ G = (S2 \cup F) \cup {}
  BY <1>4
<1>7. Point(w, R, Tail(p), e, l, J, {}, S2 \cup F, m, {})
  BY <1>5, <1>6 DEF Point
<1>8. Covered(w, R, S2 \cup F, t)
  BY <1>5, <1>6, CoveredLess
<1>9. m <= Len(R) /\ Len(R) \in Nat
  BY <1>5 DEF Covered
<1>10. \A r \in S2 : r[1] = w => r[2] <= Len(R)
  <2>1. \A r \in T : r[2] <= Len(R)
    BY <1>5, <1>9
  <2>2. \A r \in S : r[1] = w => r[2] <= Len(R)
    BY DEF Consistent
  <2> QED BY <2>1, <2>2, <1>4
<1>11. Whole(w, R, S2, F)
  <2> SUFFICES ASSUME NEW v \in 1..Len(R)
               PROVE  \/ \A i \in 1..R[v] : <<w, v, i>> \in S2 \cup F
                      \/ \A i \in 1..R[v] : <<w, v, i>> \notin S2
    BY DEF Whole
  <2>1. CASE v <= m
    <3>1. v \in 1..m
      BY <2>1, <1>5, <1>9
    <3> QED BY <3>1, <1>5, <1>6 DEF Covered
  <2>2. CASE ~ (v <= m)
    <3>1. ASSUME NEW i, <<w, v, i>> \in T PROVE FALSE
      <4>1. PICK r : r = <<w, v, i>>
        OBVIOUS
      <4>2. r \in T /\ r[2] = v
        BY <4>1, <3>1
      <4> QED BY <4>2, <2>2, <1>5
    <3>2. \/ \A i \in 1..R[v] : <<w, v, i>> \in S \cup F
          \/ \A i \in 1..R[v] : <<w, v, i>> \notin S
      BY DEF Consistent, Whole
    <3> QED BY <3>1, <3>2, <1>4
  <2> QED BY <2>1, <2>2
<1>12. Consistent(w, R, Tail(p), e, l, c, Idle, J, {}, t, S2, F)
  <2>1. \E q \in Nat : \E b2 : Point(w, R, Tail(p), e, l, J, {}, S2 \cup F, q, b2)
    BY <1>5, <1>7
  <2>2. \A d \in J : d <= c
    BY DEF Consistent
  <2> QED BY <2>1, <2>2, <1>1, <1>8, <1>10, <1>11 DEF Consistent
<1> QED BY <1>4, <1>12

(* An RDATA with a token fails: its row could not be parsed, or on_rdata has *)
(* raised, and the batch is gone.                                           *)
LEMMA CloseFailStep ==
  ASSUME NEW w, NEW R \in Seq(Nat), NEW p \in Seq(Item), p # <<>>, NEW e \in Nat, NEW l \in Nat,
         NEW c, NEW J \in SUBSET Nat, NEW B \in SUBSET Row, NEW k \in Nat, NEW S, NEW F,
         Consistent(w, R, p, e, l, c, Idle, J, B, k, S, F), p[1].conn \in J,
         NEW t \in Nat, t # 0, Completes(p[1].cmd, t)
  PROVE  /\ Consistent(w, R, Tail(p), e, l, c, Idle, J, B, k, S, F \cup {p[1].cmd.row})
         /\ Consistent(w, R, Tail(p), e, l, c, Idle, J, {}, k, S, F \cup (B \cup {p[1].cmd.row}))
<1>1. Gapless(w, R, p, e, l) /\ Gapless(w, R, Tail(p), e, l)
  BY GaplessTail DEF Consistent
<1>2. PICK n \in Nat : \E b : Point(w, R, p, e, l, J, B, S \cup F, n, b)
  BY DEF Consistent
<1>3. PICK b : Point(w, R, p, e, l, J, B, S \cup F, n, b)
  BY <1>2
<1>4. PICK H, x, m, G : /\ H = S \cup F /\ x = p[1].cmd.row /\ m = Larger(n, t)
                        /\ G = (H \cup B) \cup {x}
  OBVIOUS
<1>5. /\ m \in Nat /\ t <= m
      /\ Covered(w, R, G, m)
      /\ \A r \in B \cup {x} : r[2] \in Nat /\ r[2] <= m
      /\ \A d \in J : Cursor(w, R, Tail(p), e, l, d, m, {})
  <2>1. m = Larger(n, t) /\ G = (H \cup B) \cup {p[1].cmd.row}
    BY <1>4
  <2>2. Point(w, R, p, e, l, J, B, H, n, b)
    BY <1>3, <1>4
  <2>3. /\ m \in Nat /\ t <= m
        /\ Covered(w, R, G, m)
        /\ \A r \in B \cup {p[1].cmd.row} : r[2] \in Nat /\ r[2] <= m
        /\ \A d \in J : Cursor(w, R, Tail(p), e, l, d, m, {})
    <3>1. Closing(w, R, p, e, l, J, B, H, n, b, t)
      BY <2>1, <2>2, <1>1 DEF Closing
    <3>2. Closed(w, R, p, e, l, J, B, G, t, m)
      BY <3>1, <2>1, ClosePoint
    <3> QED BY <3>2 DEF Closed
  <2> QED BY <2>3, <1>4
<1>6. ASSUME NEW F2, F \subseteq F2, NEW B2, B2 \subseteq B, (S \cup F2) \cup B2 = G
      PROVE  Consistent(w, R, Tail(p), e, l, c, Idle, J, B2, k, S, F2)
  <2>1. \A r \in B2 : r[2] <= m
    BY <1>5, <1>6
  <2>2. Point(w, R, Tail(p), e, l, J, B2, S \cup F2, m, {})
    BY <2>1, <1>5, <1>6 DEF Point
  <2>3. Covered(w, R, S \cup F2, k) /\ Whole(w, R, S, F2)
    BY <1>6 DEF Consistent, Covered, Whole
  <2> QED BY <2>2, <2>3, <1>1, <1>5 DEF Consistent
<1>7. Consistent(w, R, Tail(p), e, l, c, Idle, J, B, k, S, F \cup {x})
  <2>1. PICK F2 : F2 = F \cup {x}
    OBVIOUS
  <2>2. F \subseteq F2 /\ (S \cup F2) \cup B = G
    BY <2>1, <1>4
  <2>3. Consistent(w, R, Tail(p), e, l, c, Idle, J, B, k, S, F2)
    BY <2>2, <1>6
  <2> QED BY <2>1, <2>3
<1>8. Consistent(w, R, Tail(p), e, l, c, Idle, J, {}, k, S, F \cup (B \cup {x}))
  <2>1. PICK F2 : F2 = F \cup (B \cup {x})
    OBVIOUS
  <2>2. F \subseteq F2 /\ (S \cup F2) \cup {} = G /\ {} \subseteq B
    BY <2>1, <1>4
  <2>3. Consistent(w, R, Tail(p), e, l, c, Idle, J, {}, k, S, F2)
    BY <2>2, <1>6
  <2> QED BY <2>1, <2>3
<1> QED BY <1>4, <1>7, <1>8

(* A POSITION that says nothing new.                                        *)
LEMMA DiscardStep ==
  ASSUME NEW w, NEW R, NEW p \in Seq(Item), p # <<>>, NEW e \in Nat, NEW l \in Nat, NEW c,
         NEW J \in SUBSET Nat, NEW B, NEW k \in Nat, NEW S, NEW F,
         Consistent(w, R, p, e, l, c, Idle, J, B, k, S, F), p[1].cmd.type = "POSITION"
  PROVE  Consistent(w, R, Tail(p), e, l, c, Idle, J, B, k, S, F)
<1>1. Gapless(w, R, p, e, l) /\ Gapless(w, R, Tail(p), e, l)
  BY GaplessTail DEF Consistent
<1>2. PICK n \in Nat : \E b : Point(w, R, p, e, l, J, B, S \cup F, n, b)
  BY DEF Consistent
<1>3. PICK b : Point(w, R, p, e, l, J, B, S \cup F, n, b)
  BY <1>2
<1>4. \A d \in J : Cursor(w, R, Tail(p), e, l, d, n, b)
  <2> SUFFICES ASSUME NEW d \in J PROVE Cursor(w, R, Tail(p), e, l, d, n, b)
    OBVIOUS
  <2>1. d \in Nat /\ Cursor(w, R, p, e, l, d, n, b)
    BY <1>3 DEF Point
  <2> QED BY <2>1, <1>1, CursorSkip
<1>5. Point(w, R, Tail(p), e, l, J, B, S \cup F, n, b)
  BY <1>3, <1>4 DEF Point
<1> QED BY <1>1, <1>5 DEF Consistent

(* A POSITION that is worked on.                                            *)
LEMMA PositionStep ==
  ASSUME NEW w, NEW R \in Seq(Nat), NEW p \in Seq(Item), p # <<>>, NEW e \in Nat, NEW l \in Nat,
         NEW c, NEW J \in SUBSET Nat, NEW B, NEW k \in Nat, NEW S, NEW F,
         Consistent(w, R, p, e, l, c, Idle, J, B, k, S, F), p[1].conn <= c,
         NEW cmd, cmd = p[1].cmd, cmd.type = "POSITION", NEW W,
         W = [at |-> IF cmd.prev <= k /\ k <= cmd.new THEN "end" ELSE "fetch",
              conn |-> p[1].conn, cmd |-> cmd, from |-> k]
  PROVE  Consistent(w, R, Tail(p), e, l, c, W, {}, {}, k, S, F)
<1>1. Gapless(w, R, p, e, l)
  BY DEF Consistent
<1>2. Gapless(w, R, Tail(p), e, l) /\ Sound(w, R, cmd) /\ cmd \in Commands
  BY <1>1, GaplessTail, TailCases
<1>3. PICK n \in Nat, v \in Nat : n = cmd.new /\ v = cmd.prev
  BY <1>2, CommandFields, ReplicationAssumption DEF Tokens
<1>4. Cursor(w, R, Tail(p), e, l, p[1].conn, n, {})
  <2>1. ~ Open(p[1].cmd) /\ Reaches(p[1].cmd) <= n
    BY <1>3 DEF Open, Reaches
  <2> QED BY <2>1, <1>1, CursorNext
<1>5. n <= Len(R) /\ Empty(R, v, n)
  BY <1>2, <1>3 DEF Sound
<1>6. Covered(w, R, S \cup F, k)
  BY DEF Consistent
<1>7. ASSUME v <= k, k <= n PROVE Covered(w, R, S \cup F, n)
  <2>1. ASSUME NEW t \in 1..n, NEW i \in 1..R[t] PROVE <<w, t, i>> \in S \cup F
    <3>1. CASE t \in 1..k
      BY <3>1, <1>6 DEF Covered
    <3>2. CASE t \in (v + 1)..n
      <4>1. R[t] = 0
        BY <3>2, <1>5 DEF Empty
      <4> QED BY <4>1
    <3>3. t \in 1..k \/ t \in (v + 1)..n
      BY <1>7
    <3> QED BY <3>1, <3>2, <3>3
  <2> QED BY <2>1, <1>5 DEF Covered
<1>8. /\ W.conn = p[1].conn /\ W.cmd = cmd /\ W.from = k /\ W.cmd.new = n
      /\ W.at = "end" => v <= k /\ k <= n
  BY <1>3
<1>9. Working(w, R, Tail(p), e, l, c, W, S \cup F)
  BY <1>2, <1>4, <1>6, <1>7, <1>8 DEF Working
<1>10. \E m \in Nat : \E b : Point(w, R, Tail(p), e, l, {}, {}, S \cup F, m, b)
  BY NoPoint
<1> QED BY <1>2, <1>9, <1>10 DEF Consistent


(* T are the rows of w after token f and up to token u.                     *)
Fetched(w, R, f, u, T) ==
    /\ \A r \in T : r[1] = w /\ r[2] \in (f + 1)..u
    /\ \A t \in 1..Len(R) : \A i \in 1..R[t] : t \in (f + 1)..u => <<w, t, i>> \in T

(* The rows after the last ones are fetched up to token u.                  *)
LEMMA CatchUpStep ==
  ASSUME NEW w, NEW R \in Seq(Nat), NEW p, NEW e, NEW l, NEW c, NEW W \in Work, W # Idle,
         NEW J, NEW B, NEW k \in Nat, NEW S, NEW F,
         Consistent(w, R, p, e, l, c, W, J, B, k, S, F),
         NEW f \in Nat, f = W.from, NEW n \in Nat, n = W.cmd.new,
         NEW u \in Nat, u <= n, NEW T, Fetched(w, R, f, u, T),
         NEW k2 \in Nat, k2 = k \/ k2 <= u,
         NEW W2, W2 = [W EXCEPT !.at = IF u < n THEN "fetch" ELSE "end", !.from = u]
  PROVE  Consistent(w, R, p, e, l, c, W2, J, B, k2, S \cup T, F)
<1>1. J = {} /\ B = {} /\ Working(w, R, p, e, l, c, W, S \cup F)
  BY DEF Consistent
<1>2. /\ Covered(w, R, S \cup F, f) /\ Covered(w, R, S \cup F, k) /\ Sound(w, R, W.cmd)
      /\ W.conn <= c /\ Cursor(w, R, p, e, l, W.conn, W.cmd.new, {})
  BY <1>1 DEF Working, Consistent
<1>3. n <= Len(R) /\ u <= Len(R) /\ Len(R) \in Nat
  <2>1. W.cmd.type = "POSITION"
    BY WorkFields
  <2>2. n <= Len(R) /\ Len(R) \in Nat
    BY <2>1, <1>2 DEF Sound
  <2> QED BY <2>2
<1>4. PICK S2, H : /\ S2 = S \cup T /\ H = S2 \cup F
                   /\ S \cup F \subseteq H /\ T \subseteq H
  <2>1. PICK S2, H : S2 = S \cup T /\ H = S2 \cup F
    OBVIOUS
  <2>2. S \cup F \subseteq H /\ T \subseteq H
    BY <2>1
  <2> QED BY <2>1, <2>2
<1>5. Covered(w, R, H, u)
  <2>1. ASSUME NEW t \in 1..u, NEW i \in 1..R[t] PROVE <<w, t, i>> \in H
    <3>1. CASE t \in 1..f
      BY <3>1, <1>2, <1>4 DEF Covered
    <3>2. CASE t \in (f + 1)..u
      <4>1. t \in 1..Len(R)
        BY <1>3
      <4> QED BY <4>1, <3>2, <1>4 DEF Fetched
    <3>3. t \in 1..f \/ t \in (f + 1)..u
      OBVIOUS
    <3> QED BY <3>1, <3>2, <3>3
  <2> QED BY <2>1, <1>3 DEF Covered
<1>6. Covered(w, R, H, k2)
  <2>1. CASE k2 = k
    BY <2>1, <1>2, <1>4 DEF Covered
  <2>2. CASE k2 <= u
    BY <2>2, <1>5, CoveredLess
  <2> QED BY <2>1, <2>2
<1>7. \A r \in S2 : r[1] = w => r[2] <= Len(R)
  <2>1. \A r \in S : r[1] = w => r[2] <= Len(R)
    BY DEF Consistent
  <2>2. \A r \in T : r[2] <= Len(R)
    BY <1>3 DEF Fetched
  <2> QED BY <2>1, <2>2, <1>4
<1>8. Whole(w, R, S2, F)
  <2> SUFFICES ASSUME NEW t \in 1..Len(R)
               PROVE  \/ \A i \in 1..R[t] : <<w, t, i>> \in S2 \cup F
                      \/ \A i \in 1..R[t] : <<w, t, i>> \notin S2
    BY DEF Whole
  <2>1. CASE t \in (f + 1)..u
    BY <2>1, <1>4 DEF Fetched
  <2>2. CASE t \notin (f + 1)..u
    <3>1. ASSUME NEW i, <<w, t, i>> \in T PROVE FALSE
      <4>1. PICK r : r = <<w, t, i>>
        OBVIOUS
      <4>2. r[2] = t
        BY <4>1
      <4> QED BY <4>1, <4>2, <3>1, <2>2 DEF Fetched
    <3>2. \/ \A i \in 1..R[t] : <<w, t, i>> \in S \cup F
          \/ \A i \in 1..R[t] : <<w, t, i>> \notin S
      BY DEF Consistent, Whole
    <3> QED BY <3>1, <3>2, <1>4
  <2> QED BY <2>1, <2>2
<1>9. /\ W2.conn = W.conn /\ W2.cmd = W.cmd /\ W2.from = u
      /\ W2.at = "end" => u = n
  BY DEF Work
<1>10. Working(w, R, p, e, l, c, W2, S2 \cup F)
  BY <1>2, <1>4, <1>5, <1>9 DEF Working
<1>11. Gapless(w, R, p, e, l)
  BY DEF Consistent
<1>12. \E m \in Nat : \E b : Point(w, R, p, e, l, {}, {}, S2 \cup F, m, b)
  BY NoPoint
<1>13. Consistent(w, R, p, e, l, c, W2, J, B, k2, S2, F)
  BY <1>1, <1>4, <1>6, <1>7, <1>8, <1>10, <1>11, <1>12 DEF Consistent
<1> QED BY <1>4, <1>13

(* The work on a POSITION is given up ...                                   *)
LEMMA FailStep ==
  ASSUME NEW w, NEW R, NEW p, NEW e, NEW l, NEW c, NEW W, W # Idle, NEW J, NEW B, NEW k, NEW S,
         NEW F, Consistent(w, R, p, e, l, c, W, J, B, k, S, F)
  PROVE  Consistent(w, R, p, e, l, c, Idle, J, B, k, S, F)
  BY DEF Consistent

(* ... or done: the position moves on, and its connection has the stream     *)
(* unless that fails.                                                        *)
LEMMA DoneStep ==
  ASSUME NEW w, NEW R \in Seq(Nat), NEW p \in Seq(Item), NEW e \in Nat, NEW l \in Nat, NEW c,
         NEW W \in Work, W # Idle, W.at = "end", NEW J, NEW B, NEW k \in Nat, NEW S, NEW F,
         Consistent(w, R, p, e, l, c, W, J, B, k, S, F),
         NEW k2, k2 = Larger(k, W.cmd.new), NEW J2 \in SUBSET (J \cup {W.conn})
  PROVE  Consistent(w, R, p, e, l, c, Idle, J2, B, k2, S, F)
<1>1. J = {} /\ B = {} /\ Working(w, R, p, e, l, c, W, S \cup F)
  BY DEF Consistent
<1>2. PICK n \in Nat, d \in Nat : n = W.cmd.new /\ d = W.conn
  BY WorkFields
<1>3. k2 \in Nat /\ n <= k2 /\ (k2 = k \/ k2 = n)
  BY <1>2 DEF Larger
<1>4. Covered(w, R, S \cup F, k2)
  BY <1>1, <1>2, <1>3 DEF Working, Consistent
<1>5. Cursor(w, R, p, e, l, d, k2, {})
  <2>1. Cursor(w, R, p, e, l, d, n, {})
    BY <1>1, <1>2 DEF Working
  <2> QED BY <2>1, <1>3, CursorLater
<1>6. d <= c
  BY <1>1, <1>2 DEF Working
<1>7. \A h \in J2 : h <= c /\ Cursor(w, R, p, e, l, h, k2, {})
  BY <1>1, <1>2, <1>5, <1>6
<1>8. Covered(w, R, (S \cup F) \cup B, k2)
  BY <1>4 DEF Covered
<1>9. Point(w, R, p, e, l, J2, B, S \cup F, k2, {})
  BY <1>1, <1>7, <1>8 DEF Point
<1> QED BY <1>3, <1>4, <1>7, <1>9 DEF Consistent


-----------------------------------------------------------------------------
(* The pipe when commands move on in it.                                    *)

(* Commands are put behind.                                                 *)
LEMMA PartsExtend ==
  ASSUME NEW Q, NEW N, NEW O, NEW c \in Nat, NEW e \in Nat, NEW S, NEW U,
         NEW a \in Nat, NEW b \in Nat, NEW d \in Nat, NEW g \in Nat, g = Len(S),
         NEW h \in Nat, h = d + g,
         NEW p, Parts(p, Q, N, O, c, e, a, b, d), NEW q, Parts(q, Q, N, U, c, e, a, b, h),
         Concat(Commands, O, S, d, g, U)
  PROVE  Extends(p, S, e, q)
<1>1. /\ \A i \in 1..d : U[i] = O[i]
      /\ \A i \in (d + 1)..(d + g) : U[i] = S[i - d]
  BY DEF Concat
<1>2. PICK x \in Nat : x = Len(p) /\ x = a + b + d
  BY DEF Parts
<1>3. Len(q) = x + g
  BY <1>2 DEF Parts
<1>4. ASSUME NEW i \in 1..x PROVE q[i] = p[i]
  <2>1. CASE i \in 1..a
    BY <2>1 DEF Parts
  <2>2. CASE i \in (a + 1)..(a + b)
    BY <2>2 DEF Parts
  <2>3. CASE i \in (a + b + 1)..(a + b + d)
    <3>1. i \in (a + b + 1)..(a + b + h)
      BY <2>3
    <3>2. PICK j \in 1..d : j = i - (a + b)
      BY <2>3
    <3>3. q[i] = [conn |-> e, cmd |-> U[j]] /\ p[i] = [conn |-> e, cmd |-> O[j]]
      BY <3>1, <3>2, <2>3 DEF Parts
    <3> QED BY <3>3, <1>1
  <2>4. i \in 1..a \/ i \in (a + 1)..(a + b) \/ i \in (a + b + 1)..(a + b + d)
    BY <1>2
  <2> QED BY <2>1, <2>2, <2>3, <2>4
<1>5. ASSUME NEW i \in (x + 1)..(x + g) PROVE q[i].conn = e /\ q[i].cmd = S[i - x]
  <2>1. PICK j : j = i - (a + b)
    OBVIOUS
  <2>2. j \in (d + 1)..(d + g) /\ j - d = i - x /\ i \in (a + b + 1)..(a + b + h)
    BY <2>1, <1>2
  <2>3. U[j] = S[j - d]
    BY <2>2, <1>1
  <2>4. q[i] = [conn |-> e, cmd |-> U[j]]
    BY <2>1, <2>2 DEF Parts
  <2> QED BY <2>2, <2>3, <2>4
<1> QED BY <1>2, <1>3, <1>4, <1>5 DEF Extends

(* A sequence is known by its elements.                                     *)
LEMMA SameSeq ==
  ASSUME NEW X, NEW p \in Seq(X), NEW q \in Seq(X), Len(p) = Len(q),
         \A i \in 1..Len(p) : p[i] = q[i]
  PROVE  p = q
  OBVIOUS

(* s2 is s without its first element, of length d ...                       *)
Shifted(s, s2, d) == \A i \in 1..d : s2[i] = s[i + 1]

(* ... and s2 is s, of length b, with x behind it.                          *)
Longer(s, s2, b, x) == (\A i \in 1..b : s2[i] = s[i]) /\ s2[b + 1] = x

(* A command moves from the queue of the writer to the network ...          *)
LEMMA PartsPublish ==
  ASSUME NEW Q, NEW N, NEW O, NEW c \in Nat, NEW N2, NEW O2,
         NEW a \in Nat, NEW b \in Nat, NEW d \in Nat,
         NEW p, Parts(p, Q, N, O, c, c, a, b, d + 1),
         NEW q, Parts(q, Q, N2, O2, c, c, a, b + 1, d),
         Longer(N, N2, b, O[1]), Shifted(O, O2, d)
  PROVE  p = q
<1>1. PICK b1 \in Nat, d1 \in Nat : b1 = b + 1 /\ d1 = d + 1
  OBVIOUS
<1>2. /\ p \in Seq(Item) /\ q \in Seq(Item)
      /\ Len(p) = a + b + d1 /\ Len(q) = a + b1 + d /\ Len(p) = Len(q)
  BY <1>1 DEF Parts
<1>3. ASSUME NEW i \in 1..Len(p) PROVE p[i] = q[i]
  <2>1. CASE i \in 1..a
    BY <2>1 DEF Parts
  <2>2. CASE i \in (a + 1)..(a + b)
    <3>1. PICK j \in 1..b : j = i - a
      BY <2>2
    <3>2. i \in (a + 1)..(a + b1)
      BY <2>2, <1>1
    <3>3. p[i] = [conn |-> c, cmd |-> N[j]] /\ q[i] = [conn |-> c, cmd |-> N2[j]]
      BY <2>2, <3>1, <3>2, <1>1 DEF Parts
    <3> QED BY <3>3 DEF Longer
  <2>3. CASE i = a + b + 1
    <3>1. i \in (a + 1)..(a + b1) /\ i \in (a + b + 1)..(a + b + d1)
          /\ i - a = b1 /\ i - (a + b) = 1
      BY <2>3, <1>1
    <3>2. p[i] = [conn |-> c, cmd |-> O[1]] /\ q[i] = [conn |-> c, cmd |-> N2[b1]]
      BY <3>1, <1>1 DEF Parts
    <3> QED BY <3>2, <1>1 DEF Longer
  <2>4. CASE i \in (a + b + 2)..(a + b + d1)
    <3>1. PICK j \in 1..d : j = i - (a + b1)
      BY <2>4, <1>1
    <3>2. i \in (a + b1 + 1)..(a + b1 + d) /\ i \in (a + b + 1)..(a + b + d1)
          /\ i - (a + b) = j + 1
      BY <2>4, <3>1, <1>1
    <3>3. p[i] = [conn |-> c, cmd |-> O[j + 1]]
      BY <3>2, <1>1 DEF Parts
    <3>4. q[i] = [conn |-> c, cmd |-> O2[j]]
      BY <3>1, <3>2, <1>1 DEF Parts
    <3> QED BY <3>3, <3>4 DEF Shifted
  <2>5. \/ i \in 1..a \/ i \in (a + 1)..(a + b) \/ i = a + b + 1
        \/ i \in (a + b + 2)..(a + b + d1)
    BY <1>2
  <2> QED BY <2>1, <2>2, <2>3, <2>4, <2>5
<1> QED BY <1>2, <1>3, SameSeq

(* ... and from there to the queue of the stream.                           *)
LEMMA PartsReceive ==
  ASSUME NEW Q, NEW N, NEW O, NEW c \in Nat, NEW e \in Nat, NEW Q2, NEW N2,
         NEW a \in Nat, NEW b \in Nat, NEW d \in Nat,
         NEW p, Parts(p, Q, N, O, c, e, a, b + 1, d),
         NEW q, Parts(q, Q2, N2, O, c, e, a + 1, b, d),
         Longer(Q, Q2, a, [conn |-> c, cmd |-> N[1]]), Shifted(N, N2, b)
  PROVE  p = q
<1>1. PICK a1 \in Nat, b1 \in Nat : a1 = a + 1 /\ b1 = b + 1
  OBVIOUS
<1>2. /\ p \in Seq(Item) /\ q \in Seq(Item)
      /\ Len(p) = a + b1 + d /\ Len(q) = a1 + b + d /\ Len(p) = Len(q)
  BY <1>1 DEF Parts
<1>3. ASSUME NEW i \in 1..Len(p) PROVE p[i] = q[i]
  <2>1. CASE i \in 1..a
    <3>1. i \in 1..a1
      BY <2>1, <1>1
    <3> QED BY <2>1, <3>1, <1>1 DEF Parts, Longer
  <2>2. CASE i = a1
    <3>1. i \in 1..a1 /\ i \in (a + 1)..(a + b1) /\ i - a = 1
      BY <2>2, <1>1
    <3>2. p[i] = [conn |-> c, cmd |-> N[1]] /\ q[i] = Q2[i]
      BY <3>1, <1>1 DEF Parts
    <3> QED BY <3>2, <2>2, <1>1 DEF Longer
  <2>3. CASE i \in (a1 + 1)..(a + b1)
    <3>1. PICK j \in 1..b : j = i - a1
      BY <2>3, <1>1
    <3>2. i \in (a1 + 1)..(a1 + b) /\ i \in (a + 1)..(a + b1) /\ i - a = j + 1
      BY <2>3, <3>1, <1>1
    <3>3. p[i] = [conn |-> c, cmd |-> N[j + 1]]
      BY <3>2, <1>1 DEF Parts
    <3>4. q[i] = [conn |-> c, cmd |-> N2[j]]
      BY <3>1, <3>2, <1>1 DEF Parts
    <3> QED BY <3>3, <3>4 DEF Shifted
  <2>4. CASE i \in (a + b1 + 1)..(a + b1 + d)
    <3>1. PICK x \in Nat : x = a + b1 /\ x = a1 + b
      BY <1>1
    <3>2. i \in (x + 1)..(x + d)
      BY <2>4, <3>1
    <3>3. p[i] = [conn |-> e, cmd |-> O[i - x]]
      BY <3>1, <3>2, <1>1 DEF Parts
    <3>4. q[i] = [conn |-> e, cmd |-> O[i - x]]
      BY <3>1, <3>2, <1>1 DEF Parts
    <3> QED BY <3>3, <3>4 DEF Shifted
  <2>5. \/ i \in 1..a \/ i = a1 \/ i \in (a1 + 1)..(a + b1)
        \/ i \in (a + b1 + 1)..(a + b1 + d)
    BY <1>1, <1>2
  <2> QED BY <2>1, <2>2, <2>3, <2>4, <2>5
<1> QED BY <1>2, <1>3, SameSeq

(* q is p without the element after the first a.                            *)
Drops(p, q, a) ==
    /\ a < Len(p) /\ Len(q) = Len(p) - 1
    /\ \A i \in 1..a : q[i] = p[i]
    /\ \A i \in (a + 1)..Len(q) : q[i] = p[i + 1]

(* The first command behind the queue is left out.                          *)
LEMMA PartsDrop ==
  ASSUME NEW Q, NEW N, NEW O, NEW c \in Nat, NEW e \in Nat, NEW N2,
         NEW a \in Nat, NEW b \in Nat, NEW d \in Nat,
         NEW p, Parts(p, Q, N, O, c, e, a, b + 1, d),
         NEW q, Parts(q, Q, N2, O, c, e, a, b, d), Shifted(N, N2, b)
  PROVE  Drops(p, q, a) /\ p[a + 1] = [conn |-> c, cmd |-> N[1]]
<1>1. PICK b1 \in Nat : b1 = b + 1
  OBVIOUS
<1>2. Len(p) = a + b1 + d /\ Len(q) = a + b + d
  BY <1>1 DEF Parts
<1>3. p[a + 1] = [conn |-> c, cmd |-> N[1]]
  <2>1. PICK i \in Nat : i = a + 1 /\ i \in (a + 1)..(a + b1) /\ i - a = 1
    BY <1>1
  <2> QED BY <2>1, <1>1 DEF Parts
<1>4. \A i \in 1..a : q[i] = p[i]
  BY DEF Parts
<1>5. ASSUME NEW i \in (a + 1)..(a + b + d) PROVE q[i] = p[i + 1]
  <2>1. PICK k \in Nat : k = i + 1
    OBVIOUS
  <2>2. CASE i \in (a + 1)..(a + b)
    <3>1. PICK j \in 1..b : j = i - a
      BY <2>2
    <3>2. k \in (a + 1)..(a + b1) /\ k - a = j + 1
      BY <2>1, <2>2, <3>1, <1>1
    <3>3. p[k] = [conn |-> c, cmd |-> N[j + 1]]
      BY <3>2, <1>1 DEF Parts
    <3>4. q[i] = [conn |-> c, cmd |-> N2[j]]
      BY <2>2, <3>1 DEF Parts
    <3> QED BY <2>1, <3>3, <3>4 DEF Shifted
  <2>3. CASE i \in (a + b + 1)..(a + b + d)
    <3>1. k \in (a + b1 + 1)..(a + b1 + d) /\ k - (a + b1) = i - (a + b)
      BY <2>1, <2>3, <1>1
    <3>2. p[k] = [conn |-> e, cmd |-> O[i - (a + b)]]
      BY <3>1, <1>1 DEF Parts
    <3>3. q[i] = [conn |-> e, cmd |-> O[i - (a + b)]]
      BY <2>3 DEF Parts
    <3> QED BY <2>1, <3>2, <3>3
  <2> QED BY <2>2, <2>3
<1> QED BY <1>1, <1>2, <1>3, <1>4, <1>5 DEF Drops

(* The same when nothing is in between, as when nobody is subscribed.       *)
LEMMA PartsDropLast ==
  ASSUME NEW Q, NEW N, NEW O, NEW c \in Nat, NEW e \in Nat, NEW O2,
         NEW a \in Nat, NEW d \in Nat,
         NEW p, Parts(p, Q, N, O, c, e, a, 0, d + 1),
         NEW q, Parts(q, Q, N, O2, c, e, a, 0, d), Shifted(O, O2, d)
  PROVE  Drops(p, q, a) /\ p[a + 1] = [conn |-> e, cmd |-> O[1]]
<1>1. PICK d1 \in Nat : d1 = d + 1
  OBVIOUS
<1>2. /\ Len(p) = a + d1 /\ Len(q) = a + d
      /\ \A i \in 1..a : q[i] = p[i]
      /\ \A i \in (a + 1)..(a + d1) : p[i] = [conn |-> e, cmd |-> O[i - a]]
      /\ \A i \in (a + 1)..(a + d) : q[i] = [conn |-> e, cmd |-> O2[i - a]]
  <2>1. a + 0 = a
    OBVIOUS
  <2> QED BY <1>1, <2>1 DEF Parts
<1>3. p[a + 1] = [conn |-> e, cmd |-> O[1]]
  <2>1. PICK i \in Nat : i = a + 1 /\ i \in (a + 1)..(a + d1) /\ i - a = 1
    BY <1>1
  <2> QED BY <2>1, <1>2
<1>4. ASSUME NEW i \in (a + 1)..(a + d) PROVE q[i] = p[i + 1]
  <2>1. PICK k \in Nat, j \in 1..d : k = i + 1 /\ j = i - a
    OBVIOUS
  <2>2. k \in (a + 1)..(a + d1) /\ k - a = j + 1
    BY <2>1, <1>1
  <2>3. p[k] = [conn |-> e, cmd |-> O[j + 1]] /\ q[i] = [conn |-> e, cmd |-> O2[j]]
    BY <2>1, <2>2, <1>2
  <2> QED BY <2>1, <2>3 DEF Shifted
<1> QED BY <1>1, <1>2, <1>3, <1>4 DEF Drops


(* A connection is lost: what was on its way is, and what follows will come  *)
(* on the next one.                                                         *)
Cuts(p, q, e, a, b, d) ==
    /\ Len(p) = a + b + d /\ Len(q) = a + d
    /\ \A i \in 1..a : q[i] = p[i]
    /\ \A i \in (a + 1)..(a + d) : q[i].conn = e + 1 /\ q[i].cmd = p[i + b].cmd
    /\ \A i \in (a + b + 1)..(a + b + d) : p[i].conn = e

(* A lost connection cuts what Redis has passed on out of the pipe, and     *)
(* what is in the outbox will come on the next one.                         *)
LEMMA PartsCut ==
  ASSUME NEW Q, NEW N, NEW O, NEW c \in Nat, NEW N2,
         NEW a \in Nat, NEW b \in Nat, NEW d \in Nat,
         NEW p, Parts(p, Q, N, O, c, c, a, b, d),
         NEW q, Parts(q, Q, N2, O, c, c + 1, a, 0, d)
  PROVE  Cuts(p, q, c, a, b, d)
<1>1. /\ Len(p) = a + b + d /\ Len(q) = a + d
      /\ \A i \in 1..a : q[i] = p[i]
      /\ \A i \in (a + b + 1)..(a + b + d) : p[i] = [conn |-> c, cmd |-> O[i - (a + b)]]
      /\ \A i \in (a + 1)..(a + d) : q[i] = [conn |-> c + 1, cmd |-> O[i - a]]
  <2>1. a + 0 = a
    OBVIOUS
  <2> QED BY <2>1 DEF Parts
<1>2. ASSUME NEW i \in (a + 1)..(a + d) PROVE q[i].conn = c + 1 /\ q[i].cmd = p[i + b].cmd
  <2>1. PICK k \in (a + b + 1)..(a + b + d), j \in Nat : k = i + b /\ j = i - a /\ k - (a + b) = j
    OBVIOUS
  <2>2. p[k] = [conn |-> c, cmd |-> O[j]] /\ q[i] = [conn |-> c + 1, cmd |-> O[j]]
    BY <2>1, <1>1
  <2> QED BY <2>1, <2>2
<1>3. ASSUME NEW i \in (a + b + 1)..(a + b + d) PROVE p[i].conn = c
  <2>1. PICK j : p[i] = [conn |-> c, cmd |-> O[j]]
    BY <1>1
  <2> QED BY <2>1
<1> QED BY <1>1, <1>2, <1>3 DEF Cuts

(* What leaves the pipe unread: a command that nobody who reads it is to     *)
(* read, or a POSITION.                                                     *)
LEMMA DropStep ==
  ASSUME NEW w, NEW R, NEW p \in Seq(Item), NEW q \in Seq(Item), NEW e \in Nat, NEW l \in Nat,
         NEW c \in Nat, NEW W \in Work \cup {Idle}, NEW J \in SUBSET Nat, NEW B,
         NEW k \in Nat, NEW S, NEW F, NEW a \in Nat, Drops(p, q, a),
         \/ a = 0 /\ c < p[1].conn
         \/ a # 0 /\ p[a].conn < p[a + 1].conn
         \/ p[a + 1].cmd.type = "POSITION",
         Consistent(w, R, p, e, l, c, W, J, B, k, S, F)
  PROVE  Consistent(w, R, q, e, l, c, W, J, B, k, S, F)
<1>1. Gapless(w, R, p, e, l)
  BY DEF Consistent
<1>2. /\ a < Len(p) /\ Len(q) = Len(p) - 1 /\ Len(p) \in Nat /\ Len(q) \in Nat
      /\ \A i \in 1..a : q[i] = p[i]
      /\ \A i \in (a + 1)..Len(q) : q[i] = p[i + 1]
  BY DEF Drops
<1>3. Gapless(w, R, q, e, l)
  <2>1. a = 0 \/ p[a].conn < p[a + 1].conn \/ p[a + 1].cmd.type = "POSITION"
    OBVIOUS
  <2> QED BY <2>1, <1>1, <1>2, GaplessRemove
<1>4. ASSUME NEW f \in Nat, NEW n \in Nat, NEW b, f <= c, Cursor(w, R, p, e, l, f, n, b)
      PROVE  Cursor(w, R, q, e, l, f, n, b)
  <2>1. CASE a # 0
    <3>1. p # <<>> /\ q # <<>> /\ q[1] = p[1]
      BY <2>1, <1>2
    <3> QED BY <3>1, <1>4, CursorSameHead
  <2>2. CASE a = 0
    <3>1. p # <<>> /\ Tail(p) \in Seq(Item) /\ Len(Tail(p)) = Len(q)
      BY <2>2, <1>2
    <3>2. \A i \in 1..Len(q) : Tail(p)[i] = q[i]
      BY <2>2, <1>2, <3>1
    <3>3. q = Tail(p)
      BY <3>1, <3>2, SameSeq
    <3>4. CASE c < p[1].conn
      <4>1. PICK h \in Nat : h = p[1].conn
        BY <1>1, <3>1, TailCases
      <4>2. f < p[1].conn
        BY <3>4, <4>1, <1>4
      <4>3. Cursor(w, R, Tail(p), e, l, f, n, b)
        BY <4>2, <1>1, <3>1, CursorPast
      <4> QED BY <4>3, <3>3
    <3>5. CASE p[a + 1].cmd.type = "POSITION"
      <4>1. p[1].cmd.type = "POSITION"
        BY <2>2, <3>5
      <4>2. Cursor(w, R, Tail(p), e, l, f, n, b)
        BY <4>1, <1>1, <1>4, <3>1, CursorSkip
      <4> QED BY <4>2, <3>3
    <3> QED BY <2>2, <3>4, <3>5
  <2> QED BY <2>1, <2>2
<1>5. c <= c /\ J \in SUBSET J
  OBVIOUS
<1>6. Keeps(w, R, p, e, l, q, e, l, c)
  BY <1>4 DEF Keeps
<1> QED BY <1>3, <1>5, <1>6, PipeStep

(* The pipe after a lost connection.                                        *)
LEMMA CutStep ==
  ASSUME NEW w, NEW R, NEW p \in Seq(Item), NEW q \in Seq(Item), NEW l \in Nat,
         NEW c \in Nat, NEW W \in Work \cup {Idle}, NEW J \in SUBSET Nat, NEW J2 \in SUBSET J,
         NEW B, NEW k \in Nat, NEW S, NEW F, NEW a \in Nat, NEW b \in Nat, NEW d \in Nat,
         Cuts(p, q, c, a, b, d),
         Consistent(w, R, p, c, l, c, W, J, B, k, S, F)
  PROVE  Consistent(w, R, q, c + 1, l, c, W, J2, B, k, S, F)
<1>1. Gapless(w, R, p, c, l)
  BY DEF Consistent
<1>2. /\ Len(p) = a + b + d /\ Len(q) = a + d
      /\ \A i \in 1..a : q[i] = p[i]
      /\ \A i \in (a + 1)..(a + d) : q[i].conn = c + 1 /\ q[i].cmd = p[i + b].cmd
      /\ \A i \in (a + b + 1)..(a + b + d) : p[i].conn = c
  BY DEF Cuts
<1>3. Gapless(w, R, q, c + 1, l)
  BY <1>1, <1>2, GaplessCut
<1>4. ASSUME NEW f \in Nat, NEW n \in Nat, NEW s, f <= c, Cursor(w, R, p, c, l, f, n, s)
      PROVE  Cursor(w, R, q, c + 1, l, f, n, s)
  <2>1. CASE a # 0
    <3>1. p # <<>> /\ q # <<>> /\ q[1] = p[1]
      BY <2>1, <1>2
    <3> QED BY <3>1, <1>4, CursorSameHead
  <2>2. CASE a = 0
    <3>1. f <= c + 1 /\ f # c + 1
      BY <1>4
    <3>2. q # <<>> => q[1].conn = c + 1
      <4>1. q # <<>> => 1 \in (a + 1)..(a + d)
        BY <2>2, <1>2
      <4> QED BY <4>1, <1>2
    <3> QED BY <3>1, <3>2 DEF Cursor
  <2> QED BY <2>1, <2>2
<1>5. Keeps(w, R, p, c, l, q, c + 1, l, c)
  BY <1>4 DEF Keeps
<1>6. c <= c
  OBVIOUS
<1> QED BY <1>3, <1>5, <1>6, PipeStep


-----------------------------------------------------------------------------
(* The actions.                                                             *)

(* The pipe of a state, before and after a step.                            *)
PipeParts(w) ==
    Parts(Pipe(w), queue, net, outbox[w], conn, EndTag, Len(queue), Len(net), Len(outbox[w]))

(* Every pipe is put together of its three parts ...                        *)
LEMMA PipeHasParts == \A w : Shape(w) => PipeParts(w)
<1> SUFFICES ASSUME NEW w, Shape(w) PROVE PipeParts(w)
  OBVIOUS
<1> QED BY PipeIndex DEF Shape, PipeParts, Pipe

(* ... after a step, too.                                                   *)
LEMMA PipeHasPartsNext == (\A w : Shape(w) => PipeParts(w))'
  BY PipeHasParts, PTL

(* The streamer sends commands that lead it from its last token on.         *)
LEMMA SendStep ==
  ASSUME NEW w, Writers = {w}, TypeInv, TypeInv', ReplicaInv, StreamerInv(w)',
         NEW S \in Seq(Commands), outbox'[w] = outbox[w] \o S,
         Segment(w, rows[w], str[w].last, S, str'[w].last), UNCHANGED <<rows, rvars>>
  PROVE  ReplicaInv'
<1>1. /\ Queued /\ Shape(w) /\ Shape(w)' /\ PipeParts(w) /\ PipeParts(w)'
      /\ Consistent(w, rows[w], Pipe(w), EndTag, str[w].last, conn, work, joined, batch,
                    tok[w], seen, failed)
  BY Before, ShapesNext, PipeHasParts, PipeHasPartsNext
<1>2. UNCHANGED <<rows, conn, up, net, queue, work, joined, batch, tok, seen, failed>>
  BY DEF rvars
<1>3. PICK R, p, e, l, q, m, O, U, a, b, d, g, h :
         /\ R = rows[w] /\ p = Pipe(w) /\ e = EndTag /\ l = str[w].last
         /\ q = Pipe(w)' /\ m = str'[w].last /\ O = outbox[w] /\ U = outbox'[w]
         /\ a = Len(queue) /\ b = Len(net) /\ d = Len(O) /\ g = Len(S) /\ h = Len(U)
  OBVIOUS
<1>4. EndTag' = e
  BY <1>2, <1>3 DEF EndTag
<1>5. /\ p \in Seq(Item) /\ q \in Seq(Item) /\ e \in Nat /\ l \in Nat /\ m \in Nat
      /\ conn \in Nat /\ conn <= e /\ work \in Work \cup {Idle} /\ joined \in SUBSET Nat
      /\ tok[w] \in Nat /\ O \in Seq(Commands)
      /\ Consistent(w, R, p, e, l, conn, work, joined, batch, tok[w], seen, failed)
      /\ Segment(w, R, l, S, m)
  BY <1>1, <1>3 DEF Shape
<1>6. Extends(p, S, e, q)
  <2>1. Concat(Commands, O, S, d, g, U)
    BY <1>3, <1>5, ConcatIndex
  <2>2. d \in Nat /\ g \in Nat /\ h \in Nat /\ h = d + g
    BY <2>1, <1>3 DEF Concat
  <2>3. /\ Parts(p, queue, net, O, conn, e, a, b, d) /\ Parts(q, queue, net, U, conn, e, a, b, h)
    BY <1>1, <1>2, <1>3, <1>4 DEF PipeParts
  <2>4. a \in Nat /\ b \in Nat
    BY <2>3 DEF Parts
  <2> QED BY <2>1, <2>2, <2>3, <2>4, <1>3, <1>5, PartsExtend
<1>7. Gapless(w, R, p, e, l)
  BY <1>5 DEF Consistent
<1>8. Gapless(w, R, q, e, m)
  BY <1>5, <1>6, <1>7, GaplessAppend
<1>9. ASSUME NEW c \in Nat, NEW n \in Nat, NEW s, c <= conn, Cursor(w, R, p, e, l, c, n, s)
      PROVE  Cursor(w, R, q, e, m, c, n, s)
  <2>1. c <= e
    BY <1>5, <1>9
  <2> QED BY <2>1, <1>5, <1>6, <1>9, CursorAppend
<1>10. Consistent(w, R, q, e, m, conn, work, joined, batch, tok[w], seen, failed)
  <2>1. PICK c, W, J, k, B, D, F :
           /\ c = conn /\ W = work /\ J = joined /\ k = tok[w] /\ B = batch /\ D = seen
           /\ F = failed
           /\ c \in Nat /\ W \in Work \cup {Idle} /\ J \in SUBSET Nat /\ k \in Nat
    BY <1>5
  <2>2. Consistent(w, R, p, e, l, c, W, J, B, k, D, F)
    BY <2>1, <1>5
  <2>3. Keeps(w, R, p, e, l, q, e, m, c)
    BY <2>1, <1>9 DEF Keeps
  <2>4. c <= c /\ J \in SUBSET J
    BY <2>1
  <2>5. Consistent(w, R, q, e, m, c, W, J, B, k, D, F)
    BY <2>1, <2>2, <2>3, <2>4, <1>8, PipeStep
  <2> QED BY <2>1, <2>5
<1>11. Queued'
  BY <1>1, <1>2 DEF Queued
<1> QED BY <1>2, <1>3, <1>4, <1>10, <1>11, After


(* Nothing is sent.                                                         *)
LEMMA QuietStep ==
  ASSUME NEW w, Writers = {w}, TypeInv, TypeInv', ReplicaInv, StreamerInv(w)',
         str'[w].last = str[w].last, UNCHANGED <<rows, outbox, rvars>>
  PROVE  ReplicaInv'
<1>1. str[w].last \in Nat /\ outbox[w] \in Seq(Commands)
  BY Before DEF Shape
<1>2. outbox'[w] = outbox[w] \o <<>> /\ <<>> \in Seq(Commands)
  BY <1>1
<1>3. PICK l, R : l \in Nat /\ l = str[w].last /\ R = rows[w]
  BY <1>1
<1>4. Segment(w, R, l, <<>>, l)
  BY <1>3 DEF Segment, Empty
<1>5. Segment(w, rows[w], str[w].last, <<>>, str'[w].last)
  BY <1>3, <1>4
<1> QED BY <1>2, <1>5, SendStep

(* The steps of the streamer: its connection is never lost.                 *)
LEMMA WriterHolds ==
  ASSUME NEW w, Writers = {w}, MaxOutages = 0, TypeInv, TypeInv', ReplicaInv,
         \/ Poke(w) \/ Loop(w) \/ Stream(w) \/ StreamFails(w) \/ OnReplicate(w)
         \/ WriterLost(w) \/ WriterSubscribed(w) \/ WriterReplicates(w)
  PROVE  ReplicaInv'
<1>1. /\ w \in Writers /\ str \in [Writers -> Streamer] /\ outbox \in [Writers -> Seq(Commands)]
      /\ outages \in Nat /\ TypeOK /\ FetchInv
  BY DEF TypeInv, TypeOK
<1>2. PICK s \in Streamer : s = str[w]
  BY <1>1
<1>3. /\ s.at \in {"idle", "loop", "fetch"} /\ s.last \in Nat /\ s.from \in Nat /\ s.upto \in Nat
      /\ s.last \in Tokens /\ s.last <= Len(rows[w]) /\ s.upto <= Len(rows[w])
      /\ Len(rows[w]) \in Nat
  BY <1>1, <1>2, ReplicationAssumption DEF Streamer, Tokens, FetchInv, CurrentToken, TypeOK
<1>4. s.link = "up" /\ (s.at = "fetch" => s.from = s.last)
  BY <1>2, Before DEF StreamerInv
<1>5. CASE Poke(w)
  <2>1. str' = [str EXCEPT ![w].pending = TRUE, ![w].at = IF @ = "idle" THEN "loop" ELSE @]
        /\ UNCHANGED <<rows, outbox, rvars>>
    BY <1>2, <1>4, <1>5 DEF Poke
  <2>2. /\ str'[w].last = s.last /\ str'[w].link = s.link /\ str'[w].from = s.from
        /\ str'[w].at = "fetch" => s.at = "fetch"
    BY <2>1, <1>1, <1>2 DEF Streamer
  <2>3. StreamerInv(w)'
    BY <2>2, <1>4 DEF StreamerInv
  <2> QED BY <2>1, <2>2, <2>3, <1>2, QuietStep
<1>6. CASE Loop(w)
  <2>1. PICK S : /\ S = IF s.pending /\ s.announce
                        THEN <<PositionCommand(w, s.last, s.last)>> ELSE <<>>
                 /\ Send(w, S)
    BY <1>2, <1>6 DEF Loop
  <2>2. UNCHANGED <<rows, rvars>>
    BY <1>6 DEF Loop
  <2>3. str'[w].last = s.last /\ str'[w].link = s.link /\ str'[w].from = s.last
    BY <1>1, <1>2, <1>6 DEF Loop, Streamer
  <2>4. StreamerInv(w)'
    BY <2>3, <1>4 DEF StreamerInv
  <2>5. PICK l, R : /\ l \in Nat /\ l = s.last /\ R = rows[w] /\ l <= Len(R)
                    /\ l \in Tokens
    BY <1>3
  <2>6. PICK P : P = PositionCommand(w, l, l)
    OBVIOUS
  <2>7. P \in Commands /\ P.type = "POSITION" /\ P.writer = w /\ P.new = l /\ P.prev = l
    BY <2>5, <2>6, <1>1 DEF PositionCommand, Commands, Position
  <2>8. S \in Seq(Commands) /\ (S = <<P>> \/ S = <<>>)
    BY <2>1, <2>5, <2>6, <2>7
  <2>9. Segment(w, R, l, S, l)
    <3>1. Empty(R, l, l)
      BY <2>5 DEF Empty
    <3>2. CASE S = <<>>
      BY <3>1, <3>2 DEF Segment
    <3>3. CASE S = <<P>>
      <4>1. Len(S) = 1 /\ S[1] = P
        BY <3>3
      <4>2. Sound(w, R, P) /\ Follows(w, R, l, {}, P) /\ ~ Open(P) /\ Reaches(P) = l
        BY <2>5, <2>7, <3>1 DEF Sound, Follows, Open, Reaches
      <4> QED BY <4>1, <4>2, <3>1 DEF Segment
    <3> QED BY <2>8, <3>2, <3>3
  <2>10. outbox'[w] = outbox[w] \o S
    BY <2>1, <1>1, <1>2, <1>4 DEF Send
  <2>11. Segment(w, rows[w], str[w].last, S, str'[w].last)
    BY <2>3, <2>5, <2>9, <1>2
  <2> QED BY <2>2, <2>4, <2>8, <2>10, <2>11, SendStep
<1>7. CASE Stream(w)
  <2>1. s.at = "fetch" /\ UNCHANGED <<rows, rvars>>
    BY <1>2, <1>7 DEF Stream
  <2>2. PICK u \in (s.from + 1)..s.upto :
           /\ Send(w, Updates(w, s.from, u))
           /\ str' = [str EXCEPT ![w].at = "loop", ![w].last = u,
                                 ![w].pending = @ \/ u < s.upto]
    BY <1>2, <1>7 DEF Stream
  <2>3. PICK f \in Nat : f = s.from /\ f = s.last /\ u \in Nat /\ f < u /\ u <= Len(rows[w])
    BY <2>1, <2>2, <1>3, <1>4
  <2>4. PICK S : S = Updates(w, f, u)
    OBVIOUS
  <2>5. S \in Seq(Commands) /\ Segment(w, rows[w], f, S, u)
    BY <2>3, <2>4, <1>1, UpdatesSegment
  <2>6. str'[w].last = u /\ str'[w].link = s.link /\ str'[w].at = "loop"
    BY <2>2, <1>1, <1>2 DEF Streamer
  <2>7. StreamerInv(w)'
    BY <2>6, <1>4 DEF StreamerInv
  <2>8. outbox'[w] = outbox[w] \o S
    BY <2>2, <2>3, <2>4, <1>1, <1>2, <1>4 DEF Send
  <2>9. Segment(w, rows[w], str[w].last, S, str'[w].last)
    BY <2>3, <2>5, <2>6, <1>2
  <2> QED BY <2>1, <2>5, <2>7, <2>8, <2>9, SendStep
<1>8. CASE StreamFails(w)
  <2>1. str' = [str EXCEPT ![w].at = "idle", ![w].pending = FALSE]
        /\ UNCHANGED <<rows, outbox, rvars>>
    BY <1>8 DEF StreamFails
  <2>2. str'[w].last = s.last /\ str'[w].link = s.link /\ str'[w].at = "idle"
    BY <2>1, <1>1, <1>2 DEF Streamer
  <2>3. StreamerInv(w)'
    BY <2>2, <1>4 DEF StreamerInv
  <2> QED BY <2>1, <2>2, <2>3, <1>2, QuietStep
<1>9. CASE OnReplicate(w)
  <2>1. str' = [str EXCEPT ![w].announce = TRUE] /\ UNCHANGED <<rows, outbox, rvars>>
    BY <1>9 DEF OnReplicate
  <2>2. /\ str'[w].last = s.last /\ str'[w].link = s.link /\ str'[w].from = s.from
        /\ str'[w].at = s.at
    BY <2>1, <1>1, <1>2 DEF Streamer
  <2>3. StreamerInv(w)'
    BY <2>2, <1>4 DEF StreamerInv
  <2> QED BY <2>1, <2>2, <2>3, <1>2, QuietStep
<1>10. CASE WriterLost(w)
  BY <1>1, <1>10 DEF WriterLost
<1>11. CASE WriterSubscribed(w)
  BY <1>2, <1>4, <1>11 DEF WriterSubscribed
<1>12. CASE WriterReplicates(w)
  BY <1>2, <1>4, <1>12 DEF WriterReplicates
<1> QED BY <1>5, <1>6, <1>7, <1>8, <1>9, <1>10, <1>11, <1>12


(* A write.                                                                 *)
LEMMA WriteHolds ==
  ASSUME NEW w, Writers = {w}, TypeInv, TypeInv', ReplicaInv, NEW n \in 0..MaxBatch, Write(w, n)
  PROVE  ReplicaInv'
<1>1. /\ Queued /\ Shape(w) /\ StreamerInv(w)
      /\ Consistent(w, rows[w], Pipe(w), EndTag, str[w].last, conn, work, joined, batch,
                    tok[w], seen, failed)
  BY Before
<1>2. UNCHANGED <<str, outbox, conn, up, net, queue, work, joined, batch, tok, seen, failed>>
  BY DEF Write, rvars
<1>3. rows'[w] = Append(rows[w], n) /\ n \in Nat
  <2>1. rows \in [Writers -> Seq(0..MaxBatch)] /\ w \in Writers
    BY DEF TypeInv, TypeOK
  <2> QED BY <2>1, ReplicationAssumption DEF Write
<1>4. Pipe(w)' = Pipe(w) /\ EndTag' = EndTag
  BY <1>2 DEF Pipe, EndTag
<1>5. PICK R, R2, p, e, l : /\ R = rows[w] /\ R2 = rows'[w] /\ p = Pipe(w) /\ e = EndTag
                            /\ l = str[w].last
  OBVIOUS
<1>6. /\ R \in Seq(Nat) /\ R2 = Append(R, n) /\ p \in Seq(Item) /\ e \in Nat /\ l \in Nat
      /\ l <= Len(R) /\ conn \in Nat /\ work \in Work \cup {Idle} /\ joined \in SUBSET Nat
      /\ tok[w] \in Nat /\ seen \in SUBSET Row
      /\ Consistent(w, R, p, e, l, conn, work, joined, batch, tok[w], seen, failed)
  BY <1>1, <1>3, <1>5 DEF Shape
<1>7. Consistent(w, R2, p, e, l, conn, work, joined, batch, tok[w], seen, failed)
  BY <1>3, <1>6, GrowStep
<1>8. Queued' /\ StreamerInv(w)'
  BY <1>1, <1>2 DEF Queued, StreamerInv
<1> QED BY <1>2, <1>4, <1>5, <1>7, <1>8, After

(* The head and the tail of the commands of one part.                       *)
LEMMA TailIndex ==
  ASSUME NEW X, NEW s \in Seq(X), s # <<>>
  PROVE  /\ Tail(s) \in Seq(X) /\ Len(s) = Len(Tail(s)) + 1 /\ Len(Tail(s)) \in Nat
         /\ Head(s) = s[1] /\ Head(s) \in X
         /\ \A i \in 1..Len(Tail(s)) : Tail(s)[i] = s[i + 1]
  OBVIOUS

(* Redis passes a command on, or drops it.                                  *)
LEMMA PublishHolds ==
  ASSUME NEW w, Writers = {w}, TypeInv, TypeInv', ReplicaInv, Publish(w)
  PROVE  ReplicaInv'
<1>1. /\ Queued /\ Shape(w) /\ Shape(w)' /\ StreamerInv(w) /\ PipeParts(w) /\ PipeParts(w)'
      /\ Consistent(w, rows[w], Pipe(w), EndTag, str[w].last, conn, work, joined, batch,
                    tok[w], seen, failed)
  BY Before, ShapesNext, PipeHasParts, PipeHasPartsNext
<1>2. UNCHANGED <<rows, str, conn, up, queue, work, joined, batch, tok, seen, failed>>
  BY DEF Publish
<1>3. /\ outbox[w] # <<>> /\ outbox'[w] = Tail(outbox[w])
      /\ net' = IF up THEN Append(net, Head(outbox[w])) ELSE net
  <2>1. outbox \in [Writers -> Seq(Commands)] /\ w \in Writers
    BY DEF TypeInv, TypeOK
  <2> QED BY <2>1 DEF Publish
<1>4. PICK R, p, q, e, l, O, O2, N, N2, Q, c, a, b, d, d1 :
         /\ R = rows[w] /\ p = Pipe(w) /\ q = Pipe(w)' /\ e = EndTag /\ l = str[w].last
         /\ O = outbox[w] /\ O2 = outbox'[w] /\ N = net /\ N2 = net'
         /\ Q = queue /\ c = conn /\ a = Len(Q) /\ b = Len(N) /\ d = Len(O2) /\ d1 = Len(O)
  OBVIOUS
<1>5. EndTag' = e
  BY <1>2, <1>4 DEF EndTag
<1>6. /\ p \in Seq(Item) /\ q \in Seq(Item) /\ e \in Nat /\ l \in Nat
      /\ c \in Nat /\ work \in Work \cup {Idle} /\ joined \in SUBSET Nat
      /\ tok[w] \in Nat /\ O \in Seq(Commands) /\ N \in Seq(Commands)
      /\ Consistent(w, R, p, e, l, conn, work, joined, batch, tok[w], seen, failed)
  BY <1>1, <1>4 DEF Shape
<1>7. /\ O2 = Tail(O) /\ d \in Nat /\ d1 \in Nat /\ d1 = d + 1 /\ Head(O) = O[1]
      /\ Shifted(O, O2, d)
  BY <1>3, <1>4, <1>6, TailIndex DEF Shifted
<1>8. Parts(p, Q, N, O, c, e, a, b, d + 1) /\ a \in Nat /\ b \in Nat
  <2>1. Parts(p, Q, N, O, c, e, a, b, d1)
    BY <1>1, <1>4 DEF PipeParts
  <2>2. a \in Nat /\ b \in Nat
    BY <2>1 DEF Parts
  <2> QED BY <2>1, <2>2, <1>7
<1>9. Parts(q, Q, N2, O2, c, e, a, Len(N2), d)
  BY <1>1, <1>2, <1>4, <1>5 DEF PipeParts
<1>10. Consistent(w, R, q, e, l, conn, work, joined, batch, tok[w], seen, failed)
  <2>1. CASE up
    <3>1. e = c
      BY <2>1, <1>4 DEF EndTag
    <3>2. N2 = Append(N, O[1])
      BY <2>1, <1>3, <1>4, <1>7
    <3>3. Len(N2) = b + 1 /\ Longer(N, N2, b, O[1])
      BY <3>2, <1>4, <1>6 DEF Longer
    <3>4. Parts(p, Q, N, O, c, c, a, b, d + 1) /\ Parts(q, Q, N2, O2, c, c, a, b + 1, d)
      BY <3>1, <3>3, <1>8, <1>9
    <3>5. p = q
      BY <3>3, <3>4, <1>6, <1>7, <1>8, PartsPublish
    <3> QED BY <3>5, <1>6
  <2>2. CASE ~ up
    <3>1. e = c + 1 /\ N = <<>> /\ N2 = N
      BY <2>2, <1>3, <1>4 DEF EndTag, TypeInv, ConnInv
    <3>2. b = 0 /\ Len(N2) = 0
      BY <3>1, <1>4
    <3>3. Parts(p, Q, N, O, c, e, a, 0, d + 1) /\ Parts(q, Q, N, O2, c, e, a, 0, d)
      BY <3>1, <3>2, <1>8, <1>9
    <3>4. Drops(p, q, a) /\ p[a + 1] = [conn |-> e, cmd |-> O[1]]
      BY <3>3, <1>6, <1>7, <1>8, PartsDropLast
    <3>5. p[a + 1].conn = e
      BY <3>4
    <3>6. a # 0 => p[a].conn <= c
      <4>1. a # 0 => a \in 1..a /\ Q[a].conn <= c
        BY <1>1, <1>4, <1>8 DEF Queued
      <4>2. a # 0 => p[a] = Q[a]
        BY <4>1, <1>8 DEF Parts
      <4> QED BY <4>1, <4>2
    <3>7. a # 0 => p[a].conn < p[a + 1].conn
      <4>1. a # 0 => p[a] \in Item
        BY <1>6, <1>8 DEF Parts
      <4>2. a # 0 => p[a].conn \in Nat
        BY <4>1 DEF Item
      <4> QED BY <4>2, <3>1, <3>5, <3>6, <1>6
    <3>8. a = 0 => c < p[1].conn
      BY <3>1, <3>5, <1>6
    <3>9. \/ a = 0 /\ c < p[1].conn
          \/ a # 0 /\ p[a].conn < p[a + 1].conn
          \/ p[a + 1].cmd.type = "POSITION"
      BY <3>7, <3>8
    <3> QED BY <3>4, <3>9, <1>4, <1>6, <1>8, DropStep
  <2> QED BY <2>1, <2>2
<1>11. Queued' /\ StreamerInv(w)'
  BY <1>1, <1>2 DEF Queued, StreamerInv
<1> QED BY <1>2, <1>4, <1>5, <1>10, <1>11, After


(* The replica subscribes: the pipe already has the new connection.         *)
LEMMA SubscribeHolds ==
  ASSUME NEW w, Writers = {w}, TypeInv, TypeInv', ReplicaInv, Subscribe
  PROVE  ReplicaInv'
<1>1. /\ Queued /\ Shape(w) /\ StreamerInv(w)
      /\ Consistent(w, rows[w], Pipe(w), EndTag, str[w].last, conn, work, joined, batch,
                    tok[w], seen, failed)
  BY Before
<1>2. /\ UNCHANGED <<rows, str, outbox, net, queue, work, joined, batch, tok, seen, failed>>
      /\ ~ up /\ up' /\ conn' = conn + 1 /\ net = <<>>
  BY DEF Subscribe, TypeInv, ConnInv
<1>3. EndTag' = EndTag /\ conn \in Nat /\ conn <= conn'
  BY <1>1, <1>2 DEF EndTag, Shape
<1>4. Pipe(w)' = Pipe(w)
  <2>1. Tagged(<<>>, conn) = Tagged(<<>>, conn')
    BY DEF Tagged
  <2> QED BY <2>1, <1>2, <1>3 DEF Pipe
<1>5. PICK R, p, e, l, c, c2, W, J, B, k, S, F :
         /\ R = rows[w] /\ p = Pipe(w) /\ e = EndTag /\ l = str[w].last /\ c = conn /\ c2 = conn'
         /\ W = work /\ J = joined /\ B = batch /\ k = tok[w] /\ S = seen /\ F = failed
  OBVIOUS
<1>6. /\ c \in Nat /\ c2 \in Nat /\ W \in Work \cup {Idle} /\ J \in SUBSET Nat /\ k \in Nat
      /\ Consistent(w, R, p, e, l, c, W, J, B, k, S, F) /\ c <= c2
  BY <1>1, <1>2, <1>3, <1>5 DEF Shape
<1>7. Consistent(w, R, p, e, l, c2, W, J, B, k, S, F)
  <2>1. Keeps(w, R, p, e, l, p, e, l, c) /\ J \in SUBSET J /\ Gapless(w, R, p, e, l)
    BY <1>6 DEF Keeps, Consistent
  <2> QED BY <2>1, <1>6, PipeStep
<1>8. Queued'
  <2> SUFFICES ASSUME NEW i \in 1..Len(queue) PROVE queue[i].conn <= conn'
    BY <1>2 DEF Queued
  <2>1. queue[i] \in Item
    BY <1>1 DEF Shape
  <2>2. queue[i].conn \in Nat /\ queue[i].conn <= conn
    BY <2>1, <1>1 DEF Item, Queued
  <2> QED BY <2>2, <1>2, <1>3
<1>9. StreamerInv(w)'
  BY <1>1, <1>2 DEF StreamerInv
<1> QED BY <1>2, <1>3, <1>4, <1>5, <1>7, <1>8, <1>9, After

(* The replica loses its connection.                                        *)
LEMMA LostHolds ==
  ASSUME NEW w, Writers = {w}, TypeInv, TypeInv', ReplicaInv, Lost
  PROVE  ReplicaInv'
<1>1. /\ Queued /\ Shape(w) /\ Shape(w)' /\ StreamerInv(w) /\ PipeParts(w) /\ PipeParts(w)'
      /\ Consistent(w, rows[w], Pipe(w), EndTag, str[w].last, conn, work, joined, batch,
                    tok[w], seen, failed)
  BY Before, ShapesNext, PipeHasParts, PipeHasPartsNext
<1>2. /\ UNCHANGED <<rows, str, outbox, conn, queue, work, batch, tok, seen, failed>>
      /\ up /\ ~ up' /\ net' = <<>> /\ joined' = joined \ {conn}
  BY DEF Lost, wvars
<1>3. EndTag = conn /\ EndTag' = conn + 1
  BY <1>2 DEF EndTag
<1>4. PICK R, p, q, l, c, W, J, J2, B, k, S, F, Q, N, N2, O, a, b, d :
         /\ R = rows[w] /\ p = Pipe(w) /\ q = Pipe(w)' /\ l = str[w].last /\ c = conn
         /\ W = work /\ J = joined /\ J2 = joined' /\ B = batch /\ k = tok[w] /\ S = seen /\ F = failed
         /\ Q = queue /\ N = net /\ N2 = net' /\ O = outbox[w]
         /\ a = Len(Q) /\ b = Len(N) /\ d = Len(O)
  OBVIOUS
<1>5. /\ l \in Nat /\ c \in Nat /\ W \in Work \cup {Idle} /\ J \in SUBSET Nat /\ k \in Nat
      /\ J2 \in SUBSET J
      /\ p \in Seq(Item) /\ q \in Seq(Item) /\ Consistent(w, R, p, c, l, c, W, J, B, k, S, F)
  BY <1>1, <1>2, <1>3, <1>4 DEF Shape
<1>6. Parts(p, Q, N, O, c, c, a, b, d) /\ Parts(q, Q, N2, O, c, c + 1, a, 0, d)
  <2>1. Len(N2) = 0
    BY <1>2, <1>4
  <2> QED BY <2>1, <1>1, <1>2, <1>3, <1>4 DEF PipeParts
<1>7. a \in Nat /\ b \in Nat /\ d \in Nat
  BY <1>6 DEF Parts
<1>8. Cuts(p, q, c, a, b, d)
  BY <1>5, <1>6, <1>7, PartsCut
<1>9. Consistent(w, R, q, c + 1, l, c, W, J2, B, k, S, F)
  BY <1>5, <1>7, <1>8, CutStep
<1>10. Queued' /\ StreamerInv(w)'
  BY <1>1, <1>2 DEF Queued, StreamerInv
<1> QED BY <1>2, <1>3, <1>4, <1>9, <1>10, After

(* The replica puts a command in its queue, or discards it.                 *)
LEMMA ReceiveHolds ==
  ASSUME NEW w, Writers = {w}, TypeInv, TypeInv', ReplicaInv, Receive
  PROVE  ReplicaInv'
<1>1. /\ Queued /\ Shape(w) /\ Shape(w)' /\ StreamerInv(w) /\ PipeParts(w) /\ PipeParts(w)'
      /\ Consistent(w, rows[w], Pipe(w), EndTag, str[w].last, conn, work, joined, batch,
                    tok[w], seen, failed)
  BY Before, ShapesNext, PipeHasParts, PipeHasPartsNext
<1>2. /\ UNCHANGED <<rows, str, outbox, conn, up, work, joined, batch, tok, seen, failed>>
      /\ net # <<>> /\ net' = Tail(net)
      /\ queue' = IF CanDiscard(conn, Head(net)) THEN queue
                  ELSE Append(queue, [conn |-> conn, cmd |-> Head(net)])
  BY DEF Receive, wvars
<1>3. PICK R, p, q, e, l, c, W, J, B, k, S, F, Q, Q2, N, N2, O, a, b, b1, d :
         /\ R = rows[w] /\ p = Pipe(w) /\ q = Pipe(w)' /\ e = EndTag /\ l = str[w].last
         /\ c = conn /\ W = work /\ J = joined /\ B = batch /\ k = tok[w] /\ S = seen /\ F = failed
         /\ Q = queue /\ Q2 = queue' /\ N = net /\ N2 = net' /\ O = outbox[w]
         /\ a = Len(Q) /\ b = Len(N2) /\ b1 = Len(N) /\ d = Len(O)
  OBVIOUS
<1>4. EndTag' = e
  BY <1>2, <1>3 DEF EndTag
<1>5. /\ e \in Nat /\ l \in Nat /\ c \in Nat /\ W \in Work \cup {Idle} /\ J \in SUBSET Nat
      /\ k \in Nat /\ p \in Seq(Item) /\ q \in Seq(Item) /\ Q \in Seq(Item)
      /\ N \in Seq(Commands)
      /\ Consistent(w, R, p, e, l, c, W, J, B, k, S, F)
  BY <1>1, <1>3 DEF Shape
<1>6. b \in Nat /\ b1 = b + 1 /\ Head(N) = N[1] /\ Shifted(N, N2, b)
  BY <1>2, <1>3, <1>5, TailIndex DEF Shifted
<1>7. Parts(p, Q, N, O, c, e, a, b + 1, d) /\ a \in Nat /\ d \in Nat
  <2>1. Parts(p, Q, N, O, c, e, a, b1, d)
    BY <1>1, <1>3 DEF PipeParts
  <2>2. a \in Nat /\ d \in Nat
    BY <2>1 DEF Parts
  <2> QED BY <2>1, <2>2, <1>6
<1>8. Parts(q, Q2, N2, O, c, e, Len(Q2), b, d)
  BY <1>1, <1>2, <1>3, <1>4 DEF PipeParts
<1>9. CASE CanDiscard(conn, Head(net))
  <2>1. Q2 = Q /\ N[1].type = "POSITION"
    BY <1>2, <1>3, <1>6, <1>9 DEF CanDiscard
  <2>2. Parts(q, Q, N2, O, c, e, a, b, d)
    BY <2>1, <1>3, <1>8
  <2>3. Drops(p, q, a) /\ p[a + 1] = [conn |-> c, cmd |-> N[1]]
    <3>1. c \in Nat /\ e \in Nat /\ b \in Nat /\ Shifted(N, N2, b)
      BY <1>5, <1>6
    <3> QED BY <2>2, <3>1, <1>7, PartsDrop
  <2>4. p[a + 1].cmd.type = "POSITION"
    BY <2>1, <2>3
  <2>5. Consistent(w, R, q, e, l, c, W, J, B, k, S, F)
    BY <2>3, <2>4, <1>5, <1>7, DropStep
  <2>6. Queued' /\ StreamerInv(w)'
    BY <2>1, <1>1, <1>2, <1>3 DEF Queued, StreamerInv
  <2> QED BY <2>5, <2>6, <1>2, <1>3, <1>4, After
<1>10. CASE ~ CanDiscard(conn, Head(net))
  <2>1. Q2 = Append(Q, [conn |-> c, cmd |-> N[1]])
    BY <1>2, <1>3, <1>6, <1>10
  <2>2. Len(Q2) = a + 1 /\ Longer(Q, Q2, a, [conn |-> c, cmd |-> N[1]])
    BY <2>1, <1>3, <1>5 DEF Longer
  <2>3. Parts(q, Q2, N2, O, c, e, a + 1, b, d)
    BY <2>2, <1>8
  <2>4. p = q
    BY <2>2, <2>3, <1>5, <1>6, <1>7, PartsReceive
  <2>5. Consistent(w, R, q, e, l, c, W, J, B, k, S, F)
    BY <2>4, <1>5
  <2>6. Queued'
    <3> SUFFICES ASSUME NEW i \in 1..Len(Q2) PROVE Q2[i].conn <= c
      BY <1>2, <1>3 DEF Queued
    <3>1. CASE i \in 1..a
      <4>1. Q2[i] = Q[i] /\ Q[i].conn <= c
        BY <3>1, <2>2, <1>1, <1>3 DEF Longer, Queued
      <4> QED BY <4>1
    <3>2. CASE i = a + 1
      <4>1. Q2[i] = [conn |-> c, cmd |-> N[1]]
        BY <3>2, <2>2 DEF Longer
      <4> QED BY <4>1, <1>5
    <3> QED BY <3>1, <3>2, <2>2, <1>7
  <2>7. StreamerInv(w)'
    BY <1>1, <1>2 DEF StreamerInv
  <2> QED BY <2>5, <2>6, <2>7, <1>2, <1>3, <1>4, After
<1> QED BY <1>9, <1>10


(* q is p without its head x.                                               *)
Behead(p, q, x) == q = Tail(p) /\ p # <<>> /\ p[1] = x

(* The queue moves on, and the pipe with it.                                *)
LEMMA PartsTail ==
  ASSUME NEW Q, NEW N, NEW O, NEW c \in Nat, NEW e \in Nat, NEW Q2,
         NEW a \in Nat, NEW b \in Nat, NEW d \in Nat,
         NEW p, Parts(p, Q, N, O, c, e, a + 1, b, d),
         NEW q, Parts(q, Q2, N, O, c, e, a, b, d), Shifted(Q, Q2, a)
  PROVE  Behead(p, q, Q[1])
<1>1. PICK a1 \in Nat : a1 = a + 1
  OBVIOUS
<1>2. p \in Seq(Item) /\ q \in Seq(Item) /\ Len(p) = a1 + b + d /\ Len(q) = a + b + d
  BY <1>1 DEF Parts
<1>3. p # <<>> /\ p[1] = Q[1]
  <2>1. 1 \in 1..a1
    BY <1>1
  <2> QED BY <2>1, <1>1, <1>2 DEF Parts
<1>4. /\ Tail(p) \in Seq(Item) /\ Len(Tail(p)) = Len(q)
      /\ \A i \in 1..Len(Tail(p)) : Tail(p)[i] = p[i + 1]
  <2>1. /\ Tail(p) \in Seq(Item) /\ Len(p) = Len(Tail(p)) + 1 /\ Len(Tail(p)) \in Nat
        /\ \A i \in 1..Len(Tail(p)) : Tail(p)[i] = p[i + 1]
    BY <1>2, <1>3, TailIndex
  <2> QED BY <2>1, <1>1, <1>2
<1>5. ASSUME NEW i \in 1..Len(q) PROVE q[i] = p[i + 1]
  <2>1. PICK k \in Nat : k = i + 1
    OBVIOUS
  <2>2. CASE i \in 1..a
    <3>1. k \in 1..a1
      BY <2>1, <2>2, <1>1
    <3>2. q[i] = Q2[i] /\ p[k] = Q[k]
      BY <2>2, <3>1, <1>1 DEF Parts
    <3> QED BY <2>1, <2>2, <3>2 DEF Shifted
  <2>3. CASE i \in (a + 1)..(a + b)
    <3>1. k \in (a1 + 1)..(a1 + b) /\ k - a1 = i - a
      BY <2>1, <2>3, <1>1
    <3>2. p[k] = [conn |-> c, cmd |-> N[i - a]]
      BY <3>1, <1>1 DEF Parts
    <3>3. q[i] = [conn |-> c, cmd |-> N[i - a]]
      BY <2>3 DEF Parts
    <3> QED BY <2>1, <3>2, <3>3
  <2>4. CASE i \in (a + b + 1)..(a + b + d)
    <3>1. k \in (a1 + b + 1)..(a1 + b + d) /\ k - (a1 + b) = i - (a + b)
      BY <2>1, <2>4, <1>1
    <3>2. p[k] = [conn |-> e, cmd |-> O[i - (a + b)]]
      BY <3>1, <1>1 DEF Parts
    <3>3. q[i] = [conn |-> e, cmd |-> O[i - (a + b)]]
      BY <2>4 DEF Parts
    <3> QED BY <2>1, <3>2, <3>3
  <2>5. i \in 1..a \/ i \in (a + 1)..(a + b) \/ i \in (a + b + 1)..(a + b + d)
    BY <1>2
  <2> QED BY <2>2, <2>3, <2>4, <2>5
<1>6. q = Tail(p)
  BY <1>2, <1>4, <1>5, SameSeq
<1> QED BY <1>3, <1>6 DEF Behead

(* Taking a command from the queue takes the head of the pipe.              *)
LEMMA DequeueFrame ==
  ASSUME NEW w, Writers = {w}, TypeInv, TypeInv', ReplicaInv,
         queue # <<>>, queue' = Tail(queue), UNCHANGED <<wvars, conn, up, net>>
  PROVE  /\ Pipe(w)' = Tail(Pipe(w)) /\ Pipe(w) # <<>> /\ Pipe(w)[1] = Head(queue)
         /\ EndTag' = EndTag /\ Queued' /\ StreamerInv(w)'
         /\ Head(queue).conn <= conn
<1>1. /\ Queued /\ Shape(w) /\ Shape(w)' /\ StreamerInv(w) /\ PipeParts(w) /\ PipeParts(w)'
  BY Before, ShapesNext, PipeHasParts, PipeHasPartsNext
<1>2. UNCHANGED <<rows, str, outbox, conn, up, net>>
  BY DEF wvars
<1>3. PICK p, q, e, c, Q, Q2, N, O, a, a1, b, d :
         /\ p = Pipe(w) /\ q = Pipe(w)' /\ e = EndTag /\ c = conn
         /\ Q = queue /\ Q2 = queue' /\ N = net /\ O = outbox[w]
         /\ a = Len(Q2) /\ a1 = Len(Q) /\ b = Len(N) /\ d = Len(O)
  OBVIOUS
<1>4. EndTag' = e
  BY <1>2, <1>3 DEF EndTag
<1>5. c \in Nat /\ e \in Nat /\ Q \in Seq(Item)
  BY <1>1, <1>3 DEF Shape
<1>6. a \in Nat /\ a1 = a + 1 /\ Head(Q) = Q[1] /\ Shifted(Q, Q2, a)
  BY <1>3, <1>5, TailIndex DEF Shifted
<1>7. Parts(p, Q, N, O, c, e, a + 1, b, d) /\ b \in Nat /\ d \in Nat
  <2>1. Parts(p, Q, N, O, c, e, a1, b, d)
    BY <1>1, <1>3 DEF PipeParts
  <2>2. b \in Nat /\ d \in Nat
    BY <2>1 DEF Parts
  <2> QED BY <2>1, <2>2, <1>6
<1>8. Parts(q, Q2, N, O, c, e, a, b, d)
  BY <1>1, <1>2, <1>3, <1>4 DEF PipeParts
<1>9. q = Tail(p) /\ p # <<>> /\ p[1] = Q[1]
  <2>1. c \in Nat /\ e \in Nat /\ a \in Nat /\ Shifted(Q, Q2, a)
    BY <1>5, <1>6
  <2>2. Behead(p, q, Q[1])
    BY <2>1, <1>7, <1>8, PartsTail
  <2> QED BY <2>2 DEF Behead
<1>10. \A i \in 1..a1 : Q[i].conn <= c
  BY <1>1, <1>3 DEF Queued
<1>11. Q[1].conn <= c
  <2>1. 1 \in 1..a1
    BY <1>6
  <2> QED BY <2>1, <1>10
<1>12. \A i \in 1..a : Q2[i].conn <= c
  <2> SUFFICES ASSUME NEW i \in 1..a PROVE Q2[i].conn <= c
    OBVIOUS
  <2>1. PICK k \in 1..a1 : k = i + 1
    BY <1>6
  <2>2. Q2[i] = Q[k]
    BY <2>1, <1>6 DEF Shifted
  <2> QED BY <2>2, <1>10
<1>13. Queued'
  BY <1>12, <1>2, <1>3 DEF Queued
<1>14. StreamerInv(w)'
  BY <1>1, <1>2 DEF StreamerInv
<1> QED BY <1>3, <1>4, <1>6, <1>9, <1>11, <1>13, <1>14


(* An RDATA is processed.                                                   *)
LEMMA ProcessRdataHolds ==
  ASSUME NEW w, Writers = {w}, TypeInv, TypeInv', ReplicaInv, ProcessRdata \/ RdataFails
  PROVE  ReplicaInv'
<1>1. /\ Shape(w)
      /\ Consistent(w, rows[w], Pipe(w), EndTag, str[w].last, conn, work, joined, batch,
                    tok[w], seen, failed)
  BY Before
<1>2. /\ work = Idle /\ queue # <<>> /\ queue' = Tail(queue)
      /\ UNCHANGED <<wvars, conn, up, net, work, joined>>
      /\ Head(queue).cmd.type = "RDATA"
  BY DEF ProcessRdata, RdataFails
<1>3. /\ Pipe(w)' = Tail(Pipe(w)) /\ Pipe(w) # <<>> /\ Pipe(w)[1] = Head(queue)
      /\ EndTag' = EndTag /\ Queued' /\ StreamerInv(w)'
  BY <1>2, DequeueFrame
<1>4. PICK R, p, e, l, c, J, B, k, S, F, x, cmd, f :
         /\ R = rows[w] /\ p = Pipe(w) /\ e = EndTag /\ l = str[w].last /\ c = conn
         /\ J = joined /\ B = batch /\ k = tok[w] /\ S = seen /\ F = failed
         /\ x = Head(queue) /\ cmd = x.cmd /\ f = x.conn
  OBVIOUS
<1>5. /\ R \in Seq(Nat) /\ p \in Seq(Item) /\ p # <<>> /\ e \in Nat /\ l \in Nat /\ c \in Nat
      /\ J \in SUBSET Nat /\ B \in SUBSET Row /\ k \in Nat /\ p[1] = x
      /\ Consistent(w, R, p, e, l, c, Idle, J, B, k, S, F)
  BY <1>1, <1>2, <1>3, <1>4 DEF Shape
<1>6. cmd \in Commands /\ cmd.type = "RDATA" /\ cmd.writer = w /\ cmd.token \in Nat
  <2>1. x \in Item
    BY <1>5
  <2>2. cmd \in Commands
    BY <2>1, <1>4 DEF Item
  <2> QED BY <2>2, <1>2, <1>4, CommandFields, ReplicationAssumption DEF Tokens
<1>7. /\ rows'[w] = R /\ Pipe(w)' = Tail(p) /\ EndTag' = e /\ str'[w].last = l /\ conn' = c
      /\ work' = Idle /\ joined' = J
  BY <1>2, <1>3, <1>4 DEF wvars
<1>8. ASSUME NEW B2, NEW k2, NEW S2, NEW F2, batch' = B2, tok'[w] = k2, seen' = S2, failed' = F2,
             Consistent(w, R, Tail(p), e, l, c, Idle, J, B2, k2, S2, F2)
      PROVE  ReplicaInv'
  BY <1>3, <1>7, <1>8, After
<1>9. CASE ProcessRdata /\ f \notin J
  <2>1. UNCHANGED <<batch, tok, seen, failed>>
    BY <1>4, <1>9 DEF ProcessRdata
  <2>2. p[1].conn \notin J
    BY <1>4, <1>5, <1>9
  <2>3. Consistent(w, R, Tail(p), e, l, c, Idle, J, B, k, S, F)
    BY <2>2, <1>5, IgnoreStep
  <2> QED BY <2>1, <2>3, <1>4, <1>8
<1>10. CASE ProcessRdata /\ f \in J /\ cmd.token = 0
  <2>1. batch' = B \cup {cmd.row} /\ UNCHANGED <<tok, seen, failed>>
    BY <1>4, <1>10 DEF ProcessRdata
  <2>2. p[1].conn \in J /\ Open(p[1].cmd) /\ p[1].cmd.row = cmd.row
    BY <1>4, <1>5, <1>6, <1>10 DEF Open
  <2>3. Consistent(w, R, Tail(p), e, l, c, Idle, J, B \cup {p[1].cmd.row}, k, S, F)
    BY <2>2, <1>5, OpenStep
  <2>4. batch' = B \cup {p[1].cmd.row} /\ tok'[w] = k /\ seen' = S /\ failed' = F
    BY <2>1, <2>2, <1>4
  <2> QED BY <2>3, <2>4, <1>8
<1>11. CASE ProcessRdata /\ f \in J /\ cmd.token # 0
  <2>1. /\ batch' = {} /\ failed' = F
        /\ IF cmd.token <= k THEN UNCHANGED <<tok, seen>>
           ELSE OnRdata(w, cmd.token, B \cup {cmd.row})
    BY <1>4, <1>6, <1>11 DEF ProcessRdata
  <2>2. PICK t \in Nat : t = cmd.token
    BY <1>6
  <2>3. p[1].conn \in J /\ p[1].cmd = cmd
    BY <1>4, <1>5, <1>11
  <2>4. CASE t <= k
    <3>1. ~ Open(p[1].cmd) /\ Reaches(p[1].cmd) <= k
      BY <2>2, <2>3, <2>4, <1>6, <1>11 DEF Open, Reaches
    <3>2. Consistent(w, R, Tail(p), e, l, c, Idle, J, {}, k, S, F)
      BY <3>1, <1>5, OldStep
    <3>3. batch' = {} /\ tok'[w] = k /\ seen' = S
      BY <2>1, <2>2, <2>4, <1>4
    <3> QED BY <3>2, <3>3, <2>1, <1>8
  <2>5. CASE ~ (t <= k)
    <3>1. k < t /\ Completes(p[1].cmd, t)
      BY <2>2, <2>3, <2>5, <1>5, <1>6 DEF Completes
    <3>2. Consistent(w, R, Tail(p), e, l, c, Idle, J, {}, t, S \cup (B \cup {p[1].cmd.row}), F)
      BY <3>1, <2>3, <1>5, RdataStep
    <3>3. tok \in [Writers -> Tokens] /\ w \in Writers
      BY DEF TypeInv, TypeOK
    <3>4. tok'[w] = t /\ seen' = S \cup (B \cup {cmd.row})
      BY <2>1, <2>2, <2>5, <3>1, <3>3, <1>4, <1>5 DEF OnRdata, Larger
    <3>5. seen' = S \cup (B \cup {p[1].cmd.row})
      BY <3>4, <2>3
    <3> QED BY <2>1, <3>2, <3>4, <3>5, <1>8
  <2> QED BY <2>4, <2>5
<1>12. CASE RdataFails
  <2>1. /\ f \in J /\ UNCHANGED <<tok, seen>>
        /\ \/ failed' = F \cup {cmd.row} /\ batch' = B
           \/ k < cmd.token /\ failed' = F \cup (B \cup {cmd.row}) /\ batch' = {}
    BY <1>4, <1>6, <1>12 DEF RdataFails
  <2>2. p[1].conn \in J /\ p[1].cmd = cmd
    BY <2>1, <1>4, <1>5
  <2>3. PICK t \in Nat : t = cmd.token
    BY <1>6
  <2>4. tok'[w] = k /\ seen' = S
    BY <2>1, <1>4
  <2>5. CASE t = 0
    <3>1. Open(p[1].cmd)
      BY <2>2, <2>3, <2>5, <1>6 DEF Open
    <3>2. Consistent(w, R, Tail(p), e, l, c, Idle, J, B, k, S, F \cup {p[1].cmd.row})
      BY <3>1, <2>2, <1>5, OpenStep
    <3>3. failed' = F \cup {p[1].cmd.row} /\ batch' = B
      BY <2>1, <2>2, <2>3, <2>5, <1>5
    <3> QED BY <3>2, <3>3, <2>4, <1>8
  <2>6. CASE t # 0
    <3>1. Completes(p[1].cmd, t)
      BY <2>2, <2>3, <1>6 DEF Completes
    <3>2. /\ Consistent(w, R, Tail(p), e, l, c, Idle, J, B, k, S, F \cup {p[1].cmd.row})
          /\ Consistent(w, R, Tail(p), e, l, c, Idle, J, {}, k, S, F \cup (B \cup {p[1].cmd.row}))
      BY <3>1, <2>2, <2>6, <1>5, CloseFailStep
    <3>3. CASE failed' = F \cup {cmd.row} /\ batch' = B
      <4>1. failed' = F \cup {p[1].cmd.row}
        BY <3>3, <2>2
      <4> QED BY <4>1, <3>2, <3>3, <2>4, <1>8
    <3>4. CASE failed' = F \cup (B \cup {cmd.row}) /\ batch' = {}
      <4>1. failed' = F \cup (B \cup {p[1].cmd.row})
        BY <3>4, <2>2
      <4> QED BY <4>1, <3>2, <3>4, <2>4, <1>8
    <3> QED BY <3>3, <3>4, <2>1
  <2> QED BY <2>5, <2>6
<1> QED BY <1>9, <1>10, <1>11, <1>12

(* A POSITION is taken from the queue.                                      *)
LEMMA ProcessPositionHolds ==
  ASSUME NEW w, Writers = {w}, TypeInv, TypeInv', ReplicaInv, ProcessPosition
  PROVE  ReplicaInv'
<1>1. /\ Shape(w)
      /\ Consistent(w, rows[w], Pipe(w), EndTag, str[w].last, conn, work, joined, batch,
                    tok[w], seen, failed)
  BY Before
<1>2. /\ work = Idle /\ queue # <<>> /\ queue' = Tail(queue)
      /\ UNCHANGED <<wvars, conn, up, net, tok, seen, failed>>
      /\ Head(queue).cmd.type = "POSITION"
  BY DEF ProcessPosition
<1>3. /\ Pipe(w)' = Tail(Pipe(w)) /\ Pipe(w) # <<>> /\ Pipe(w)[1] = Head(queue)
      /\ EndTag' = EndTag /\ Queued' /\ StreamerInv(w)' /\ Head(queue).conn <= conn
  BY <1>2, DequeueFrame
<1>4. PICK R, p, e, l, c, J, B, k, S, F, x, cmd, f :
         /\ R = rows[w] /\ p = Pipe(w) /\ e = EndTag /\ l = str[w].last /\ c = conn
         /\ J = joined /\ B = batch /\ k = tok[w] /\ S = seen /\ F = failed
         /\ x = Head(queue) /\ cmd = x.cmd /\ f = x.conn
  OBVIOUS
<1>5. /\ R \in Seq(Nat) /\ p \in Seq(Item) /\ p # <<>> /\ e \in Nat /\ l \in Nat /\ c \in Nat
      /\ J \in SUBSET Nat /\ k \in Nat /\ p[1] = x
      /\ Consistent(w, R, p, e, l, c, Idle, J, B, k, S, F)
  BY <1>1, <1>2, <1>3, <1>4 DEF Shape
<1>6. cmd.type = "POSITION" /\ cmd.writer = w /\ p[1].cmd = cmd /\ p[1].conn = f /\ f <= c
  <2>1. x \in Item
    BY <1>5
  <2>2. cmd \in Commands
    BY <2>1, <1>4 DEF Item
  <2> QED BY <2>2, <1>2, <1>3, <1>4, <1>5, CommandFields
<1>7. /\ rows'[w] = R /\ Pipe(w)' = Tail(p) /\ EndTag' = e /\ str'[w].last = l /\ conn' = c
      /\ tok'[w] = k /\ seen' = S /\ failed' = F
  BY <1>2, <1>3, <1>4 DEF wvars
<1>8. ASSUME NEW W2, NEW J2, NEW B2, work' = W2, joined' = J2, batch' = B2,
             Consistent(w, R, Tail(p), e, l, c, W2, J2, B2, k, S, F)
      PROVE  ReplicaInv'
  BY <1>3, <1>7, <1>8, After
<1>9. CASE CanDiscard(f, cmd)
  <2>1. work' = Idle /\ joined' = J /\ batch' = B
    BY <1>2, <1>4, <1>9 DEF ProcessPosition
  <2>3. Consistent(w, R, Tail(p), e, l, c, Idle, J, B, k, S, F)
    BY <1>5, <1>6, DiscardStep
  <2> QED BY <2>1, <2>3, <1>8
<1>10. CASE ~ CanDiscard(f, cmd)
  <2>1. PICK W : W = [at |-> IF cmd.prev <= k /\ k <= cmd.new THEN "end" ELSE "fetch",
                      conn |-> f, cmd |-> cmd, from |-> k]
    OBVIOUS
  <2>2. joined' = {} /\ batch' = {} /\ work' = W
    BY <2>1, <1>4, <1>6, <1>10 DEF ProcessPosition, UpToDate
  <2>3. Consistent(w, R, Tail(p), e, l, c, W, {}, {}, k, S, F)
    BY <2>1, <1>5, <1>6, PositionStep
  <2> QED BY <2>2, <2>3, <1>8
<1> QED BY <1>9, <1>10


(* The steps that work on a POSITION leave the pipe alone.                  *)
LEMMA WorkFrame ==
  ASSUME NEW w, Writers = {w}, TypeInv, ReplicaInv, UNCHANGED <<wvars, conn, up, net, queue>>
  PROVE  /\ Pipe(w)' = Pipe(w) /\ EndTag' = EndTag /\ Queued' /\ StreamerInv(w)'
         /\ rows' = rows /\ str' = str
<1>1. Queued /\ StreamerInv(w)
  BY Before
<1>2. UNCHANGED <<rows, str, outbox, conn, up, net, queue>>
  BY DEF wvars
<1>3. EndTag' = EndTag
  BY <1>2 DEF EndTag
<1>4. Pipe(w)' = Pipe(w)
  BY <1>2, <1>3 DEF Pipe
<1>5. Queued' /\ StreamerInv(w)'
  BY <1>1, <1>2 DEF Queued, StreamerInv
<1> QED BY <1>2, <1>3, <1>4, <1>5

(* Only a POSITION in work has a step to take.                              *)
LEMMA AtWork ==
  ASSUME TypeInv, work.at \in {"fetch", "end"}
  PROVE  work \in Work /\ work # Idle
<1>1. work \in Work \cup {Idle}
  BY DEF TypeInv, TypeOK
<1>2. work # Idle
  BY DEF Idle
<1> QED BY <1>1, <1>2

(* The rows after token f and up to token u are handed to on_rdata.          *)
LEMMA UpdatesApplied ==
  ASSUME NEW w, Writers = {w}, TypeInv, NEW f \in Nat, NEW u \in Nat, OnUpdates(w, f, u)
  PROVE  \E T, k2 : /\ Fetched(w, rows[w], f, u, T)
                    /\ k2 \in Nat /\ (k2 = tok[w] \/ k2 <= u)
                    /\ tok'[w] = k2 /\ seen' = seen \cup T
<1>1. /\ w \in Writers /\ rows[w] \in Seq(0..MaxBatch) /\ tok \in [Writers -> Tokens]
      /\ tok[w] \in Nat /\ TypeOK
  BY ReplicationAssumption DEF TypeInv, TypeOK, Tokens
<1>2. PICK R, T, m : /\ R = rows[w]
                     /\ T = {r \in Row : r[1] = w /\ r[2] \in (f + 1)..u /\ r[3] <= R[r[2]]}
                     /\ m = Max({0} \cup {r[2] : r \in T})
  OBVIOUS
<1>3. OnRdata(w, m, T)
  BY <1>2 DEF OnUpdates
<1>4. T \subseteq Row /\ \A r \in T : r[1] = w /\ r[2] \in (f + 1)..u
  BY <1>2
<1>5. m \in Nat /\ m <= u
  <2>1. m \in {0} \cup {r[2] : r \in T} /\ m \in Tokens
    BY <1>2, <1>4, FetchedRows
  <2>2. m = 0 \/ m \in (f + 1)..u
    BY <2>1, <1>4
  <2> QED BY <2>2
<1>6. ASSUME NEW t \in 1..Len(R), NEW i \in 1..R[t], t \in (f + 1)..u
      PROVE  <<w, t, i>> \in T
  <2>1. R[t] \in 0..MaxBatch /\ t \in 1..MaxToken
    BY <1>1, <1>2, RowCount
  <2>2. <<w, t, i>> \in Row
    BY <2>1, <1>1, ReplicationAssumption DEF Row
  <2>3. i <= R[t]
    BY <2>1
  <2> QED BY <2>2, <2>3, <1>2, <1>6
<1>7. Fetched(w, rows[w], f, u, T)
  BY <1>2, <1>4, <1>6 DEF Fetched
<1>8. PICK k2 : k2 = Larger(tok[w], m)
  OBVIOUS
<1>9. k2 \in Nat /\ (k2 = tok[w] \/ k2 <= u)
  BY <1>1, <1>5, <1>8 DEF Larger
<1>10. tok'[w] = k2 /\ seen' = seen \cup T
  BY <1>1, <1>3, <1>8 DEF OnRdata
<1> QED BY <1>7, <1>9, <1>10

(* What is missing is fetched.                                              *)
LEMMA CatchUpHolds ==
  ASSUME NEW w, Writers = {w}, TypeInv, TypeInv', ReplicaInv, CatchUp
  PROVE  ReplicaInv'
<1>1. /\ Shape(w)
      /\ Consistent(w, rows[w], Pipe(w), EndTag, str[w].last, conn, work, joined, batch,
                    tok[w], seen, failed)
  BY Before
<1>2. work.at = "fetch" /\ UNCHANGED <<wvars, conn, up, net, queue, joined, batch, failed>>
  BY DEF CatchUp
<1>3. work \in Work /\ work # Idle
  BY <1>2, AtWork
<1>4. /\ Pipe(w)' = Pipe(w) /\ EndTag' = EndTag /\ Queued' /\ StreamerInv(w)'
      /\ rows' = rows /\ str' = str
  BY <1>2, WorkFrame
<1>5. PICK R, p, e, l, c, W, J, B, k, S, F, f, n :
         /\ R = rows[w] /\ p = Pipe(w) /\ e = EndTag /\ l = str[w].last /\ c = conn
         /\ W = work /\ J = joined /\ B = batch /\ k = tok[w] /\ S = seen /\ F = failed
         /\ f = W.from /\ n = W.cmd.new
  OBVIOUS
<1>6. /\ R \in Seq(Nat) /\ k \in Nat /\ W \in Work /\ W # Idle
      /\ Consistent(w, R, p, e, l, c, W, J, B, k, S, F)
  BY <1>1, <1>3, <1>5 DEF Shape
<1>7. f \in Nat /\ n \in Nat /\ W.cmd.writer = w /\ W.cmd.type = "POSITION"
  BY <1>5, <1>6, WorkFields DEF Position
<1>8. PICK u \in IF f < n THEN (f + 1)..n ELSE {n} :
         /\ OnUpdates(w, f, u)
         /\ work' = [W EXCEPT !.at = IF u < n THEN "fetch" ELSE "end", !.from = u]
  BY <1>5, <1>7 DEF CatchUp
<1>9. u \in Nat /\ u <= n
  BY <1>7, <1>8
<1>10. PICK T, k2 : /\ Fetched(w, rows[w], f, u, T)
                    /\ k2 \in Nat /\ (k2 = tok[w] \/ k2 <= u)
                    /\ tok'[w] = k2 /\ seen' = seen \cup T
  BY <1>7, <1>8, <1>9, UpdatesApplied
<1>11. PICK W2 : W2 = [W EXCEPT !.at = IF u < n THEN "fetch" ELSE "end", !.from = u]
  OBVIOUS
<1>12. Consistent(w, R, p, e, l, c, W2, J, B, k2, S \cup T, F)
  <2>1. Fetched(w, R, f, u, T) /\ f = W.from /\ n = W.cmd.new /\ (k2 = k \/ k2 <= u)
    BY <1>5, <1>10
  <2> QED BY <2>1, <1>6, <1>7, <1>9, <1>10, <1>11, CatchUpStep
<1>13. work' = W2 /\ tok'[w] = k2 /\ seen' = S \cup T /\ failed' = F
  BY <1>2, <1>5, <1>8, <1>10, <1>11
<1> QED BY <1>2, <1>4, <1>5, <1>12, <1>13, After

(* The work on a POSITION fails, when some of it has been done.              *)
LEMMA PositionFailsHolds ==
  ASSUME NEW w, Writers = {w}, TypeInv, TypeInv', ReplicaInv, PositionFails
  PROVE  ReplicaInv'
<1>1. /\ Shape(w)
      /\ Consistent(w, rows[w], Pipe(w), EndTag, str[w].last, conn, work, joined, batch,
                    tok[w], seen, failed)
  BY Before
<1>2. /\ work # Idle /\ work' = Idle
      /\ UNCHANGED <<wvars, conn, up, net, queue, joined, batch, failed>>
  BY DEF PositionFails
<1>3. work \in Work
  BY <1>1, <1>2 DEF Shape
<1>4. /\ Pipe(w)' = Pipe(w) /\ EndTag' = EndTag /\ Queued' /\ StreamerInv(w)'
      /\ rows' = rows /\ str' = str
  BY <1>2, WorkFrame
<1>5. PICK R, p, e, l, c, W, J, B, k, S, F, f, n :
         /\ R = rows[w] /\ p = Pipe(w) /\ e = EndTag /\ l = str[w].last /\ c = conn
         /\ W = work /\ J = joined /\ B = batch /\ k = tok[w] /\ S = seen /\ F = failed
         /\ f = W.from /\ n = W.cmd.new
  OBVIOUS
<1>6. /\ R \in Seq(Nat) /\ p \in Seq(Item) /\ e \in Nat /\ l \in Nat
      /\ k \in Nat /\ W \in Work /\ W # Idle
      /\ Consistent(w, R, p, e, l, c, W, J, B, k, S, F)
  BY <1>1, <1>2, <1>3, <1>5 DEF Shape
<1>7. f \in Nat /\ n \in Nat /\ W.cmd.writer = w
  BY <1>5, <1>6, WorkFields DEF Position
<1>8. ASSUME NEW k2, NEW S2, tok'[w] = k2, seen' = S2,
             Consistent(w, R, p, e, l, c, Idle, J, B, k2, S2, F)
      PROVE  ReplicaInv'
  BY <1>2, <1>4, <1>5, <1>8, After
<1>9. CASE W.at = "fetch" /\ \E u \in f..n : OnUpdates(w, f, u)
  <2>1. PICK u \in f..n : OnUpdates(w, f, u)
    BY <1>9
  <2>2. u \in Nat /\ u <= n
    BY <2>1, <1>7
  <2>3. PICK T, k2 : /\ Fetched(w, rows[w], f, u, T)
                     /\ k2 \in Nat /\ (k2 = tok[w] \/ k2 <= u)
                     /\ tok'[w] = k2 /\ seen' = seen \cup T
    BY <2>1, <2>2, <1>7, UpdatesApplied
  <2>4. PICK W2 : W2 = [W EXCEPT !.at = IF u < n THEN "fetch" ELSE "end", !.from = u]
    OBVIOUS
  <2>5. Consistent(w, R, p, e, l, c, W2, J, B, k2, S \cup T, F)
    <3>1. Fetched(w, R, f, u, T) /\ f = W.from /\ n = W.cmd.new /\ (k2 = k \/ k2 <= u)
      BY <1>5, <2>3
    <3> QED BY <3>1, <1>6, <1>7, <2>2, <2>3, <2>4, CatchUpStep
  <2>6. W2 # Idle
    <3>1. DOMAIN W2 = {"at", "conn", "cmd", "from"} /\ DOMAIN Idle = {"at"}
      BY <2>4, <1>6 DEF Work, Idle
    <3> QED BY <3>1
  <2>7. Consistent(w, R, p, e, l, c, Idle, J, B, k2, S \cup T, F)
    BY <2>5, <2>6, FailStep
  <2> QED BY <2>3, <2>7, <1>5, <1>8
<1>10. CASE W.at = "end" /\ OnRdata(w, n, {})
  <2>1. PICK k2 : k2 = Larger(k, W.cmd.new)
    OBVIOUS
  <2>2. tok'[w] = k2 /\ seen' = S
    <3>1. tok \in [Writers -> Tokens] /\ w \in Writers
      BY DEF TypeInv, TypeOK
    <3> QED BY <2>1, <3>1, <1>5, <1>10 DEF OnRdata
  <2>3. J \in SUBSET (J \cup {W.conn})
    OBVIOUS
  <2>4. Consistent(w, R, p, e, l, c, Idle, J, B, k2, S, F)
    BY <2>1, <2>3, <1>6, <1>10, DoneStep
  <2> QED BY <2>2, <2>4, <1>8
<1>11. CASE UNCHANGED <<tok, seen>>
  <2>1. Consistent(w, R, p, e, l, c, Idle, J, B, k, S, F)
    BY <1>6, FailStep
  <2> QED BY <2>1, <1>5, <1>8, <1>11
<1> QED BY <1>5, <1>7, <1>9, <1>10, <1>11 DEF PositionFails

(* The position moves on, and the stream is connected.                      *)
LEMMA PositionDoneHolds ==
  ASSUME NEW w, Writers = {w}, TypeInv, TypeInv', ReplicaInv, PositionDone
  PROVE  ReplicaInv'
<1>1. /\ Shape(w)
      /\ Consistent(w, rows[w], Pipe(w), EndTag, str[w].last, conn, work, joined, batch,
                    tok[w], seen, failed)
  BY Before
<1>2. /\ work.at = "end" /\ work' = Idle /\ joined' = joined \cup {work.conn}
      /\ OnRdata(work.cmd.writer, work.cmd.new, {})
      /\ UNCHANGED <<wvars, conn, up, net, queue, batch, failed>>
  BY DEF PositionDone
<1>3. work \in Work /\ work # Idle
  BY <1>2, AtWork
<1>4. /\ Pipe(w)' = Pipe(w) /\ EndTag' = EndTag /\ Queued' /\ StreamerInv(w)'
      /\ rows' = rows /\ str' = str
  BY <1>2, WorkFrame
<1>5. PICK R, p, e, l, c, W, J, B, k, S, F, k2, J2 :
         /\ R = rows[w] /\ p = Pipe(w) /\ e = EndTag /\ l = str[w].last /\ c = conn
         /\ W = work /\ J = joined /\ B = batch /\ k = tok[w] /\ S = seen /\ F = failed
         /\ k2 = Larger(k, W.cmd.new) /\ J2 = joined'
  OBVIOUS
<1>6. /\ R \in Seq(Nat) /\ p \in Seq(Item) /\ e \in Nat /\ l \in Nat
      /\ k \in Nat /\ W \in Work /\ W # Idle /\ W.at = "end"
      /\ Consistent(w, R, p, e, l, c, W, J, B, k, S, F)
  BY <1>1, <1>2, <1>3, <1>5 DEF Shape
<1>7. W.cmd.writer = w
  BY <1>6, WorkFields DEF Position
<1>8. tok'[w] = k2 /\ seen' = S /\ failed' = F
  <2>1. tok \in [Writers -> Tokens] /\ w \in Writers
    BY DEF TypeInv, TypeOK
  <2> QED BY <2>1, <1>2, <1>5, <1>7 DEF OnRdata
<1>9. Consistent(w, R, p, e, l, c, Idle, J2, B, k2, S, F)
  <2>1. J2 \in SUBSET (J \cup {W.conn})
    BY <1>2, <1>5
  <2> QED BY <2>1, <1>5, <1>6, DoneStep
<1> QED BY <1>2, <1>4, <1>5, <1>8, <1>9, After


-----------------------------------------------------------------------------
(* One writer whose connection is never lost.                               *)
OneWriter == MaxOutages = 0 /\ \E w : Writers = {w}

(* The invariant holds at the start, with the stream connected or not.      *)
LEMMA InitHolds ==
  ASSUME NEW w, Writers = {w}, Init
  PROVE  ReplicaInv
<1>1. TypeInv
  BY InitType
<1>2. w \in Writers
  OBVIOUS
<1>3. /\ rows[w] = <<>> /\ str[w].last = 0 /\ str[w].link = "up" /\ str[w].at = "idle"
      /\ outbox[w] = <<>> /\ net = <<>> /\ queue = <<>> /\ work = Idle /\ batch = {}
      /\ tok[w] = 0 /\ seen = {} /\ failed = {} /\ conn \in Nat
  BY <1>2 DEF Init
<1>4. Pipe(w) = <<>>
  <2>1. \A x : Tagged(<<>>, x) = <<>>
    BY DEF Tagged
  <2> QED BY <2>1, <1>3 DEF Pipe
<1>5. PICK e, J, c : e = EndTag /\ J = joined /\ c = conn /\ c \in Nat /\ \A d \in J : d <= c
  <2>1. \A d \in joined : d <= conn
    <3>1. CASE Settled
      <4>1. joined = {1} /\ conn = 1
        BY <3>1 DEF Init
      <4> QED BY <4>1
    <3>2. CASE ~ Settled
      <4>1. joined = {}
        BY <3>2 DEF Init
      <4> QED BY <4>1
    <3> QED BY <3>1, <3>2
  <2> QED BY <2>1, <1>3
<1>6. Empty(<<>>, 0, 0)
  BY DEF Empty
<1>7. Consistent(w, <<>>, <<>>, e, 0, c, Idle, J, {}, 0, {}, {})
  <2>1. Gapless(w, <<>>, <<>>, e, 0)
    BY DEF Gapless
  <2>2. \A d \in J : d <= c /\ Cursor(w, <<>>, <<>>, e, 0, d, 0, {})
    BY <1>5, <1>6 DEF Cursor
  <2>3. /\ Covered(w, <<>>, {} \cup {}, 0) /\ Covered(w, <<>>, ({} \cup {}) \cup {}, 0)
        /\ Whole(w, <<>>, {}, {})
    BY DEF Covered, Whole
  <2>4. Point(w, <<>>, <<>>, e, 0, J, {}, {} \cup {}, 0, {})
    BY <2>2, <2>3 DEF Point
  <2> QED BY <2>1, <2>2, <2>3, <2>4 DEF Consistent
<1>8. Held(w)
  BY <1>3, <1>4, <1>5, <1>7 DEF Held
<1>9. StreamerInv(w) /\ Queued
  BY <1>3 DEF StreamerInv, Queued
<1> QED BY <1>1, <1>8, <1>9, HeldTo

(* Every step keeps the invariant: one case per action.                     *)
LEMMA NextHolds ==
  ASSUME OneWriter, TypeInv, TypeInv', ReplicaInv, Next
  PROVE  ReplicaInv'
<1>1. PICK w : Writers = {w} /\ MaxOutages = 0
  BY DEF OneWriter
<1>2. CASE \E v \in Writers, n \in 0..MaxBatch : Write(v, n)
  <2>1. PICK n \in 0..MaxBatch : Write(w, n)
    BY <1>1, <1>2
  <2> QED BY <2>1, <1>1, WriteHolds
<1>3. CASE \E v \in Writers : \/ Poke(v) \/ Loop(v) \/ Stream(v) \/ StreamFails(v)
                              \/ OnReplicate(v) \/ WriterLost(v) \/ WriterSubscribed(v)
                              \/ WriterReplicates(v)
  <2>1. \/ Poke(w) \/ Loop(w) \/ Stream(w) \/ StreamFails(w) \/ OnReplicate(w)
        \/ WriterLost(w) \/ WriterSubscribed(w) \/ WriterReplicates(w)
    BY <1>1, <1>3
  <2> QED BY <2>1, <1>1, WriterHolds
<1>4. CASE \E v \in Writers : Publish(v)
  <2>1. Publish(w)
    BY <1>1, <1>4
  <2> QED BY <2>1, <1>1, PublishHolds
<1>5. CASE Subscribe
  BY <1>1, <1>5, SubscribeHolds
<1>6. CASE Lost
  BY <1>1, <1>6, LostHolds
<1>7. CASE Receive
  BY <1>1, <1>7, ReceiveHolds
<1>8. CASE ProcessRdata \/ RdataFails
  BY <1>1, <1>8, ProcessRdataHolds
<1>9. CASE ProcessPosition
  BY <1>1, <1>9, ProcessPositionHolds
<1>10. CASE CatchUp
  BY <1>1, <1>10, CatchUpHolds
<1>11. CASE PositionFails
  BY <1>1, <1>11, PositionFailsHolds
<1>12. CASE PositionDone
  BY <1>1, <1>12, PositionDoneHolds
<1> QED BY <1>2, <1>3, <1>4, <1>5, <1>6, <1>7, <1>8, <1>9, <1>10, <1>11, <1>12 DEF Next

(* So does a step that changes nothing here.                                *)
LEMMA StutterHolds ==
  ASSUME OneWriter, TypeInv, TypeInv', ReplicaInv, UNCHANGED vars
  PROVE  ReplicaInv'
<1>1. PICK w : Writers = {w}
  BY DEF OneWriter
<1>2. UNCHANGED <<rows, outbox, rvars, str>>
  BY DEF vars, wvars
<1>3. StreamerInv(w)' /\ str'[w].last = str[w].last
  BY <1>1, <1>2, Before DEF StreamerInv
<1> QED BY <1>1, <1>2, <1>3, QuietStep

(* For one writer that keeps its connection, whatever the replica loses and  *)
(* whatever raises: commands are on their way without a gap, every          *)
(* connection in _streams_by_connection goes on where the replica has taken *)
(* everything, and what a POSITION makes it fetch is complete.              *)
THEOREM ReplicaInvariant ==
  ASSUME OneWriter
  PROVE  Spec => []ReplicaInv
<1>1. Init => ReplicaInv
  BY InitHolds DEF OneWriter
<1>2. TypeInv /\ TypeInv' /\ ReplicaInv /\ [Next]_vars => ReplicaInv'
  BY NextHolds, StutterHolds
<1> QED BY <1>1, <1>2, TypesInvariant, PTL DEF Spec

(* For one writer, the replica never moves its position past a row that it   *)
(* has neither processed nor failed to process (on_rdata, or the parsing     *)
(* before it, has raised), however its connection comes and goes.           *)
THEOREM OneWriterSkipsNoRow ==
  ASSUME OneWriter
  PROVE  Spec => []NoRowSkipped
<1>1. TypeInv /\ ReplicaInv => NoRowSkipped
  <2> SUFFICES ASSUME TypeInv, ReplicaInv, NEW v \in Writers
               PROVE  \A t \in 1..tok[v] :
                         t <= Len(rows[v]) /\ \A i \in 1..rows[v][t] : <<v, t, i>> \in seen \cup failed
    BY DEF NoRowSkipped
  <2>1. Covered(v, rows[v], seen \cup failed, tok[v])
    BY DEF ReplicaInv, SeenInv, Handled
  <2>2. tok[v] \in Nat /\ Len(rows[v]) \in Nat
    BY ReplicationAssumption DEF TypeInv, TypeOK, Tokens
  <2> QED BY <2>1, <2>2 DEF Covered
<1> QED BY <1>1, ReplicaInvariant, TypesInvariant, PTL

(* For one writer, the rows of a token are processed together or not at all, *)
(* but for those whose processing has raised, although a batch may be cut by *)
(* a lost connection or by a POSITION.                                      *)
THEOREM OneWriterBatchesWhole ==
  ASSUME OneWriter
  PROVE  Spec => []BatchesAreWhole
<1>1. ReplicaInv => BatchesAreWhole
  BY DEF ReplicaInv
<1> QED BY <1>1, ReplicaInvariant, PTL

=============================================================================
