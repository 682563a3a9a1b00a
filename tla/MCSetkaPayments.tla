-------------------------- MODULE MCSetkaPayments --------------------------
(* SetkaPayments for TLC.                                                    *)
EXTENDS SetkaPayments, TLC

CONSTANTS p1, p2, p3

Mixed == p1 :> "payanyway" @@ p2 :> "yoomoney" @@ p3 :> "payanyway"

Symmetry == Permutations(Requests) \cup Permutations({p1, p3})

=============================================================================
