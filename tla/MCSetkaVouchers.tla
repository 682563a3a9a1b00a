-------------------------- MODULE MCSetkaVouchers --------------------------
(* SetkaVouchers for TLC: the requests, users and administrators are        *)
(* interchangeable.                                                         *)
EXTENDS SetkaVouchers, TLC

Symmetry ==
    Permutations(Requests) \cup Permutations(Users) \cup Permutations(Codes)
        \cup Permutations(Admins)

=============================================================================
