------------------------ MODULE MCStreamReplication ------------------------
(* StreamReplication for TLC.                                                *)
EXTENDS StreamReplication, TLC

Symmetry == Permutations(Writers)

=============================================================================
