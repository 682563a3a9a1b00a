------------------------- MODULE MCMultiWriterIdGen -------------------------
(* Instances of MultiWriterIdGen for TLC.  Writers, readers and tasks are   *)
(* interchangeable, so each set is a symmetry set.                          *)
EXTENDS MultiWriterIdGen, TLC

Symmetry == Permutations(Writers) \cup Permutations(Readers) \cup Permutations(Tasks)
=============================================================================
