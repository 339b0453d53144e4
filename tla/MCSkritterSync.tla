--------------------------- MODULE MCSkritterSync ---------------------------
(* SkritterSync for TLC: processes, lists and words are interchangeable.   *)
EXTENDS SkritterSync, TLC

Symmetry == Permutations(Procs) \cup Permutations(Lists) \cup Permutations(Words)
=============================================================================
