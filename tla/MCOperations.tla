---------------------------- MODULE MCOperations ----------------------------
(* Operations on a small instance: three releases, of which the last two    *)
(* each end at a revision of their own.                                     *)
EXTENDS Operations, TLC

MCHeadRev == <<1, 2, 3>>
Symmetry == Permutations(Stamps)
=============================================================================
