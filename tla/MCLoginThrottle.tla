-------------------------- MODULE MCLoginThrottle --------------------------
(* LoginThrottle for TLC: threads and addresses are interchangeable.       *)
EXTENDS LoginThrottle, TLC

Symmetry == Permutations(Threads) \cup Permutations(Addresses)
=============================================================================
