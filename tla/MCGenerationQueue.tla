------------------------- MODULE MCGenerationQueue -------------------------
(* GenerationQueue for TLC: workers and clients are interchangeable in the *)
(* safety runs.                                                            *)
EXTENDS GenerationQueue, TLC

Symmetry == Permutations(Workers) \cup Permutations(Clients)
=============================================================================
