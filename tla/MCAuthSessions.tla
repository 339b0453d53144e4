--------------------------- MODULE MCAuthSessions ---------------------------
(* AuthSessions on a small instance: the values are in MCAuthSessions.cfg. *)
EXTENDS AuthSessions, TLC

Symmetry == Permutations(Tabs)
=============================================================================
