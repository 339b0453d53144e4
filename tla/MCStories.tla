------------------------------ MODULE MCStories ------------------------------
(* Stories for TLC.  A story gets one question of two options, where the    *)
(* code asks for three to five of four options.                             *)
EXTENDS Stories, TLC

Written(options, answer, evidence) ==
  [text |-> 1, options |-> options, answer |-> answer, evidence |-> evidence]

Good == Written(<<1, 2>>, 1, "quoted")
Twice == Written(<<-1, 1>>, 0, "left_out")
Outside == Written(<<1, 2>>, 2, "quoted")

Old == Written(<<1, 2>>, 1, "left_out")
MCLists == {<<Good>>, <<Old>>, <<Twice, Good>>, <<Outside>>}
MCRequests == [version : {1, 10}, target : {149, 350}, words : {5}]
MCClientAnswers == {<<2>>, <<0, 0>>}
Symmetry == Permutations(Workers)
=============================================================================
