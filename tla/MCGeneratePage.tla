--------------------------- MODULE MCGeneratePage ---------------------------
(* GeneratePage for TLC.                                                    *)
EXTENDS GeneratePage
=============================================================================
