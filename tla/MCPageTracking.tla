--------------------------- MODULE MCPageTracking ---------------------------
(* PageTracking for TLC.                                                    *)
EXTENDS PageTracking
=============================================================================
