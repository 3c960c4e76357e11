------------------------- MODULE MCProcessListCache -------------------------
(***************************************************************************)
(* Instances of ProcessListCache for TLC.                                  *)
(***************************************************************************)
EXTENDS ProcessListCache
=============================================================================
