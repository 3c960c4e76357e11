--------------------------- MODULE MCDBMAsyncJob ---------------------------
(***************************************************************************)
(* Instances of DBMAsyncJob for TLC.                                       *)
(***************************************************************************)
EXTENDS DBMAsyncJob
=============================================================================
