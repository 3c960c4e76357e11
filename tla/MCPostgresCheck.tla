-------------------------- MODULE MCPostgresCheck ---------------------------
(***************************************************************************)
(* Instances of PostgresCheck for TLC.                                     *)
(***************************************************************************)
EXTENDS PostgresCheck
=============================================================================
