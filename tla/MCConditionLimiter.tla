------------------------- MODULE MCConditionLimiter -------------------------
(***************************************************************************)
(* Instances of ConditionLimiter for TLC.                                  *)
(***************************************************************************)
EXTENDS ConditionLimiter
=============================================================================
