-------------------------- MODULE MCSnmpDiscovery ---------------------------
(***************************************************************************)
(* Instances of SnmpDiscovery for TLC.                                     *)
(***************************************************************************)
EXTENDS SnmpDiscovery
=============================================================================
