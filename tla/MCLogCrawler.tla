---------------------------- MODULE MCLogCrawler ----------------------------
(***************************************************************************)
(* Instances of LogCrawler for TLC.                                        *)
(***************************************************************************)
EXTENDS LogCrawler
=============================================================================
