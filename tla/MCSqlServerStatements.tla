----------------------- MODULE MCSqlServerStatements -----------------------
(***************************************************************************)
(* SqlServerStatements for TLC: two plans of the same query, in one group  *)
(* or in two, and without aggregates.                                      *)
(***************************************************************************)
EXTENDS SqlServerStatements, TLC

CONSTANTS r1, r2

MCKey == r1 :> "q" @@ r2 :> "q"

Together == r1 :> "g" @@ r2 :> "g"
Apart == r1 :> "g1" @@ r2 :> "g2"

MCQueries == {[aggregates |-> TRUE, group |-> Together], [aggregates |-> TRUE, group |-> Apart],
              [aggregates |-> FALSE, group |-> Apart]}
=============================================================================
