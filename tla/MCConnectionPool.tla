-------------------------- MODULE MCConnectionPool --------------------------
(***************************************************************************)
(* Instances of ConnectionPool for TLC.                                    *)
(***************************************************************************)
EXTENDS ConnectionPool, TLC

\* Databases, clients and connection identities are interchangeable: nothing in
\* the specification or its invariants names or chooses one.
Symmetry == Permutations(DBs) \cup Permutations(Clients) \cup Permutations(Conns)
=============================================================================
