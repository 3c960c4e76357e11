-------------------------- MODULE StatementMetrics --------------------------
(***************************************************************************)
(* StatementMetrics.compute_derivative_rows                                *)
(* (utils/db/statement_metrics.py) against a statistics table that is      *)
(* counted up, evicts rows and is reset while nobody looks.  Rows that     *)
(* normalize to the same query have the same key and are added up.  Which  *)
(* rows are passed is up to the integration (SqlServerStatements).         *)
(***************************************************************************)
EXTENDS Integers, FiniteSets, FiniteSetsExt

CONSTANTS
    Rows,      \* the rows of the table
    Key,       \* row -> the key of its query
    Metrics,   \* the columns
    MaxCount   \* bound on a counter

ASSUME StatementAssumption == IsFiniteSet(Rows) /\ MaxCount \in Nat

VARIABLES
    table,     \* row -> column -> counter, 0 where there is no row
    previous,  \* _previous_statements
    result,    \* the rows of the last call
    window,    \* history: what was executed since the last call, per key
    lost,      \* history: the keys a row of which was evicted since the last call
    hidden     \* history: the keys a row of which the last call was not passed

statementVars == <<table, previous, result, window, lost, hidden>>

Keys == {Key[r] : r \in Rows}
Zero == [m \in Metrics |-> 0]
Empty == [k \in {} |-> Zero]
NoKey == [k \in Keys |-> Zero]

\* The database has been running before the check.
StatementInit ==
    /\ table \in [Rows -> [Metrics -> 0 .. MaxCount]]
    /\ previous = Empty /\ result = Empty
    /\ window = NoKey /\ lost = {} /\ hidden = {}
-----------------------------------------------------------------------------
\* A statement of row r adds to some of the columns.
Execute(r) ==
    /\ \E M \in (SUBSET Metrics) \ {{}} :
          /\ \A m \in M : table[r][m] < MaxCount /\ window[Key[r]][m] < MaxCount
          /\ table' = [table EXCEPT ![r] = [m \in Metrics |-> @[m] + (IF m \in M THEN 1 ELSE 0)]]
          /\ window' = [window EXCEPT ![Key[r]] =
                            [m \in Metrics |-> @[m] + (IF m \in M THEN 1 ELSE 0)]]
    /\ UNCHANGED <<previous, result, lost, hidden>>

\* Rows are evicted, or the statistics are reset: then it is all of them.
Evict ==
    /\ \E R \in (SUBSET Rows) \ {{}} :
          /\ table' = [r \in Rows |-> IF r \in R THEN Zero ELSE table[r]]
          /\ lost' = lost \cup {Key[r] : r \in R}
    /\ UNCHANGED <<previous, result, window, hidden>>
-----------------------------------------------------------------------------
(* compute_derivative_rows; a row that is not in the table has no counter *)

Present == {r \in Rows : table[r] # Zero}

\* Mutant: of two rows with one key, one replaces the other.
MutMerge(R) ==
    [k \in {Key[r] : r \in R} |-> table[CHOOSE r \in R : Key[r] = k]]

Merge(R) ==
    [k \in {Key[r] : r \in R} |->
        [m \in Metrics |-> MapThenSumSet(LAMBDA r : table[r][m], {r \in R : Key[r] = k})]]

Discards(diff) == \E m \in Metrics : diff[m] < 0

Unchanged(diff) == \A m \in Metrics : diff[m] = 0

Diff(merged, k) == [m \in Metrics |-> merged[k][m] - previous[k][m]]

Derivative(merged) ==
    [k \in {k \in DOMAIN merged \cap DOMAIN previous :
               ~Discards(Diff(merged, k)) /\ ~Unchanged(Diff(merged, k))} |-> Diff(merged, k)]

ComputeDerivativeRows(R) ==
    /\ result' = Derivative(Merge(R))
    /\ previous' = Merge(R)
    /\ window' = NoKey /\ lost' = {}
    /\ hidden' = {Key[r] : r \in Present \ R}
    /\ UNCHANGED table
-----------------------------------------------------------------------------
\* Only what has a counter is remembered and reported.
StatementTypeOK ==
    /\ table \in [Rows -> [Metrics -> 0 .. MaxCount]]
    /\ DOMAIN previous \subseteq Keys
    /\ \A k \in DOMAIN previous : previous[k] \in [Metrics -> Nat] /\ previous[k] # Zero
    /\ DOMAIN result \subseteq DOMAIN previous
    /\ \A k \in DOMAIN result : result[k] \in [Metrics -> Nat] /\ result[k] # Zero
    /\ window \in [Keys -> [Metrics -> 0 .. MaxCount]]
    /\ lost \subseteq Keys /\ hidden \subseteq Keys
=============================================================================
