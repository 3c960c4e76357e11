------------------------ MODULE SqlServerStatements ------------------------
(***************************************************************************)
(* SqlserverStatementMetrics (sqlserver/statements.py): StatementMetrics   *)
(* over the rows of sys.dm_exec_query_stats whose last execution lies in a *)
(* window, which is two collection intervals or, when the job is late, the *)
(* time since its last query.  Rows are cached plans.                      *)
(* STATEMENT_METRICS_QUERY adds the plans of a group up and then looks at  *)
(* the window; STATEMENT_METRICS_QUERY_NO_AGGREGATES, used with            *)
(* disable_secondary_tags, looks at the window of every plan by itself,    *)
(* and at the start of its last execution instead of its end.  Plans of a  *)
(* group have one key, but the stored procedure is part of the group and   *)
(* not of the key: a statement that two procedures have in common is two   *)
(* groups with one key.                                                    *)
(*                                                                         *)
(* Times are ages in ticks.  Nothing executes at the instant of a query.   *)
(***************************************************************************)
EXTENDS StatementMetrics

CONSTANTS
    Queries,             \* [aggregates, group]: not disable_secondary_tags, and the
                         \* group that the query puts a row in
    CollectionInterval,  \* collection_interval
    LongAgo              \* bound on ages: anything this old is out of every window

ASSUME QueriesAssumption ==
    \A x \in Queries :
        /\ x.aggregates \in BOOLEAN
        /\ \A q, r \in Rows : x.group[q] = x.group[r] => Key[q] = Key[r]

ASSUME WindowAssumption ==
    /\ CollectionInterval \in Nat \ {0}
    /\ LongAgo \in Nat /\ LongAgo > 2 * CollectionInterval

VARIABLES
    query,    \* the query that is run
    ended,    \* row -> the age of the end of its last execution
    took,     \* row -> last_elapsed_time; last_execution_time is its start
    since,    \* the age of _last_stats_query_time, or None
    fresh     \* history: the keys executed since then, and not evicted

clock == <<ended, took, since>>
allvars == <<statementVars, query, clock, fresh>>

None == -1

SqlInit ==
    /\ StatementInit
    /\ query \in Queries
    /\ ended \in [Rows -> {0, LongAgo}] /\ took = [r \in Rows |-> 0]
    /\ since = None /\ fresh = {}

\* A statement ends now; it has taken no time, or very long.
SqlExecute(r) ==
    /\ since # 0
    /\ Execute(r)
    /\ ended' = [ended EXCEPT ![r] = 0]
    /\ \E d \in {0, LongAgo} : took' = [took EXCEPT ![r] = d]
    /\ fresh' = fresh \cup {Key[r]}
    /\ UNCHANGED <<query, since>>

SqlEvict ==
    /\ Evict
    /\ fresh' = {k \in fresh : \A r \in Rows : Key[r] = k => table'[r] = table[r]}
    /\ UNCHANGED <<query, clock>>

Aged(n) == IF n < LongAgo THEN n + 1 ELSE n

\* The job is at most LongAgo late.
TimePasses ==
    /\ since < LongAgo
    /\ ended' = [r \in Rows |-> Aged(ended[r])]
    /\ since' = IF since = None THEN None ELSE since + 1
    /\ UNCHANGED <<statementVars, query, took, fresh>>
-----------------------------------------------------------------------------
TwoIntervals == 2 * CollectionInterval

MutQueryInterval == TwoIntervals
QueryInterval == IF since = None \/ since < TwoIntervals THEN TwoIntervals ELSE since

\* Is the group of row r in the window: by its last start plus its longest run?
MutGroupInWindow(r) == ended[r] < QueryInterval
GroupInWindow(r) ==
    LET group == {q \in Present : query.group[q] = query.group[r]}
    IN  Min({ended[q] + took[q] : q \in group}) - Max({took[q] : q \in group}) < QueryInterval

\* Is the plan of row r?
PlanInWindow(r) == ended[r] + took[r] < QueryInterval

Selected ==
    {r \in Present : IF query.aggregates THEN GroupInWindow(r) ELSE PlanInWindow(r)}

LoadRows ==
    /\ Selected # {}
    /\ ComputeDerivativeRows(Selected)
    /\ since' = 0 /\ fresh' = {}
    /\ UNCHANGED <<query, ended, took>>

\* Without rows compute_derivative_rows is not called, and remembers what it had.
LoadNothing ==
    /\ Selected = {}
    /\ result' = Empty
    /\ since' = 0 /\ fresh' = {}
    /\ UNCHANGED <<table, previous, window, lost, hidden, query, ended, took>>

\* The query raises: _last_stats_query_time has already been set.
LoadFails ==
    /\ since' = 0 /\ fresh' = {}
    /\ UNCHANGED <<statementVars, query, ended, took>>

SqlNext ==
    \/ \E r \in Rows : SqlExecute(r)
    \/ SqlEvict \/ TimePasses \/ LoadRows \/ LoadNothing \/ LoadFails

SqlSpec == SqlInit /\ [][SqlNext]_allvars
-----------------------------------------------------------------------------
\* Ages stay below their bound.
SqlTypeOK ==
    /\ StatementTypeOK
    /\ query \in Queries
    /\ ended \in [Rows -> 0 .. LongAgo] /\ took \in [Rows -> 0 .. LongAgo]
    /\ since \in {None} \cup 0 .. LongAgo /\ fresh \subseteq Keys

\* The query adds all the plans of key k up before it looks at the window.
Whole(k) ==
    /\ query.aggregates
    /\ \A q, r \in Rows : Key[q] = k /\ Key[r] = k => query.group[q] = query.group[r]

\* "rows whose values represent the total counts in the time elapsed between check
\* runs": whatever was evicted or reset, no row reports more than was executed since
\* the last call, nor a negative number.  Only a key of several groups (procedures,
\* or plans by themselves) can, when the last call was not passed all of them and
\* one comes back into the window with its past.
NeverOvercounts ==
    [][LoadRows =>
          \A k \in DOMAIN result' : Whole(k) \/ k \notin hidden =>
              \A m \in Metrics : result'[k][m] \in 0 .. window[k][m]]_allvars

\* A statement that was executed since the last query of the job is among the rows
\* of this one, however late the job is, however long its statements took
\* and whatever its groups are, unless its statistics were evicted.  What a query of
\* the job that failed would have loaded is not promised, nor is it by the query
\* without aggregates, which looks at the start of an execution.
LoadedIfExecuted ==
    [][(LoadRows \/ LoadNothing) /\ query.aggregates /\ since # None =>
          fresh \subseteq {Key[r] : r \in Selected}]_allvars

\* A key whose rows were all there and all passed at two calls of
\* compute_derivative_rows is reported exactly, and left out only if it was not
\* executed, however many queries in between loaded nothing or failed; with one
\* group, a key that is there at both calls has passed all its rows.
ExactInWindow ==
    [][LoadRows =>
          \A k \in (DOMAIN previous \cap DOMAIN previous') \ lost :
              Whole(k) \/ k \notin hidden \cup hidden' =>
                  IF k \in DOMAIN result' THEN result'[k] = window[k] ELSE window[k] = Zero]_allvars
=============================================================================
