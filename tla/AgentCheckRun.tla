---------------------------- MODULE AgentCheckRun ---------------------------
(***************************************************************************)
(* AgentCheck.run (checks/base.py) with the metric limiter                 *)
(* (utils/limiter.py).  The Agent calls run again and again: the           *)
(* initializations that are left are run, then check, and whatever was     *)
(* raised the limiter is reset.  A metric is submitted if the limiter      *)
(* lets its context through and its value is a float, in this order.       *)
(* Contexts of gauges, rates and monotonic counts are taken to be new at   *)
(* each call; those of the other types are told apart by a uid.            *)
(***************************************************************************)
EXTENDS Integers, Sequences, FiniteSets

CONSTANTS
    Initializations,  \* check_initializations, a sequence
    Uids,             \* the contexts of metrics that have a uid
    Limit,            \* the limit of the metric limiter
    MaxCalls          \* bound on the metrics of a run

\* The initialization that a check of performance counters adds: it always raises.
Raises == "raise"

\* What the deque check_initializations may hold.
Tasks == {Initializations[i] : i \in DOMAIN Initializations} \cup {Raises}

ASSUME RunAssumption ==
    /\ Limit \in Nat /\ MaxCalls \in Nat
    /\ Initializations \in Seq(Tasks)

VARIABLES
    inits,      \* the initializations left
    current,    \* the one that is running, a sequence of at most one
    phase,      \* where run is
    limiter,    \* [count, seen, reached]
    ran,        \* history: the initializations that have returned
    submitted,  \* history: number of contexts of this run that were submitted
    wasted,     \* history: those without a uid let through with no float for a value
    spoilt,     \* history: uids let through, none of whose values was a float so far
    calls,      \* the metrics of this run
    refused,    \* history: some metric of this run did not go through
    total       \* history: contexts of this run

outcome == <<submitted, wasted, spoilt, calls, refused, total>>
metrics == <<limiter, outcome>>
vars == <<inits, current, phase, ran, metrics>>

Reset == [count |-> 0, seen |-> {}, reached |-> FALSE]

Init ==
    /\ inits = Initializations /\ current = <<>> /\ ran = <<>>
    /\ phase = "idle"
    /\ limiter = Reset
    /\ submitted = 0 /\ wasted = 0 /\ spoilt = {}
    /\ calls = 0 /\ refused = FALSE /\ total = 0
-----------------------------------------------------------------------------
RunStarts ==
    /\ phase = "idle"
    /\ phase' = "init"
    /\ submitted' = 0 /\ wasted' = 0 /\ spoilt' = {}
    /\ calls' = 0 /\ refused' = FALSE /\ total' = 0
    /\ UNCHANGED <<inits, current, limiter, ran>>

PopLeft ==
    /\ phase = "init" /\ current = <<>> /\ inits # <<>>
    /\ current' = <<Head(inits)>> /\ inits' = Tail(inits)
    /\ UNCHANGED <<phase, ran, metrics>>

InitializationReturns ==
    /\ current # <<>> /\ current # <<Raises>>
    /\ ran' = ran \o current /\ current' = <<>>
    /\ UNCHANGED <<inits, phase, metrics>>

\* Mutant: it is put at the other end of the deque.
MutPutBack(q, i) == q \o i

PutBack(q, i) == i \o q

InitializationRaises ==
    /\ current # <<>>
    /\ inits' = PutBack(inits, current) /\ current' = <<>>
    /\ phase' = "finally"
    /\ UNCHANGED <<ran, metrics>>

CheckStarts ==
    /\ phase = "init" /\ current = <<>> /\ inits = <<>>
    /\ phase' = "check"
    /\ UNCHANGED <<inits, current, ran, metrics>>
-----------------------------------------------------------------------------
(* Limiter.is_reached, called by _submit_metric *)

Exceeds(n) == n > Limit

\* uids is empty when the context has none.
Counts(uids) == uids = {} \/ ~(uids \subseteq limiter.seen)

Counted(uids) ==
    [limiter EXCEPT !.count = IF Counts(uids) THEN @ + 1 ELSE @,
                    !.seen = @ \cup uids]

\* Once the limit is reached every call is refused, of a known context too.
Refuses(uids) ==
    limiter.reached \/ (Counts(uids) /\ Exceeds(Counted(uids).count))

\* A context is new for the run when no call before had it.
New(uids) == uids = {} \/ ~(uids \subseteq limiter.seen)

\* A context whose earlier values were no floats is submitted after all.
Recovers(uids) == uids # {} /\ uids \subseteq spoilt

\* A value that is no float is refused only after its context was counted (and
\* outside the Agent raises, which is CheckEnds).
Submit(uids, isFloat) ==
    /\ phase = "check" /\ calls < MaxCalls
    /\ calls' = calls + 1
    /\ limiter' = [Counted(uids) EXCEPT !.reached = Refuses(uids)]
    /\ refused' = (refused \/ Refuses(uids))
    /\ total' = IF New(uids) THEN total + 1 ELSE total
    /\ \/ Refuses(uids) /\ UNCHANGED <<submitted, wasted, spoilt>>
       \/ /\ ~Refuses(uids) /\ isFloat
          /\ submitted' = IF New(uids) \/ Recovers(uids) THEN submitted + 1 ELSE submitted
          /\ spoilt' = spoilt \ uids
          /\ UNCHANGED wasted
       \/ /\ ~Refuses(uids) /\ ~isFloat
          /\ wasted' = IF uids = {} THEN wasted + 1 ELSE wasted
          /\ spoilt' = IF New(uids) THEN spoilt \cup uids ELSE spoilt
          /\ UNCHANGED submitted
    /\ UNCHANGED <<inits, current, phase, ran>>

\* check returns or raises: both lead to the finally clause.
CheckEnds ==
    /\ phase = "check"
    /\ phase' = "finally"
    /\ UNCHANGED <<inits, current, ran, metrics>>

\* _query_counters on a counter that cannot be configured.
CheckAppends ==
    /\ phase = "check"
    /\ inits' = Append(inits, Raises)
    /\ phase' = "finally"
    /\ UNCHANGED <<current, ran, metrics>>

\* Mutant: the counter is not reset.
MutAfterReset(l) == [Reset EXCEPT !.count = l.count]

AfterReset(l) == Reset

\* The debug metrics, if any, go through a limiter that is reset before and after.
Finally ==
    /\ phase = "finally"
    /\ limiter' = AfterReset(limiter)
    /\ phase' = "idle"
    /\ UNCHANGED <<inits, current, ran, outcome>>

Next ==
    \/ RunStarts \/ PopLeft \/ InitializationReturns \/ InitializationRaises
    \/ CheckStarts \/ CheckEnds \/ CheckAppends \/ Finally
    \/ \E isFloat \in BOOLEAN : Submit({}, isFloat) \/ \E u \in Uids : Submit({u}, isFloat)

Spec == Init /\ [][Next]_vars
-----------------------------------------------------------------------------
TypeOK ==
    /\ inits \in Seq(Tasks) /\ current \in Seq(Tasks) /\ ran \in Seq(Tasks)
    /\ phase \in {"idle", "init", "check", "finally"}
    /\ limiter \in [count : 0 .. MaxCalls, seen : SUBSET Uids, reached : BOOLEAN]
    /\ calls \in 0 .. MaxCalls /\ total \in 0 .. calls
    /\ submitted \in 0 .. total /\ wasted \in 0 .. total /\ spoilt \in SUBSET Uids
    /\ refused \in BOOLEAN

\* However often an initialization raises, each of them returns once and in the
\* order in which they were added, and check runs only after all of them; the one
\* that a check has added stays, so that check never runs again ("any errors should
\* prevent check execution").
InitializedInOrder ==
    /\ ran \o current \o inits \in
          {Initializations, Append(Initializations, Raises)}
    /\ phase = "check" => ran = Initializations /\ inits = <<>>

\* The limiter lets the contexts of a run through up to the limit, no more and no
\* fewer, and refuses nothing before the run has more of them than that, whatever
\* the runs before it did.  Every context let through is submitted, but for those
\* none of whose values was a float: they take their place in the limit all the same.
LimitExact ==
    /\ submitted + wasted + Cardinality(spoilt) = (IF total <= Limit THEN total ELSE Limit)
    /\ refused => total > Limit
=============================================================================
