-------------------------- MODULE ConditionLimiter --------------------------
(***************************************************************************)
(* ConditionLimiter (base/utils/concurrency/limiter.py) and the check its  *)
(* docstring shows: each check instance asks check_condition whether it    *)
(* may work, keeps its slot from one run to the next, and gives it up by   *)
(* remove() when it fails or is cancelled.  cancel() comes from another    *)
(* thread at any time.  Reads of the shared set are single steps; only the *)
(* condition is evaluated, and an identifier added, with the lock held.    *)
(***************************************************************************)
EXTENDS Integers, FiniteSets

CONSTANTS
    Checks,  \* the check instances, which are their own identifiers
    NoCheck, \* the lock is free
    Limit

ASSUME LimiterAssumption ==
    /\ IsFiniteSet(Checks)
    /\ NoCheck \notin Checks
    /\ Limit \in Int

VARIABLES
    cached,     \* __cached_identifiers
    lock,       \* the holder of __lock
    pc,         \* per check, where its run is
    cancelled   \* the checks whose cancel() was called

vars == <<cached, lock, pc, cancelled>>

Init ==
    /\ cached = {}
    /\ lock = NoCheck
    /\ pc = [c \in Checks |-> "idle"]
    /\ cancelled = {}

EffectiveLimit == IF Limit < 1 THEN 1 ELSE Limit

LimitReached == Cardinality(cached) >= EffectiveLimit

Goto(c, label) == pc' = [pc EXCEPT ![c] = label]

\* The Agent runs no check that it has unscheduled.
Call(c) ==
    /\ pc[c] = "idle" /\ c \notin cancelled
    /\ Goto(c, IF LimitReached THEN "full" ELSE "room")
    /\ UNCHANGED <<cached, lock, cancelled>>

\* Mutant: a full limiter turns everyone away.
MutHolds(c) == c \in cached /\ ~LimitReached

Holds(c) == c \in cached

\* The two quick tests that need no lock.
QuickTest(c) ==
    /\ \/ pc[c] = "full" /\ Goto(c, IF Holds(c) THEN "work" ELSE "idle")
       \/ pc[c] = "room" /\ Goto(c, IF Holds(c) THEN "work" ELSE "lock")
    /\ UNCHANGED <<cached, lock, cancelled>>

\* Mutant: no second test once the lock is held.
MutRecheck(c) == Goto(c, "condition")

Recheck(c) == Goto(c, IF LimitReached THEN "lockedFull" ELSE "condition")

Lock(c) ==
    /\ pc[c] = "lock" /\ lock = NoCheck
    /\ lock' = c
    /\ Recheck(c)
    /\ UNCHANGED <<cached, cancelled>>

\* Mutant: an early return that keeps the lock.
MutRelease == UNCHANGED lock

Release == lock' = NoCheck

LockedTest(c) ==
    /\ pc[c] = "lockedFull"
    /\ Release
    /\ Goto(c, IF Holds(c) THEN "work" ELSE "idle")
    /\ UNCHANGED <<cached, cancelled>>

\* Mutant: the condition's answer is returned and not remembered.
MutTakeSlot(c) == UNCHANGED cached

TakeSlot(c) == cached' = cached \cup {c}

\* condition() holds: the identifier takes its slot.
ConditionMet(c) ==
    /\ pc[c] = "condition"
    /\ TakeSlot(c)
    /\ Release
    /\ Goto(c, "work")
    /\ UNCHANGED cancelled

\* condition() is false or raises.
ConditionFails(c) ==
    /\ pc[c] = "condition"
    /\ Release
    /\ Goto(c, "idle")
    /\ UNCHANGED <<cached, cancelled>>

\* set.remove: a KeyError, and no change, if the identifier is not there.
Remove(c) == cached' = cached \ {c}

WorkDone(c) ==
    /\ pc[c] = "work"
    /\ Goto(c, "idle")
    /\ UNCHANGED <<cached, lock, cancelled>>

WorkFails(c) ==
    /\ pc[c] = "work"
    /\ Remove(c)
    /\ Goto(c, "idle")
    /\ UNCHANGED <<lock, cancelled>>

Cancel(c) ==
    /\ c \notin cancelled
    /\ Remove(c)
    /\ cancelled' = cancelled \cup {c}
    /\ UNCHANGED <<lock, pc>>

Run(c) ==
    \/ Call(c) \/ QuickTest(c) \/ Lock(c) \/ LockedTest(c)
    \/ ConditionMet(c) \/ ConditionFails(c)
    \/ WorkDone(c) \/ WorkFails(c)

Next == \E c \in Checks : Run(c) \/ Cancel(c)

Spec == Init /\ [][Next]_vars

\* Threads are scheduled fairly, lock.acquire starves nobody, condition() and
\* the check's work come to an end; the Agent may stop running a check.
FairSpec ==
    /\ Spec
    /\ \A c \in Checks :
          WF_vars(pc[c] # "idle" /\ Run(c)) /\ SF_vars(Lock(c))
-----------------------------------------------------------------------------
TypeOK ==
    /\ cached \subseteq Checks
    /\ lock \in Checks \cup {NoCheck}
    /\ pc \in [Checks -> {"idle", "full", "room", "lock", "lockedFull", "condition", "work"}]
    /\ cancelled \subseteq Checks

Working == {c \in Checks : pc[c] = "work"}

\* No more conditions are satisfied than the limit says, whatever the quick
\* tests outside the lock and the removals without it see of the set.
LimitHolds == Cardinality(cached) <= EffectiveLimit

\* A check that works holds a slot until it is cancelled: with LimitHolds, no
\* more than the limit work at a time, leaving aside those cancelled meanwhile.
WorkersHoldSlots == Working \subseteq cached \cup cancelled

\* A check that holds a slot is never turned away: check_condition answers no
\* only to a check that is not in the set, full limiter or not.
HolderAdmitted ==
    [][\A c \in Checks :
          pc[c] \notin {"idle", "work"} /\ pc'[c] = "idle" => c \notin cached]_vars

\* The quick tests and the lock never hold a check up for good.
CallEnds == \A c \in Checks : pc[c] = "room" ~> pc[c] \in {"idle", "work"}

\* The example of the docstring, "only run one check instance at a time".
OneAtATime == Cardinality(Working) <= EffectiveLimit
=============================================================================
