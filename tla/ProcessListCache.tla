-------------------------- MODULE ProcessListCache --------------------------
(***************************************************************************)
(* The process list shared by all instances of the process check           *)
(* (process/cache.py), protected by a readers-writer lock built on one     *)
(* condition variable and a count of readers (process/lock.py).            *)
(*                                                                         *)
(* Each thread repeats what find_pids does: refresh() under the write      *)
(* lock, then a walk over the elements under the read lock; between two    *)
(* rounds it may call reset(), which takes no lock at all.                 *)
(***************************************************************************)
EXTENDS Integers, FiniteSets

CONSTANTS
    Threads,   \* the threads running process check instances
    Free       \* the condition's lock is not held

ASSUME CacheAssumption ==
    /\ Free \notin Threads
    /\ IsFiniteSet(Threads)

VARIABLES
    lock,     \* holder of the condition's lock between two steps
    readers,  \* _readers
    waiting,  \* threads inside condition.wait(), not notified
    pc,       \* where each thread is
    fresh,    \* the cache has not exceeded its duration: now - last_ts
    outdated  \* history: reset() was called since the elements were listed

vars == <<lock, readers, waiting, pc, fresh, outdated>>

Init ==
    /\ lock = Free
    /\ readers = 0
    /\ waiting = {}
    /\ pc = [t \in Threads |-> "idle"]
    /\ fresh = FALSE          \* last_ts = 0
    /\ outdated = TRUE

IsFree == readers = 0

Goto(t, from, to) == pc[t] \in from /\ pc' = [pc EXCEPT ![t] = to]

-----------------------------------------------------------------------------
(***************************************************************************)
(* ReadWriteCondition.  Its methods are atomic because they hold the       *)
(* condition's lock, except add_writer: it keeps the lock, or waits.       *)
(***************************************************************************)
\* A thread starts refresh(): it asks for the condition's lock.
Refresh(t) ==
    /\ Goto(t, {"idle"}, "acquire")
    /\ UNCHANGED <<lock, readers, waiting, fresh, outdated>>

\* Acquires the lock, in add_writer or on the way out of wait().
Acquires(t) == lock = Free /\ t \notin waiting

\* A mutation of AddWriter: after wait() the count is not tested again.
MutAddWriter(t) ==
    /\ Acquires(t)
    /\ IsFree \/ pc[t] = "wait"
    /\ Goto(t, {"acquire", "wait"}, "write")
    /\ lock' = t
    /\ UNCHANGED <<readers, waiting, fresh, outdated>>

AddWriter(t) ==
    /\ Acquires(t)
    /\ IsFree
    /\ Goto(t, {"acquire", "wait"}, "write")
    /\ lock' = t
    /\ UNCHANGED <<readers, waiting, fresh, outdated>>

\* There are readers: wait() releases the lock.
Wait(t) ==
    /\ Acquires(t)
    /\ ~IsFree
    /\ Goto(t, {"acquire", "wait"}, "wait")
    /\ waiting' = waiting \cup {t}
    /\ UNCHANGED <<lock, readers, fresh, outdated>>

\* A mutation of RemoveWriter: the exit of the write block removes a reader.
MutRemoveWriter(t) ==
    /\ Goto(t, {"unlock", "raise"}, IF pc[t] = "raise" THEN "idle" ELSE "enter")
    /\ lock' = Free
    /\ readers' = readers - 1
    /\ UNCHANGED <<waiting, fresh, outdated>>

RemoveWriter(t) ==
    /\ Goto(t, {"unlock", "raise"}, IF pc[t] = "raise" THEN "idle" ELSE "enter")
    /\ lock' = Free
    /\ UNCHANGED <<readers, waiting, fresh, outdated>>

AddReader(t) ==
    /\ lock = Free
    /\ Goto(t, {"enter"}, "read")
    /\ readers' = readers + 1
    /\ UNCHANGED <<lock, waiting, fresh, outdated>>

\* A mutation of RemoveReader: the last reader does not notify.
MutRemoveReader(t) ==
    /\ lock = Free
    /\ Goto(t, {"read"}, "idle")
    /\ readers' = readers - 1
    /\ UNCHANGED <<lock, waiting, fresh, outdated>>

\* Another mutation: one waiter is notified, not all of them.
MutNotifyOne(t) ==
    /\ lock = Free
    /\ Goto(t, {"read"}, "idle")
    /\ readers' = readers - 1
    /\ IF readers' = 0 /\ waiting # {} THEN \E u \in waiting : waiting' = waiting \ {u}
                                       ELSE UNCHANGED waiting
    /\ UNCHANGED <<lock, fresh, outdated>>

RemoveReader(t) ==
    /\ lock = Free
    /\ Goto(t, {"read"}, "idle")
    /\ readers' = readers - 1
    /\ waiting' = IF readers' = 0 THEN {} ELSE waiting
    /\ UNCHANGED <<lock, fresh, outdated>>

-----------------------------------------------------------------------------
(***************************************************************************)
(* ProcessListCache.                                                       *)
(***************************************************************************)
\* refresh() finds the elements recent enough.
KeepElements(t) ==
    /\ fresh
    /\ Goto(t, {"write"}, "unlock")
    /\ UNCHANGED <<lock, readers, waiting, fresh, outdated>>

\* refresh() lists the processes into elements ...
ListElements(t) ==
    /\ ~fresh
    /\ Goto(t, {"write"}, "stamp")
    /\ outdated' = FALSE
    /\ UNCHANGED <<lock, readers, waiting, fresh>>

\* ... or psutil raises: the write lock is released and the check run fails.
ListRaises(t) ==
    /\ ~fresh
    /\ Goto(t, {"write"}, "raise")
    /\ UNCHANGED <<lock, readers, waiting, fresh, outdated>>

\* ... and then sets last_ts.
Stamp(t) ==
    /\ Goto(t, {"stamp"}, "unlock")
    /\ fresh' = TRUE
    /\ UNCHANGED <<lock, readers, waiting, outdated>>

\* reset(), by a thread that found that the processes have changed.
Reset(t) ==
    /\ pc[t] = "idle"
    /\ fresh' = FALSE
    /\ outdated' = TRUE
    /\ UNCHANGED <<lock, readers, waiting, pc>>

\* The cache duration passes.
Age ==
    /\ fresh
    /\ fresh' = FALSE
    /\ UNCHANGED <<lock, readers, waiting, pc, outdated>>

Step(t) ==
    \/ AddWriter(t) \/ Wait(t) \/ RemoveWriter(t)
    \/ AddReader(t) \/ RemoveReader(t)
    \/ KeepElements(t) \/ ListElements(t) \/ ListRaises(t) \/ Stamp(t)

Next == (\E t \in Threads : Refresh(t) \/ Step(t) \/ Reset(t)) \/ Age

Spec == Init /\ [][Next]_vars

\* A thread inside find_pids keeps running; nothing makes it call again.
FairSpec == Spec /\ \A t \in Threads : WF_vars(Step(t))

-----------------------------------------------------------------------------
(***************************************************************************)
(* Properties.                                                             *)
(***************************************************************************)
\* Every variable has its type; the count of readers is never negative.
TypeOK ==
    /\ lock \in Threads \cup {Free}
    /\ readers \in 0 .. Cardinality(Threads)
    /\ waiting \subseteq Threads
    /\ pc \in [Threads -> {"idle", "acquire", "wait", "write", "stamp", "raise", "unlock",
                           "enter", "read"}]
    /\ fresh \in BOOLEAN
    /\ outdated \in BOOLEAN

Writers == {t \in Threads : pc[t] \in {"write", "stamp", "raise", "unlock"}}
Readers == {t \in Threads : pc[t] = "read"}

\* The condition variable and the count implement the promised lock: nobody
\* walks over the elements while somebody replaces them.
RW == INSTANCE ReadWriteLock WITH reading <- Readers, writing <- Writers
ImplementsLock == RW!Spec

\* No lost wakeup: a thread blocked in wait() has a reader to wake it up.
WaiterHasReader == waiting # {} => Readers # {}

\* Threads never block each other for good: when one waits for the readers,
\* some thread gets the write lock.
WaitingEnds ==
    \A t \in Threads : pc[t] = "wait" ~> \E u \in Threads : pc[u] = "write"

\* process.py, "reset the process caches now, something changed": elements
\* that were reset are not taken for fresh.
ResetTakesEffect == outdated => ~fresh
=============================================================================
