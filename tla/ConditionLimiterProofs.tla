----------------------- MODULE ConditionLimiterProofs -----------------------
(***************************************************************************)
(* Safety of the limiter for every finite set of checks and every limit.   *)
(***************************************************************************)
EXTENDS ConditionLimiter, FiniteSetTheorems, TLAPS

\* __lock is held by the check that is between the second test and its answer.
LockHeld ==
    \A c \in Checks : pc[c] \in {"lockedFull", "condition"} <=> lock = c

\* While condition() is evaluated there is room: others only remove.
RoomUnderLock == (\E c \in Checks : pc[c] = "condition") => ~LimitReached

\* A check that passed the quick tests is not in the set: nobody else adds it.
NewToTheSet ==
    \A c \in Checks : pc[c] \in {"lock", "condition"} => c \notin cached

LInv ==
    /\ TypeOK
    /\ LockHeld
    /\ RoomUnderLock
    /\ NewToTheSet
    /\ LimitHolds
    /\ WorkersHoldSlots

-----------------------------------------------------------------------------
LEMMA LimitType == EffectiveLimit \in Nat /\ EffectiveLimit >= 1
  BY LimiterAssumption DEF EffectiveLimit

LEMMA CachedFinite ==
    ASSUME TypeOK
    PROVE  IsFiniteSet(cached) /\ Cardinality(cached) \in Nat
  BY LimiterAssumption, FS_Subset, FS_CardinalityType DEF TypeOK

\* Taking out an identifier, from any thread, frees at most its own slot and
\* never fills one.
LEMMA RemoveShrinks ==
    ASSUME TypeOK, NEW c \in Checks, Remove(c)
    PROVE  /\ Cardinality(cached') \in Nat
           /\ Cardinality(cached') <= Cardinality(cached)
           /\ cached' \subseteq cached
  <1>1. IsFiniteSet(cached) /\ cached' \subseteq cached
    BY CachedFinite DEF Remove
  <1> QED
    BY <1>1, FS_Subset, FS_CardinalityType

LEMMA TakeSlotGrowsByOne ==
    ASSUME TypeOK, NEW c \in Checks, TakeSlot(c)
    PROVE  /\ Cardinality(cached') \in Nat
           /\ Cardinality(cached') <= Cardinality(cached) + 1
  <1>1. IsFiniteSet(cached)
    BY CachedFinite
  <1>2. Cardinality(cached') = IF c \in cached THEN Cardinality(cached) ELSE Cardinality(cached) + 1
    BY <1>1, FS_AddElement DEF TakeSlot
  <1> QED
    BY <1>2, CachedFinite

LEMMA LimiterInit == Init => LInv
  <1> SUFFICES ASSUME Init PROVE LInv
    OBVIOUS
  <1>1. TypeOK /\ LockHeld /\ RoomUnderLock /\ NewToTheSet /\ WorkersHoldSlots
    BY LimiterAssumption DEF Init, TypeOK, LockHeld, RoomUnderLock, NewToTheSet, WorkersHoldSlots, Working
  <1>2. LimitHolds
    BY FS_EmptySet, LimitType DEF Init, LimitHolds
  <1> QED
    BY <1>1, <1>2 DEF LInv

\* The steps of a run that leave the set alone.
LEMMA QuietStep ==
    ASSUME LInv, NEW c \in Checks,
           Call(c) \/ QuickTest(c) \/ Lock(c) \/ LockedTest(c) \/ ConditionFails(c) \/ WorkDone(c)
    PROVE  LInv'
  <1>1. cached' = cached /\ cancelled' = cancelled
    BY DEF Call, QuickTest, Lock, LockedTest, ConditionFails, WorkDone
  <1>2. TypeOK'
    BY <1>1 DEF LInv, TypeOK, Call, QuickTest, Lock, LockedTest, ConditionFails, WorkDone, Goto,
       Recheck, Release
  <1>3. LockHeld'
    BY LimiterAssumption DEF LInv, TypeOK, LockHeld, Call, QuickTest, Lock, LockedTest,
       ConditionFails, WorkDone, Goto, Recheck, Release
  <1>4. LimitReached' = LimitReached
    BY <1>1 DEF LimitReached
  <1>5. RoomUnderLock'
    BY <1>4 DEF LInv, TypeOK, RoomUnderLock, Call, QuickTest, Lock, LockedTest, ConditionFails,
       WorkDone, Goto, Recheck
  <1>6. NewToTheSet'
    BY <1>1 DEF LInv, TypeOK, NewToTheSet, Call, QuickTest, Lock, LockedTest, ConditionFails,
       WorkDone, Goto, Recheck, Holds
  <1>7. LimitHolds'
    BY <1>1 DEF LInv, LimitHolds
  <1>8. WorkersHoldSlots'
    BY <1>1 DEF LInv, TypeOK, WorkersHoldSlots, Working, Call, QuickTest, Lock, LockedTest,
       ConditionFails, WorkDone, Goto, Recheck, Holds
  <1> QED
    BY <1>2, <1>3, <1>5, <1>6, <1>7, <1>8 DEF LInv

\* The lock makes the test and the addition one step for everyone who adds.
LEMMA ConditionMetStep ==
    ASSUME LInv, NEW c \in Checks, ConditionMet(c)
    PROVE  LInv'
  <1> USE DEF ConditionMet, TakeSlot, Release, Goto
  <1>1. TypeOK'
    BY DEF LInv, TypeOK
  <1>2. LockHeld' /\ RoomUnderLock'
    <2>1. lock = c
      BY DEF LInv, LockHeld
    <2>2. \A d \in Checks : pc'[d] \notin {"lockedFull", "condition"}
      BY <2>1 DEF LInv, TypeOK, LockHeld
    <2> QED
      BY <2>2, LimiterAssumption DEF LockHeld, RoomUnderLock
  <1>3. NewToTheSet'
    BY DEF LInv, TypeOK, NewToTheSet
  <1>4. LimitHolds'
    <2>1. Cardinality(cached) < EffectiveLimit
      BY LimitType, CachedFinite DEF LInv, RoomUnderLock, LimitReached
    <2>2. Cardinality(cached') \in Nat /\ Cardinality(cached') <= Cardinality(cached) + 1
      BY TakeSlotGrowsByOne DEF LInv
    <2>3. Cardinality(cached) \in Nat
      BY CachedFinite DEF LInv
    <2> QED
      BY <2>1, <2>2, <2>3, LimitType DEF LimitHolds, EffectiveLimit
  <1>5. WorkersHoldSlots'
    BY DEF LInv, TypeOK, WorkersHoldSlots, Working
  <1> QED
    BY <1>1, <1>2, <1>3, <1>4, <1>5 DEF LInv

\* remove() takes no lock: it may fall anywhere in another check's test.
LEMMA RemoveStep ==
    ASSUME LInv, NEW c \in Checks, WorkFails(c) \/ Cancel(c)
    PROVE  LInv'
  <1>1. Remove(c)
    BY DEF WorkFails, Cancel
  <1>2. TypeOK'
    BY DEF LInv, TypeOK, WorkFails, Cancel, Goto, Remove
  <1>3. LockHeld'
    BY DEF LInv, TypeOK, LockHeld, WorkFails, Cancel, Goto
  <1>4. /\ Cardinality(cached') \in Nat
        /\ Cardinality(cached') <= Cardinality(cached)
        /\ cached' \subseteq cached
    BY <1>1, RemoveShrinks DEF LInv
  <1>5. ~LimitReached => ~LimitReached'
    BY <1>4, CachedFinite, LimitType DEF LInv, LimitReached, EffectiveLimit
  <1>6. RoomUnderLock'
    BY <1>5 DEF LInv, TypeOK, RoomUnderLock, WorkFails, Cancel, Goto
  <1>7. NewToTheSet'
    BY <1>4 DEF LInv, TypeOK, NewToTheSet, WorkFails, Cancel, Goto
  <1>8. LimitHolds'
    BY <1>4, CachedFinite, LimitType DEF LInv, LimitHolds, EffectiveLimit
  <1>9. WorkersHoldSlots'
    BY DEF LInv, TypeOK, WorkersHoldSlots, Working, WorkFails, Cancel, Goto, Remove
  <1> QED
    BY <1>2, <1>3, <1>6, <1>7, <1>8, <1>9 DEF LInv

\* The limiter's inductive invariant.
THEOREM LimiterInvariant == Spec => []LInv
  <1>1. LInv /\ [Next]_vars => LInv'
    <2> SUFFICES ASSUME LInv, [Next]_vars PROVE LInv'
      OBVIOUS
    <2>1. CASE Next
      BY <2>1, QuietStep, ConditionMetStep, RemoveStep DEF Next, Run
    <2>2. CASE UNCHANGED vars
      BY <2>2 DEF vars, LInv, TypeOK, LockHeld, RoomUnderLock, LimitReached, NewToTheSet,
         LimitHolds, EffectiveLimit, WorkersHoldSlots, Working
    <2> QED
      BY <2>1, <2>2
  <1> QED
    BY <1>1, LimiterInit, PTL DEF Spec

\* __cached_identifiers never holds more than max(limit, 1) identifiers, whatever
\* the tests outside the lock and the unlocked removals interleave with.
THEOREM LimitAlwaysHolds == Spec => []LimitHolds
  <1>1. LInv => LimitHolds
    BY DEF LInv
  <1> QED
    BY <1>1, LimiterInvariant, PTL

\* A check that works is in the set, unless it was cancelled.
THEOREM WorkersAlwaysHoldSlots == Spec => []WorkersHoldSlots
  <1>1. LInv => WorkersHoldSlots
    BY DEF LInv
  <1> QED
    BY <1>1, LimiterInvariant, PTL

\* What the limiter is for: no more checks than the limit work at a time, if
\* those that were cancelled while they worked are left aside.
THEOREM BoundedWorkers ==
    Spec => [](Cardinality(Working \ cancelled) <= EffectiveLimit)
  <1>1. LInv => Cardinality(Working \ cancelled) <= EffectiveLimit
    <2> SUFFICES ASSUME LInv PROVE Cardinality(Working \ cancelled) <= EffectiveLimit
      OBVIOUS
    <2>1. Working \ cancelled \subseteq cached /\ IsFiniteSet(cached)
      BY CachedFinite DEF LInv, WorkersHoldSlots
    <2>2. /\ IsFiniteSet(Working \ cancelled)
          /\ Cardinality(Working \ cancelled) <= Cardinality(cached)
      BY <2>1, FS_Subset
    <2>3. Cardinality(Working \ cancelled) \in Nat
      BY <2>2, FS_CardinalityType
    <2> QED
      BY <2>2, <2>3, CachedFinite, LimitType DEF LInv, LimitHolds, EffectiveLimit
  <1> QED
    BY <1>1, LimiterInvariant, PTL

\* check_condition answers no only to a check that holds no slot.
THEOREM HolderAlwaysAdmitted == Spec => HolderAdmitted
  <1>1. ASSUME LInv, [Next]_vars
        PROVE  [\A c \in Checks :
                  pc[c] \notin {"idle", "work"} /\ pc'[c] = "idle" => c \notin cached]_vars
    <2> SUFFICES ASSUME Next, NEW c \in Checks, pc[c] \notin {"idle", "work"}, pc'[c] = "idle"
                 PROVE  c \notin cached
      BY <1>1
    <2>1. PICK d \in Checks : Run(d) \/ Cancel(d)
      BY DEF Next
    <2>2. d = c /\ (QuickTest(c) \/ LockedTest(c) \/ ConditionFails(c))
      BY <1>1, <2>1 DEF LInv, TypeOK, Run, Call, QuickTest, Lock, LockedTest, ConditionMet,
         ConditionFails, WorkDone, WorkFails, Cancel, Goto, Recheck
    <2>3. CASE QuickTest(c)
      BY <1>1, <2>3 DEF LInv, TypeOK, QuickTest, Goto, Holds
    <2>4. CASE LockedTest(c)
      BY <1>1, <2>4 DEF LInv, TypeOK, LockedTest, Goto, Holds
    <2>5. CASE ConditionFails(c)
      BY <1>1, <2>5 DEF LInv, NewToTheSet, ConditionFails
    <2> QED
      BY <2>2, <2>3, <2>4, <2>5
  <1> QED
    BY <1>1, LimiterInvariant, PTL DEF Spec, HolderAdmitted

-----------------------------------------------------------------------------
\* How many answers of check_condition's tests a call still waits for.
TestsLeft(place) ==
    CASE place = "room" -> 3 [] place = "lock" -> 2
      [] place \in {"full", "lockedFull", "condition"} -> 1 [] OTHER -> 0

\* The safety half of CallEnds: no step, of this check or of another, sends a call back
\* to a test it has passed, and the lock is never held by a check that waits
\* for it or has its answer, so that who waits for it waits for one answer only.
THEOREM CallsMoveOn ==
    Spec => /\ [][\A c \in Checks : TestsLeft(pc[c]) # 0 =>
                     pc'[c] = pc[c] \/ TestsLeft(pc'[c]) < TestsLeft(pc[c])]_vars
            /\ [](lock # NoCheck => TestsLeft(pc[lock]) = 1)
  <1>1. ASSUME LInv, [Next]_vars
        PROVE  [\A c \in Checks : TestsLeft(pc[c]) # 0 =>
                   pc'[c] = pc[c] \/ TestsLeft(pc'[c]) < TestsLeft(pc[c])]_vars
    <2> SUFFICES ASSUME Next, NEW c \in Checks, TestsLeft(pc[c]) # 0, pc'[c] # pc[c]
                 PROVE  TestsLeft(pc'[c]) < TestsLeft(pc[c])
      BY <1>1
    <2>1. pc[c] \notin {"idle", "work"}
      BY DEF TestsLeft
    <2>2. \/ pc[c] = "full" /\ pc'[c] \in {"work", "idle"}
          \/ pc[c] = "room" /\ pc'[c] \in {"work", "lock"}
          \/ pc[c] = "lock" /\ pc'[c] \in {"lockedFull", "condition"}
          \/ pc[c] \in {"lockedFull", "condition"} /\ pc'[c] \in {"work", "idle"}
      BY <1>1, <2>1 DEF Next, LInv, TypeOK, Run, Call, QuickTest, Lock, LockedTest, ConditionMet,
         ConditionFails, WorkDone, WorkFails, Cancel, Goto, Recheck
    <2> QED
      BY <2>2 DEF TestsLeft
  <1>2. LInv => (lock # NoCheck => TestsLeft(pc[lock]) = 1)
    BY DEF LInv, TypeOK, LockHeld, TestsLeft
  <1> QED
    BY <1>1, <1>2, LimiterInvariant, PTL DEF Spec
=============================================================================
