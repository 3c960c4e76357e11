---------------------- MODULE ProcessListCacheProofs ----------------------
(***************************************************************************)
(* The condition variable and the reader count of process/lock.py          *)
(* implement the readers-writer lock, for any number of threads.           *)
(***************************************************************************)
EXTENDS ProcessListCache, FiniteSetTheorems, TLAPS

\* The count is the number of threads inside a read block.
CountIsExact == readers = Cardinality(Readers)

\* A thread inside a write block, and nobody else, holds the condition's lock.
WriterHoldsLock == \A t \in Threads : t \in Writers <=> lock = t

\* The lock is held across steps only when there are no readers.
WriteExcludesRead == lock # Free => Readers = {}

WaitersWait == \A t \in waiting : pc[t] = "wait"

LInv ==
    /\ TypeOK
    /\ CountIsExact
    /\ WriterHoldsLock
    /\ WriteExcludesRead
    /\ WaitersWait
    /\ WaiterHasReader

LEMMA ReadersFinite ==
    /\ IsFiniteSet(Readers)
    /\ Cardinality(Readers) \in 0 .. Cardinality(Threads)
    /\ Cardinality(Threads) \in Nat
    /\ Cardinality(Readers) = 0 <=> Readers = {}
  <1>1. Readers \in SUBSET Threads
    BY DEF Readers
  <1>2. IsFiniteSet(Readers) /\ Cardinality(Readers) <= Cardinality(Threads)
    BY <1>1, CacheAssumption, FS_Subset
  <1>3. Cardinality(Readers) \in Nat /\ Cardinality(Threads) \in Nat
    BY <1>2, CacheAssumption, FS_CardinalityType
  <1>4. Cardinality(Readers) = 0 <=> Readers = {}
    BY <1>2, FS_EmptySet
  <1> QED
    BY <1>2, <1>3, <1>4

LEMMA LockInit == Init => LInv
  <1> SUFFICES ASSUME Init PROVE LInv
    OBVIOUS
  <1> USE CacheAssumption DEF Init
  <1>1. Readers = {} /\ Writers = {}
    BY DEF Readers, Writers
  <1>2. TypeOK
    <2>1. lock \in Threads \cup {Free} /\ waiting \subseteq Threads
      OBVIOUS
    <2>2. pc \in [Threads -> {"idle", "acquire", "wait", "write", "stamp", "raise", "unlock",
                              "enter", "read"}]
      OBVIOUS
    <2>3. fresh \in BOOLEAN /\ outdated \in BOOLEAN
      OBVIOUS
    <2>4. readers \in 0 .. Cardinality(Threads)
      BY ReadersFinite
    <2> QED
      BY <2>1, <2>2, <2>3, <2>4 DEF TypeOK
  <1>3. CountIsExact
    BY <1>1, ReadersFinite DEF CountIsExact
  <1> QED
    BY <1>1, <1>2, <1>3 DEF LInv, WriterHoldsLock, WriteExcludesRead, WaitersWait,
       WaiterHasReader

\* What a step does to the two kinds of blocks.
LEMMA BlockSteps ==
    ASSUME LInv, NEW t \in Threads
    PROVE  /\ Refresh(t) \/ Wait(t) \/ KeepElements(t) \/ ListElements(t) \/ ListRaises(t)
                 \/ Stamp(t) \/ Reset(t)
                 => Readers' = Readers /\ Writers' = Writers
           /\ AddWriter(t) => /\ Readers = {} /\ Readers' = {}
                              /\ Writers = {} /\ Writers' = {t}
           /\ RemoveWriter(t) => /\ lock = t /\ t \in Writers
                                 /\ Readers' = Readers /\ Writers' = Writers \ {t}
           /\ AddReader(t) => /\ t \notin Readers /\ Writers = {} /\ Writers' = {}
                              /\ Readers' = Readers \cup {t}
           /\ RemoveReader(t) => /\ t \in Readers /\ Writers' = Writers
                                 /\ Readers' = Readers \ {t}
  <1> USE CacheAssumption DEF LInv, TypeOK, Goto, Readers, Writers
  <1>1. Refresh(t) \/ Wait(t) \/ KeepElements(t) \/ ListElements(t) \/ ListRaises(t)
           \/ Stamp(t) \/ Reset(t)
           => Readers' = Readers /\ Writers' = Writers
    BY DEF Refresh, Wait, KeepElements, ListElements, ListRaises, Stamp, Reset
  <1>2. ASSUME AddWriter(t)
        PROVE  Readers = {} /\ Readers' = {} /\ Writers = {} /\ Writers' = {t}
    <2>1. Readers = {}
      BY <1>2, ReadersFinite DEF AddWriter, IsFree, CountIsExact
    <2>2. Writers = {}
      BY <1>2 DEF AddWriter, Acquires, WriterHoldsLock
    <2> QED
      BY <1>2, <2>1, <2>2 DEF AddWriter
  <1>3. ASSUME RemoveWriter(t)
        PROVE  lock = t /\ t \in Writers /\ Readers' = Readers /\ Writers' = Writers \ {t}
    BY <1>3 DEF RemoveWriter, WriterHoldsLock
  <1>4. ASSUME AddReader(t)
        PROVE  t \notin Readers /\ Writers = {} /\ Writers' = {} /\ Readers' = Readers \cup {t}
    <2>1. Writers = {}
      BY <1>4 DEF AddReader, WriterHoldsLock
    <2> QED
      BY <1>4, <2>1 DEF AddReader
  <1>5. ASSUME RemoveReader(t)
        PROVE  t \in Readers /\ Writers' = Writers /\ Readers' = Readers \ {t}
    BY <1>5 DEF RemoveReader
  <1> QED
    BY <1>1, <1>2, <1>3, <1>4, <1>5

LEMMA LockNext == LInv /\ [Next]_vars => LInv'
  <1> SUFFICES ASSUME LInv, [Next]_vars PROVE LInv'
    OBVIOUS
  <1> USE CacheAssumption, ReadersFinite
  <1>1. ASSUME NEW t \in Threads,
               Refresh(t) \/ KeepElements(t) \/ ListElements(t) \/ ListRaises(t) \/ Stamp(t)
                 \/ Reset(t)
        PROVE  LInv'
    <2>1. Readers' = Readers /\ Writers' = Writers
      BY <1>1, BlockSteps
    <2>2. /\ lock' = lock /\ readers' = readers /\ waiting' = waiting
          /\ \A u \in Threads : pc[u] = "wait" => pc'[u] = "wait"
      BY <1>1 DEF Refresh, KeepElements, ListElements, ListRaises, Stamp, Reset, Goto, LInv, TypeOK
    <2>3. TypeOK'
      BY <1>1 DEF Refresh, KeepElements, ListElements, ListRaises, Stamp, Reset, Goto, LInv, TypeOK
    <2>4. CountIsExact'
      BY <2>1, <2>2 DEF LInv, CountIsExact
    <2> QED
      BY <2>1, <2>2, <2>3, <2>4 DEF LInv, TypeOK, WriterHoldsLock, WriteExcludesRead,
         WaitersWait, WaiterHasReader
  <1>2. ASSUME NEW t \in Threads, Wait(t) PROVE LInv'
    <2>1. Readers' = Readers /\ Writers' = Writers
      BY <1>2, BlockSteps
    <2>2. /\ lock' = lock /\ readers' = readers /\ waiting' = waiting \cup {t}
          /\ pc' = [pc EXCEPT ![t] = "wait"] /\ readers # 0
          /\ fresh' = fresh /\ outdated' = outdated
      BY <1>2 DEF Wait, Goto, IsFree
    <2>3. Readers # {}
      BY <2>2 DEF LInv, CountIsExact
    <2>4. TypeOK'
      BY <2>2 DEF LInv, TypeOK
    <2>5. CountIsExact'
      BY <2>1, <2>2 DEF LInv, CountIsExact
    <2>6. WaitersWait'
      BY <2>2 DEF LInv, TypeOK, WaitersWait
    <2> QED
      BY <2>1, <2>2, <2>3, <2>4, <2>5, <2>6 DEF LInv, WriterHoldsLock, WriteExcludesRead,
         WaiterHasReader
  <1>3. ASSUME NEW t \in Threads, AddWriter(t) PROVE LInv'
    <2>1. Readers = {} /\ Readers' = {} /\ Writers = {} /\ Writers' = {t}
      BY <1>3, BlockSteps
    <2>2. /\ lock' = t /\ readers' = readers /\ waiting' = waiting
          /\ pc' = [pc EXCEPT ![t] = "write"] /\ t \notin waiting
          /\ fresh' = fresh /\ outdated' = outdated
      BY <1>3 DEF AddWriter, Acquires, Goto
    <2>3. TypeOK'
      BY <2>2 DEF LInv, TypeOK
    <2>4. CountIsExact'
      BY <2>1, <2>2 DEF LInv, CountIsExact
    <2>5. WaitersWait'
      BY <2>2 DEF LInv, TypeOK, WaitersWait
    <2> QED
      BY <2>1, <2>2, <2>3, <2>4, <2>5 DEF LInv, WriterHoldsLock, WriteExcludesRead,
         WaiterHasReader
  <1>4. ASSUME NEW t \in Threads, RemoveWriter(t) PROVE LInv'
    <2>1. lock = t /\ t \in Writers /\ Readers' = Readers /\ Writers' = Writers \ {t}
      BY <1>4, BlockSteps
    <2>2. /\ lock' = Free /\ readers' = readers /\ waiting' = waiting
          /\ \A u \in Threads : pc[u] = "wait" => pc'[u] = "wait"
          /\ fresh' = fresh /\ outdated' = outdated
      BY <1>4 DEF RemoveWriter, Goto, LInv, TypeOK
    <2>3. TypeOK'
      BY <1>4 DEF RemoveWriter, Goto, LInv, TypeOK
    <2>4. CountIsExact'
      BY <2>1, <2>2 DEF LInv, CountIsExact
    <2>5. WriterHoldsLock'
      BY <2>1, <2>2 DEF LInv, WriterHoldsLock, Writers
    <2> QED
      BY <2>1, <2>2, <2>3, <2>4, <2>5 DEF LInv, TypeOK, WriteExcludesRead, WaitersWait,
         WaiterHasReader
  <1>5. ASSUME NEW t \in Threads, AddReader(t) PROVE LInv'
    <2>1. t \notin Readers /\ Writers = {} /\ Writers' = {} /\ Readers' = Readers \cup {t}
      BY <1>5, BlockSteps
    <2>2. /\ lock' = Free /\ lock = Free /\ readers' = readers + 1 /\ waiting' = waiting
          /\ pc' = [pc EXCEPT ![t] = "read"] /\ pc[t] = "enter"
          /\ fresh' = fresh /\ outdated' = outdated
      BY <1>5 DEF AddReader, Goto
    <2>3. Cardinality(Readers') = Cardinality(Readers) + 1
      BY <2>1, FS_AddElement
    <2>4. CountIsExact'
      BY <2>2, <2>3 DEF LInv, CountIsExact
    <2>5. Readers' \in SUBSET Threads
      BY DEF Readers
    <2>6. Cardinality(Readers') <= Cardinality(Threads)
      BY <2>5, FS_Subset
    <2>7. readers' \in 0 .. Cardinality(Threads)
      BY <2>3, <2>4, <2>6 DEF CountIsExact
    <2>8. TypeOK'
      BY <2>2, <2>7 DEF LInv, TypeOK
    <2>9. WaitersWait'
      BY <2>2 DEF LInv, TypeOK, WaitersWait
    <2> QED
      BY <2>1, <2>2, <2>4, <2>8, <2>9 DEF LInv, WriterHoldsLock, WriteExcludesRead,
         WaiterHasReader
  <1>6. ASSUME NEW t \in Threads, RemoveReader(t) PROVE LInv'
    <2>1. t \in Readers /\ Writers' = Writers /\ Readers' = Readers \ {t}
      BY <1>6, BlockSteps
    <2>2. /\ lock' = lock /\ readers' = readers - 1 /\ lock = Free
          /\ waiting' = IF readers' = 0 THEN {} ELSE waiting
          /\ pc' = [pc EXCEPT ![t] = "idle"] /\ pc[t] = "read"
          /\ fresh' = fresh /\ outdated' = outdated
      BY <1>6 DEF RemoveReader, Goto
    <2>3. Cardinality(Readers') = Cardinality(Readers) - 1 /\ IsFiniteSet(Readers')
      BY <2>1, FS_RemoveElement
    <2>4. CountIsExact'
      BY <2>2, <2>3 DEF LInv, CountIsExact
    <2>5. Cardinality(Readers) # 0
      BY <2>1
    <2>6. readers' \in 0 .. Cardinality(Threads)
      BY <2>2, <2>5 DEF LInv, CountIsExact
    <2>7. TypeOK'
      BY <2>2, <2>6 DEF LInv, TypeOK
    <2>8. WaitersWait'
      BY <2>2 DEF LInv, TypeOK, WaitersWait
    <2>9. readers' # 0 => Readers' # {}
      BY <2>4, FS_EmptySet DEF CountIsExact
    <2>10. WaiterHasReader'
      BY <2>2, <2>9 DEF WaiterHasReader
    <2> QED
      BY <2>1, <2>2, <2>4, <2>7, <2>8, <2>10 DEF LInv, WriterHoldsLock, WriteExcludesRead
  <1>7. CASE Age
    BY <1>7 DEF Age, LInv, TypeOK, CountIsExact, WriterHoldsLock, WriteExcludesRead,
       WaitersWait, WaiterHasReader, Readers, Writers
  <1>8. CASE UNCHANGED vars
    BY <1>8 DEF vars, LInv, TypeOK, CountIsExact, WriterHoldsLock, WriteExcludesRead,
       WaitersWait, WaiterHasReader, Readers, Writers
  <1> QED
    BY <1>1, <1>2, <1>3, <1>4, <1>5, <1>6, <1>7, <1>8 DEF Next, Step

-----------------------------------------------------------------------------
\* The invariant holds in every reachable state.
THEOREM LockInvariance == Spec => []LInv
  BY LockInit, LockNext, PTL DEF Spec

\* The cache's variables keep their types; the reader count stays between zero
\* and the number of threads.
THEOREM CacheTypeCorrect == Spec => []TypeOK
  <1>1. LInv => TypeOK
    BY DEF LInv
  <1> QED
    BY <1>1, LockInvariance, PTL

\* A thread blocked in condition.wait() always has a reader that will notify it.
THEOREM NoLostWakeup == Spec => []WaiterHasReader
  <1>1. LInv => WaiterHasReader
    BY DEF LInv
  <1> QED
    BY <1>1, LockInvariance, PTL

\* Every behaviour of the cache is one of the abstract readers-writer lock.
THEOREM Implementation == Spec => ImplementsLock
  <1>1. Init => RW!Init
    BY DEF Init, RW!Init, Readers, Writers
  <1>2. LInv /\ [Next]_vars => [RW!Next]_<<Readers, Writers>>
    <2> SUFFICES ASSUME LInv, [Next]_vars
                 PROVE  RW!Next \/ (Readers' = Readers /\ Writers' = Writers)
      OBVIOUS
    <2>1. ASSUME NEW t \in Threads, AddWriter(t) PROVE RW!EnterWrite(t)
      BY <2>1, BlockSteps DEF RW!EnterWrite
    <2>2. ASSUME NEW t \in Threads, RemoveWriter(t) PROVE RW!ExitWrite(t)
      BY <2>2, BlockSteps DEF RW!ExitWrite
    <2>3. ASSUME NEW t \in Threads, AddReader(t) PROVE RW!EnterRead(t)
      BY <2>3, BlockSteps DEF RW!EnterRead
    <2>4. ASSUME NEW t \in Threads, RemoveReader(t) PROVE RW!ExitRead(t)
      BY <2>4, BlockSteps DEF RW!ExitRead
    <2>5. ASSUME NEW t \in Threads,
                 Refresh(t) \/ Wait(t) \/ KeepElements(t) \/ ListElements(t) \/ ListRaises(t)
                   \/ Stamp(t) \/ Reset(t)
          PROVE  Readers' = Readers /\ Writers' = Writers
      BY <2>5, BlockSteps
    <2>6. CASE Age \/ UNCHANGED vars
      BY <2>6 DEF Age, vars, Readers, Writers
    <2> QED
      BY <2>1, <2>2, <2>3, <2>4, <2>5, <2>6 DEF Next, Step, RW!Next
  <1> QED
    BY <1>1, <1>2, LockInvariance, PTL DEF Spec, ImplementsLock, RW!Spec

-----------------------------------------------------------------------------
\* reset() is called only while nobody is inside a write block, as if it took the
\* lock itself.
ResetLocks == (\E t \in Threads : Reset(t)) => lock = Free

\* What is about to be stamped was listed after the last reset.
StampedIsCurrent == \A t \in Threads : pc[t] = "stamp" => ~outdated

LEMMA ResetStep ==
    ASSUME LInv, StampedIsCurrent, ResetTakesEffect, [Next]_vars, [ResetLocks]_vars
    PROVE  StampedIsCurrent' /\ ResetTakesEffect'
  <1> USE DEF LInv, TypeOK, StampedIsCurrent, ResetTakesEffect
  <1>1. CASE UNCHANGED vars
    BY <1>1 DEF vars
  <1>2. CASE Age
    BY <1>2 DEF Age
  <1>3. ASSUME NEW t \in Threads, Reset(t), ResetLocks PROVE StampedIsCurrent' /\ ResetTakesEffect'
    <2>1. \A u \in Threads : pc[u] # "stamp"
      BY <1>3, CacheAssumption DEF ResetLocks, WriterHoldsLock, Writers
    <2> QED
      BY <1>3, <2>1 DEF Reset
  <1>4. ASSUME NEW t \in Threads, ListElements(t) PROVE StampedIsCurrent' /\ ResetTakesEffect'
    BY <1>4 DEF ListElements
  <1>5. ASSUME NEW t \in Threads, Stamp(t) PROVE StampedIsCurrent' /\ ResetTakesEffect'
    BY <1>5 DEF Stamp, Goto
  <1>6. ASSUME NEW t \in Threads,
               Refresh(t) \/ AddWriter(t) \/ Wait(t) \/ RemoveWriter(t) \/ AddReader(t)
                 \/ RemoveReader(t) \/ KeepElements(t) \/ ListRaises(t)
        PROVE  StampedIsCurrent' /\ ResetTakesEffect'
    <2>1. UNCHANGED <<fresh, outdated>>
      BY <1>6 DEF Refresh, AddWriter, Wait, RemoveWriter, AddReader, RemoveReader, KeepElements,
         ListRaises
    <2>2. \A u \in Threads : pc'[u] = "stamp" => pc[u] = "stamp"
      BY <1>6 DEF Refresh, AddWriter, Wait, RemoveWriter, AddReader, RemoveReader, KeepElements,
         ListRaises, Goto
    <2> QED
      BY <2>1, <2>2
  <1> QED
    BY <1>1, <1>2, <1>3, <1>4, <1>5, <1>6 DEF Next, Step

\* "reset the process caches now": elements that were reset are never taken for fresh,
\* if reset() does not come between the two assignments of a refresh.  Taking the
\* write lock would be enough for that.
THEOREM LockedResetTakesEffect ==
    Spec /\ [][ResetLocks]_vars => []ResetTakesEffect
  <1>1. Init => StampedIsCurrent /\ ResetTakesEffect
    BY DEF Init, StampedIsCurrent, ResetTakesEffect
  <1>2. LInv /\ StampedIsCurrent /\ ResetTakesEffect /\ [Next]_vars /\ [ResetLocks]_vars
          => StampedIsCurrent' /\ ResetTakesEffect'
    BY ResetStep
  <1> QED
    BY <1>1, <1>2, LockInvariance, PTL DEF Spec
=============================================================================
