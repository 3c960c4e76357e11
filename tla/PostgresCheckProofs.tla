------------------------- MODULE PostgresCheckProofs ------------------------
(***************************************************************************)
(* Who holds the pool's lock, and what connections are left when the check *)
(* and its jobs have ended, in every interleaving of the check run, the    *)
(* three loops, cancel() and failures of the server.                       *)
(***************************************************************************)
EXTENDS PostgresCheck, TLAPS

\* A connection in the pool that cancel() has closed belongs to a loop that will
\* close the pool again, or was opened by the check run that cancel() overtook.
PoolHasLoop ==
    pooled /\ cancel \in {"db", "done"} =>
        \/ \E j \in Jobs : loop[j] # "none"
        \/ autodiscovery /\ "pool" \in overlap

\* Unless a check run was going on as cancel() closed the pool or _db, there is
\* none any more, and nobody opens _db again.
NoLateRun ==
    /\ cancel \in {"db", "done"} /\ "pool" \notin overlap => check = "idle"
    /\ cancel = "done" /\ "db" \notin overlap => ~db /\ check = "idle"

\* Only with autodiscovery does the check use the pool.
OnlyDiscoveryPools == check \in {"connecting", "block"} => autodiscovery

PInv == TypeOK /\ PoolHasLoop /\ NoLateRun /\ OnlyDiscoveryPools

Labels == {"none", "top", "job", "connecting", "using", "broken", "ending"}

-----------------------------------------------------------------------------
\* What CloseDbPool leaves of the loops: none of them uses a connection, none of
\* them starts or ends by it.
LEMMA BrokenLoops ==
    ASSUME NEW moved \in [Jobs -> Labels]
    PROVE  /\ Broken(moved) \in [Jobs -> Labels]
           /\ \A j \in Jobs : /\ Broken(moved)[j] # "using"
                              /\ Broken(moved)[j] = "connecting" <=> moved[j] = "connecting"
                              /\ Broken(moved)[j] = "none" <=> moved[j] = "none"
  BY DEF Broken, Labels

LEMMA PostgresInit == Init => PInv
  BY FreeAssumption
     DEF Init, PInv, TypeOK, Check, PoolHasLoop, NoLateRun, OnlyDiscoveryPools, Jobs

\* Steps of the check's own run that leave the pool alone.
LEMMA CheckStep ==
    ASSUME PInv, CheckStarts \/ CheckQueries \/ CheckRaises \/ CheckLeavesBlock
    PROVE  PInv'
  <1>1. UNCHANGED <<autodiscovery, loop, signalled, pooled, mu, cancel, overlap>>
    BY DEF CheckStarts, CheckQueries, CheckRaises, CheckLeavesBlock
  <1>2. /\ db' \in BOOLEAN /\ check' \in {"idle", "running", "metrics"}
        /\ check # "connecting"
    BY DEF CheckStarts, CheckQueries, CheckRaises, CheckLeavesBlock, PInv, TypeOK
  <1>3. TypeOK'
    BY <1>1, <1>2 DEF PInv, TypeOK, Jobs
  <1>4. PoolHasLoop'
    BY <1>1 DEF PInv, PoolHasLoop
  <1>5. NoLateRun'
    BY <1>1 DEF PInv, NoLateRun, CheckStarts, CheckQueries, CheckRaises, CheckLeavesBlock
  <1>6. OnlyDiscoveryPools'
    BY <1>2 DEF OnlyDiscoveryPools
  <1> QED
    BY <1>3, <1>4, <1>5, <1>6 DEF PInv

\* The check takes a pooled connection: if cancel() has closed the pool, it was
\* during this run.
LEMMA CheckPoolsStep ==
    ASSUME PInv, CheckGetsConnection \/ CheckConnects
    PROVE  PInv'
  <1> USE FreeAssumption
  <1>1. /\ UNCHANGED <<autodiscovery, loop, signalled, db, cancel, overlap>>
        /\ check # "idle" /\ autodiscovery
    BY DEF CheckGetsConnection, CheckConnects, PInv, TypeOK, OnlyDiscoveryPools
  <1>2. TypeOK'
    <2>1. CASE CheckGetsConnection
      BY <1>1, <2>1 DEF PInv, TypeOK, CheckGetsConnection, Check, Jobs
    <2>2. CASE CheckConnects
      <3>1. /\ mu' = Free /\ check' \in {"block", "idle"} /\ mu = Check
            /\ pooled' = TRUE \/ pooled' = pooled
        BY <2>2 DEF CheckConnects
      <3>2. /\ mu' # Check /\ check' # "connecting" /\ {autodiscovery, pooled, db}' \subseteq BOOLEAN
            /\ \A j \in Jobs : mu' # j /\ mu # j
        BY <1>1, <3>1 DEF PInv, TypeOK, Check, Jobs
      <3> QED
        BY <1>1, <3>1, <3>2 DEF PInv, TypeOK
    <2> QED
      BY <2>1, <2>2
  <1>3. PoolHasLoop'
    BY <1>1 DEF PInv, NoLateRun, PoolHasLoop
  <1>4. NoLateRun'
    BY <1>1 DEF PInv, NoLateRun
  <1>5. OnlyDiscoveryPools'
    BY <1>1 DEF OnlyDiscoveryPools
  <1> QED
    BY <1>2, <1>3, <1>4, <1>5 DEF PInv

LEMMA RunJobLoopStep ==
    ASSUME PInv, RunJobLoop
    PROVE  PInv'
  <1>1. /\ UNCHANGED <<autodiscovery, signalled, pooled, mu, db, cancel, overlap>>
        /\ check \in Jobs /\ check' \in {"idle"} \cup Jobs
    BY DEF RunJobLoop, StartNext, Jobs
  <1>2. loop' \in [Jobs -> Labels]
    BY DEF PInv, TypeOK, RunJobLoop, Goto, Labels
  <1>3. \A j \in Jobs : \/ loop'[j] = loop[j]
                        \/ loop[j] = "none" /\ loop'[j] = "top"
    BY DEF PInv, TypeOK, RunJobLoop, Goto
  <1>4. TypeOK'
    BY <1>1, <1>2, <1>3 DEF PInv, TypeOK, Labels, Jobs
  <1>5. PoolHasLoop'
    BY <1>1, <1>3 DEF PInv, PoolHasLoop
  <1>6. NoLateRun' /\ OnlyDiscoveryPools'
    BY <1>1 DEF PInv, NoLateRun, OnlyDiscoveryPools, Jobs
  <1> QED
    BY <1>4, <1>5, <1>6 DEF PInv

\* Steps of a loop that leave the pool alone.
LEMMA LoopStep ==
    ASSUME PInv, NEW j \in Jobs, Top(j) \/ StopsInactive(j) \/ QueryDone(j) \/ QueryRaises(j)
    PROVE  PInv'
  <1>1. UNCHANGED <<autodiscovery, signalled, pooled, mu, db, check, cancel, overlap>>
    BY DEF Top, StopsInactive, QueryDone, QueryRaises
  <1>2. /\ loop[j] \notin {"none", "connecting"}
        /\ \E label \in {"top", "job", "ending"} : loop' = [loop EXCEPT ![j] = label]
    BY DEF Top, StopsInactive, QueryDone, QueryRaises, Goto
  <1>3. PICK label \in {"top", "job", "ending"} : loop' = [loop EXCEPT ![j] = label]
    BY <1>2
  <1>4. TypeOK'
    BY <1>1, <1>2, <1>3 DEF PInv, TypeOK
  <1>5. PoolHasLoop'
    BY <1>1, <1>2, <1>3 DEF PInv, TypeOK, PoolHasLoop
  <1>6. NoLateRun' /\ OnlyDiscoveryPools'
    BY <1>1 DEF PInv, NoLateRun, OnlyDiscoveryPools
  <1> QED
    BY <1>4, <1>5, <1>6 DEF PInv

\* _get_main_db, which takes and gives back the pool's lock.
LEMMA ConnectStep ==
    ASSUME PInv, NEW j \in Jobs, GetMainDb(j) \/ Connected(j) \/ ConnectRaises(j)
    PROVE  PInv'
  <1> USE FreeAssumption
  <1>1. UNCHANGED <<autodiscovery, signalled, db, check, cancel, overlap>>
    BY DEF GetMainDb, Connected, ConnectRaises
  <1>2. loop'[j] # "none"
    BY DEF PInv, TypeOK, GetMainDb, Connected, ConnectRaises, Goto
  <1>3. TypeOK'
    <2> USE DEF PInv, TypeOK, Goto, Check, Jobs
    <2>1. CASE GetMainDb(j)
      BY <1>1, <2>1 DEF GetMainDb
    <2>2. CASE Connected(j)
      BY <1>1, <2>2 DEF Connected
    <2>3. CASE ConnectRaises(j)
      BY <1>1, <2>3 DEF ConnectRaises
    <2> QED
      BY <2>1, <2>2, <2>3
  <1>4. PoolHasLoop'
    BY <1>2 DEF PoolHasLoop
  <1>5. NoLateRun' /\ OnlyDiscoveryPools'
    BY <1>1 DEF PInv, NoLateRun, OnlyDiscoveryPools
  <1> QED
    BY <1>3, <1>4, <1>5 DEF PInv

\* The pool is closed: by the server, by a loop that ends, by cancel().
LEMMA PoolClosesStep ==
    ASSUME PInv, ConnectionLost \/ (\E j \in Jobs : Shutdown(j)) \/ CancelClosesPool
    PROVE  PInv'
  <1>1. /\ UNCHANGED <<autodiscovery, signalled, mu, db, check>>
        /\ pooled' = FALSE
        /\ \/ cancel' = cancel /\ overlap' = overlap
           \/ /\ cancel = "pool" /\ cancel' = "db"
              /\ overlap' = IF check # "idle" THEN {"pool"} ELSE {}
    BY DEF ConnectionLost, Shutdown, CancelClosesPool, CloseDbPool
  <1>2. PICK moved \in [Jobs -> Labels] :
            /\ loop' = Broken(moved)
            /\ \A j \in Jobs : moved[j] = "connecting" <=> loop[j] = "connecting"
    <2>1. CASE ConnectionLost \/ CancelClosesPool
      BY <2>1 DEF PInv, TypeOK, ConnectionLost, CancelClosesPool, CloseDbPool, Labels
    <2>2. ASSUME NEW j \in Jobs, Shutdown(j)
          PROVE  \E moved \in [Jobs -> Labels] :
                    /\ loop' = Broken(moved)
                    /\ \A k \in Jobs : moved[k] = "connecting" <=> loop[k] = "connecting"
      <3>1. [loop EXCEPT ![j] = "none"] \in [Jobs -> Labels]
        BY DEF PInv, TypeOK, Labels
      <3> WITNESS [loop EXCEPT ![j] = "none"] \in [Jobs -> Labels]
      <3> QED
        BY <2>2 DEF PInv, TypeOK, Shutdown, CloseDbPool, Labels
    <2> QED
      BY <2>1, <2>2
  <1>3. /\ loop' \in [Jobs -> Labels]
        /\ \A j \in Jobs : /\ loop'[j] # "using"
                           /\ loop'[j] = "connecting" <=> loop[j] = "connecting"
    BY <1>2, BrokenLoops
  <1>4. TypeOK'
    BY <1>1, <1>3 DEF PInv, TypeOK, Labels
  <1>5. PoolHasLoop'
    BY <1>1 DEF PoolHasLoop
  <1>6. NoLateRun' /\ OnlyDiscoveryPools'
    BY <1>1 DEF PInv, NoLateRun, OnlyDiscoveryPools
  <1> QED
    BY <1>4, <1>5, <1>6 DEF PInv

\* The other steps of cancel().
LEMMA CancelStep ==
    ASSUME PInv, CancelStarts \/ CancelJob \/ CancelClosesDb
    PROVE  PInv'
  <1>1. CASE CancelStarts
    <2>1. UNCHANGED <<autodiscovery, loop, signalled, pooled, mu, db, check, overlap>> /\ cancel' = "samples"
      BY <1>1 DEF CancelStarts
    <2>2. TypeOK'
      BY <2>1 DEF PInv, TypeOK, Jobs
    <2> QED
      BY <2>1, <2>2 DEF PInv, PoolHasLoop, NoLateRun, OnlyDiscoveryPools
  <1>2. CASE CancelJob
    <2>1. /\ UNCHANGED <<autodiscovery, loop, pooled, mu, db, check, overlap>>
          /\ signalled' \subseteq Jobs
      BY <1>2 DEF CancelJob, PInv, TypeOK
    <2>2. cancel' \in {"metrics", "metadata", "pool"}
      BY <1>2 DEF CancelJob, CancelNext, Jobs
    <2>3. TypeOK'
      BY <2>1, <2>2 DEF PInv, TypeOK, Jobs
    <2> QED
      BY <2>1, <2>2, <2>3 DEF PInv, PoolHasLoop, NoLateRun, OnlyDiscoveryPools
  <1>3. CASE CancelClosesDb
    <2>1. /\ UNCHANGED <<autodiscovery, loop, signalled, pooled, mu, check>>
          /\ cancel = "db" /\ cancel' = "done" /\ db' = FALSE
          /\ overlap' = IF check # "idle" THEN overlap \cup {"db"} ELSE overlap
      BY <1>3 DEF CancelClosesDb
    <2>2. TypeOK'
      BY <2>1 DEF PInv, TypeOK
    <2> QED
      BY <2>1, <2>2 DEF PInv, PoolHasLoop, NoLateRun, OnlyDiscoveryPools
  <1> QED
    BY <1>1, <1>2, <1>3

\* The inductive invariant of the composition.
THEOREM PostgresInvariant == Spec => []PInv
  <1>1. PInv /\ [Next]_vars => PInv'
    <2> SUFFICES ASSUME PInv, [Next]_vars PROVE PInv'
      OBVIOUS
    <2>1. CASE Next
      BY <2>1, CheckStep, CheckPoolsStep, RunJobLoopStep, LoopStep, ConnectStep, PoolClosesStep, CancelStep
         DEF Next, Run, Cancel
    <2>2. CASE UNCHANGED vars
      BY <2>2 DEF vars, PInv, TypeOK, PoolHasLoop, NoLateRun, OnlyDiscoveryPools
    <2> QED
      BY <2>1, <2>2
  <1> QED
    BY <1>1, PostgresInit, PTL DEF Spec

\* The pool's lock is held exactly by the job or the check that connects, and a job
\* that has not noticed anything has an open connection.
THEOREM PostgresTypes == Spec => []TypeOK
  <1>1. PInv => TypeOK
    BY DEF PInv
  <1> QED
    BY <1>1, PostgresInvariant, PTL

\* Once cancel() has returned and everything has ended, the pool and _db are closed,
\* each of them unless cancel() closed it during a check run; and the pool is closed
\* without autodiscovery whatever the check run did.
THEOREM NothingEverLeaks == Spec => []NothingLeaks
  <1>1. PInv => NothingLeaks
    BY DEF PInv, PoolHasLoop, NoLateRun, NothingLeaks, Quiet
  <1> QED
    BY <1>1, PostgresInvariant, PTL
=============================================================================
