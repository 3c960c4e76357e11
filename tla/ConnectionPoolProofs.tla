------------------------ MODULE ConnectionPoolProofs ------------------------
(***************************************************************************)
(* Safety of the connection pool for any set of databases, clients and     *)
(* connections, any max_conns >= 1 and any number of failing closes.       *)
(***************************************************************************)
EXTENDS ConnectionPool, FiniteSetTheorems, TLAPS

\* _mu is held between two steps exactly by the client looping for room, whose
\* own database is not pooled meanwhile.
LoopHoldsLock ==
    \A c \in Clients :
        /\ pc[c] = "acquiring" <=> mu = c
        /\ pc[c] = "acquiring" => conns[req[c].db].conn = NoConn

\* A client inside its block has arguments.
InBlockHasRequest == \A c \in Clients : pc[c] # "idle" => req[c] \in Request

\* No entry, no flags.
AbsentIsInactive == \A d \in DBs : conns[d].active => conns[d].conn # NoConn

\* Two databases never share a connection.
OneDatabasePerConn ==
    \A d, e \in DBs :
        (conns[d].conn = conns[e].conn /\ conns[d].conn # NoConn) => d = e

\* The pool has forgotten the connections that failed to close.
FailedIsForgotten == \A d \in DBs : conns[d].conn \notin failed

\* A client's connection, while pooled, is pooled under the client's database.
HeldUnderItsName ==
    \A c \in Clients : \A d \in DBs :
        (pc[c] = "using" /\ held[c] = conns[d].conn /\ held[c] # NoConn)
            => req[c].db = d

PoolBound == Cardinality(Pool) <= MaxConns

IInv ==
    /\ TypeOK
    /\ LoopHoldsLock
    /\ InBlockHasRequest
    /\ AbsentIsInactive
    /\ OneDatabasePerConn
    /\ FailedIsForgotten
    /\ HeldUnderItsName
    /\ NoOrphan
    /\ ActiveHasUser
    /\ PoolBound

-----------------------------------------------------------------------------
\* The pool is finite, as it is a set of databases.
LEMMA PoolFinite ==
    /\ IsFiniteSet(Pool)
    /\ Cardinality(Pool) \in Nat
  BY PoolAssumption, FS_Subset, FS_CardinalityType DEF Pool

\* Dropping the entries of T and closing their connections, except the ones of
\* F whose close() raises, keeps the pool and the open connections consistent:
\* this is _terminate_connection_unsafe inside any of the methods.
LEMMA Termination ==
    ASSUME IInv,
           NEW T \in SUBSET DBs,
           NEW F \in SUBSET T,
           \A d \in F : conns[d].conn \in open,
           conns' \in [DBs -> Entry],
           \A d \in DBs : conns'[d].conn = IF d \in T THEN NoConn ELSE conns[d].conn,
           open' = open \ ConnsOf(T \ F),
           failed' = failed \cup ConnsOf(F)
    PROVE  /\ open' \subseteq Conns
           /\ failed' \subseteq open'
           /\ OneDatabasePerConn'
           /\ FailedIsForgotten'
           /\ NoOrphan'
           /\ PoolBound'
  <1> USE PoolAssumption
  <1>1. open' \subseteq Conns
    BY DEF IInv, TypeOK
  <1>2. failed' \subseteq open'
    <2> SUFFICES ASSUME NEW x \in failed' PROVE x \in open'
      OBVIOUS
    <2>1. x \in open
      BY DEF ConnsOf, IInv, TypeOK
    <2>2. ASSUME NEW d \in T \ F PROVE conns[d].conn # x
      <3>1. CASE x \in failed
        BY <3>1 DEF IInv, FailedIsForgotten
      <3>2. CASE x \notin failed
        <4>1. PICK e \in F : x = conns[e].conn
          BY <3>2 DEF ConnsOf
        <4>2. x # NoConn
          BY <2>1 DEF IInv, TypeOK
        <4> QED
          BY <4>1, <4>2 DEF IInv, OneDatabasePerConn
      <3> QED
        BY <3>1, <3>2
    <2> QED
      BY <2>1, <2>2 DEF ConnsOf
  <1>3. OneDatabasePerConn'
    BY DEF IInv, OneDatabasePerConn
  <1>4. FailedIsForgotten'
    <2> SUFFICES ASSUME NEW d \in DBs PROVE conns'[d].conn \notin failed'
      BY DEF FailedIsForgotten
    <2>1. CASE d \in T
      BY <1>1, <1>2, <2>1
    <2>2. CASE d \notin T
      <3>1. conns[d].conn \notin failed
        BY DEF IInv, FailedIsForgotten
      <3>2. ASSUME NEW e \in F PROVE conns[d].conn # conns[e].conn
        <4>1. conns[e].conn # NoConn
          BY DEF IInv, TypeOK
        <4> QED
          BY <4>1, <2>2 DEF IInv, OneDatabasePerConn
      <3> QED
        BY <3>1, <3>2, <2>2 DEF ConnsOf
    <2> QED
      BY <2>1, <2>2
  <1>5. NoOrphan'
    <2> SUFFICES ASSUME NEW x \in open', x \notin failed'
                 PROVE  \E d \in DBs : conns'[d].conn # NoConn /\ conns'[d].conn = x
      BY DEF NoOrphan, ConnsOf, Pool
    <2>1. PICK d \in DBs : conns[d].conn # NoConn /\ conns[d].conn = x
      BY DEF IInv, NoOrphan, ConnsOf, Pool
    <2>2. d \notin T
      BY <2>1 DEF ConnsOf
    <2> QED
      BY <2>1, <2>2
  <1>6. PoolBound'
    <2>1. Pool' \subseteq Pool
      BY DEF Pool
    <2>2. Cardinality(Pool') <= Cardinality(Pool) /\ Cardinality(Pool') \in Nat
      BY <2>1, PoolFinite, FS_Subset, FS_CardinalityType
    <2> QED
      BY <2>2, PoolFinite DEF IInv, PoolBound
  <1> QED
    BY <1>1, <1>2, <1>3, <1>4, <1>5, <1>6

\* Changing a flag of a ConnectionInfo leaves a ConnectionInfo.
LEMMA EntryUpdate ==
    ASSUME NEW n \in Entry
    PROVE  /\ [n EXCEPT !.active = FALSE] \in Entry
           /\ [n EXCEPT !.expired = TRUE] \in Entry
  BY DEF Entry

LEMMA WithoutType ==
    ASSUME IInv, NEW T \in SUBSET DBs
    PROVE  /\ Without(T) \in [DBs -> Entry]
           /\ \A d \in DBs : Without(T)[d] = IF d \in T THEN Absent ELSE conns[d]
           /\ \A d \in DBs : Without(T)[d].conn = IF d \in T THEN NoConn ELSE conns[d].conn
  BY DEF Without, Absent, Entry, IInv, TypeOK

\* The steps that only drop the entries of T, whichever method they belong to,
\* keep every part of the invariant that does not mention the lock.
LEMMA Shrinking ==
    ASSUME IInv,
           NEW T \in SUBSET DBs,
           NEW F \in SUBSET T,
           \A d \in F : conns[d].conn \in open,
           conns' = Without(T),
           open' = open \ ConnsOf(T \ F),
           failed' = failed \cup ConnsOf(F),
           NEW S \in SUBSET DBs,
           lru' = Keep(S)
    PROVE  /\ conns' \in [DBs -> Entry]
           /\ lru' \subseteq DBs \X DBs
           /\ open' \subseteq Conns
           /\ failed' \subseteq open'
           /\ OneDatabasePerConn'
           /\ FailedIsForgotten'
           /\ NoOrphan'
           /\ PoolBound'
           /\ AbsentIsInactive'
           /\ \A d \in DBs : \/ conns'[d] = conns[d] /\ d \notin T
                             \/ conns'[d].conn = NoConn /\ ~conns'[d].active /\ d \in T
  <1>1. /\ conns' \in [DBs -> Entry]
        /\ \A d \in DBs : conns'[d] = IF d \in T THEN Absent ELSE conns[d]
        /\ \A d \in DBs : conns'[d].conn = IF d \in T THEN NoConn ELSE conns[d].conn
    BY WithoutType
  <1>2. lru' \subseteq DBs \X DBs
    BY DEF Keep
  <1>3. \A d \in DBs : \/ conns'[d] = conns[d] /\ d \notin T
                       \/ conns'[d].conn = NoConn /\ ~conns'[d].active /\ d \in T
    BY <1>1 DEF Absent
  <1>4. AbsentIsInactive'
    BY <1>1, <1>3 DEF AbsentIsInactive, IInv
  <1> QED
    BY <1>1, <1>2, <1>3, <1>4, Termination

-----------------------------------------------------------------------------
LEMMA InitIInv == Init => IInv
  <1> SUFFICES ASSUME Init PROVE IInv
    OBVIOUS
  <1> USE PoolAssumption DEF Init
  <1>1. TypeOK
    BY DEF TypeOK, Absent, Entry
  <1>2. Pool = {}
    BY DEF Pool, Absent
  <1>3. PoolBound
    BY <1>2, FS_EmptySet DEF PoolBound
  <1> QED
    BY <1>1, <1>3 DEF IInv, LoopHoldsLock, InBlockHasRequest, AbsentIsInactive,
       OneDatabasePerConn, FailedIsForgotten, HeldUnderItsName, NoOrphan,
       ActiveHasUser, Absent

\* What MayFail gives about the connections whose close() raises.
LEMMA MayFailSubset ==
    ASSUME NEW T, NEW F \in MayFail(T)
    PROVE  F \subseteq T /\ \A d \in F : conns[d].conn \in open
  BY DEF MayFail

\* The steps taken when no client is in the loop, and that neither admit a
\* client to a connection nor release one: prune and close_all.
LEMMA DropStep ==
    ASSUME IInv,
           NEW T \in SUBSET Pool,
           NEW F \in MayFail(T), Close(T, F),
           conns' = Without(T),
           lru' = Keep(Pool \ T),
           UNCHANGED <<mu, pc, req, held>>
    PROVE  IInv'
  <1>1. T \in SUBSET DBs /\ Pool \ T \in SUBSET DBs
    BY DEF Pool
  <1>2. F \in SUBSET T /\ \A d \in F : conns[d].conn \in open
    BY MayFailSubset
  <1>3. /\ conns' \in [DBs -> Entry]
        /\ lru' \subseteq DBs \X DBs
        /\ open' \subseteq Conns
        /\ failed' \subseteq open'
        /\ OneDatabasePerConn'
        /\ FailedIsForgotten'
        /\ NoOrphan'
        /\ PoolBound'
        /\ AbsentIsInactive'
        /\ \A d \in DBs : \/ conns'[d] = conns[d] /\ d \notin T
                          \/ conns'[d].conn = NoConn /\ ~conns'[d].active /\ d \in T
    BY <1>1, <1>2, Shrinking DEF Close
  <1>4. TypeOK'
    BY <1>3 DEF IInv, TypeOK
  <1>5. InBlockHasRequest'
    BY DEF IInv, InBlockHasRequest
  <1>6. LoopHoldsLock'
    BY <1>3 DEF IInv, LoopHoldsLock, InBlockHasRequest, Request
  <1>7. HeldUnderItsName'
    BY <1>3 DEF IInv, HeldUnderItsName
  <1>8. ActiveHasUser'
    BY <1>3 DEF IInv, ActiveHasUser
  <1> QED
    BY <1>3, <1>4, <1>5, <1>6, <1>7, <1>8 DEF IInv

\* A client that is given the connection of a pooled entry.
LEMMA ReuseStep ==
    ASSUME IInv, NEW c \in Clients, NEW r \in Request, Reuse(c, r)
    PROVE  IInv'
  <1> DEFINE d0 == r.db
  <1> USE PoolAssumption
  <1>1. d0 \in DBs /\ d0 \in Pool \ Expired /\ conns[d0].conn \in Conns
    BY DEF Request, Reuse, Pooled, IInv, TypeOK
  <1>2. PICK F \in MayFail(Expired) : Close(Expired, F)
    BY DEF Reuse
  <1>3. Expired \in SUBSET DBs /\ F \in SUBSET Expired /\ \A d \in F : conns[d].conn \in open
    BY MayFailSubset DEF Expired, Pool
  <1>4. conns' = [Without(Expired) EXCEPT ![d0] =
                    [conn |-> conns[d0].conn, active |-> TRUE, expired |-> FALSE,
                     persistent |-> conns[d0].persistent]]
    BY DEF Reuse
  <1>5. conns[d0].persistent \in BOOLEAN
    BY <1>1 DEF IInv, TypeOK, Entry
  <1>6. /\ conns' \in [DBs -> Entry]
        /\ conns'[d0].conn = conns[d0].conn
        /\ \A d \in DBs \ {d0} : conns'[d] = IF d \in Expired THEN Absent ELSE conns[d]
    BY <1>1, <1>3, <1>4, <1>5, WithoutType DEF Entry
  <1>7. \A d \in DBs : conns'[d].conn = IF d \in Expired THEN NoConn ELSE conns[d].conn
    BY <1>1, <1>6 DEF Absent
  <1>8. /\ open' \subseteq Conns
        /\ failed' \subseteq open'
        /\ OneDatabasePerConn'
        /\ FailedIsForgotten'
        /\ NoOrphan'
        /\ PoolBound'
    BY <1>2, <1>3, <1>6, <1>7, Termination DEF Close
  <1>9. TypeOK'
    <2>1. lru' \subseteq DBs \X DBs
      BY <1>1 DEF Reuse, Touch, Pool, IInv, TypeOK
    <2>2. /\ mu' \in Clients \cup {Free}
          /\ pc' \in [Clients -> {"idle", "acquiring", "using", "leaving"}]
          /\ req' \in [Clients -> Request \cup {NoRequest}]
          /\ held' \in [Clients -> Conns \cup {NoConn}]
      BY <1>1 DEF Reuse, Calls, IInv, TypeOK
    <2> QED
      BY <2>1, <2>2, <1>6, <1>8 DEF TypeOK
  <1>10. LoopHoldsLock' /\ InBlockHasRequest'
    BY DEF Reuse, Calls, IInv, TypeOK, LoopHoldsLock, InBlockHasRequest
  <1>11. AbsentIsInactive'
    BY <1>1, <1>6 DEF IInv, AbsentIsInactive, Absent
  <1>12. HeldUnderItsName'
    <2> SUFFICES ASSUME NEW b \in Clients, NEW d \in DBs, pc'[b] = "using",
                        held'[b] = conns'[d].conn, held'[b] # NoConn
                 PROVE  req'[b].db = d
      BY DEF HeldUnderItsName
    <2>1. CASE b = c
      <3>1. held'[c] = conns[d0].conn /\ req'[c] = r
        BY DEF Reuse, Calls, IInv, TypeOK
      <3>2. conns[d].conn = conns[d0].conn
        BY <1>7, <2>1, <3>1
      <3> QED
        BY <1>1, <2>1, <3>1, <3>2 DEF IInv, OneDatabasePerConn
    <2>2. CASE b # c
      <3>1. held'[b] = held[b] /\ req'[b] = req[b] /\ pc'[b] = pc[b]
        BY <2>2 DEF Reuse, Calls, IInv, TypeOK
      <3> QED
        BY <3>1, <1>7 DEF IInv, HeldUnderItsName
    <2> QED
      BY <2>1, <2>2
  <1>13. ActiveHasUser'
    <2> SUFFICES ASSUME NEW d \in DBs, conns'[d].active
                 PROVE  \E b \in Clients : pc'[b] = "using" /\ held'[b] = conns'[d].conn
      BY DEF ActiveHasUser
    <2>1. CASE d = d0
      BY <1>6, <2>1 DEF Reuse, IInv, TypeOK
    <2>2. CASE d # d0
      <3>1. conns'[d] = conns[d] /\ conns[d].active
        BY <1>6, <2>2 DEF Absent
      <3>2. PICK b \in Clients : pc[b] = "using" /\ held[b] = conns[d].conn
        BY <3>1 DEF IInv, ActiveHasUser
      <3>3. b # c
        BY <3>2 DEF Reuse, Calls
      <3> QED
        BY <3>1, <3>2, <3>3 DEF Reuse, IInv, TypeOK
    <2> QED
      BY <2>1, <2>2
  <1> QED
    BY <1>8, <1>9, <1>10, <1>11, <1>12, <1>13 DEF IInv

\* A client whose call drops the entry of its database: it finds no usable
\* connection, or the rollback of the one it finds fails.
LEMMA MissStep ==
    ASSUME IInv, NEW c \in Clients, NEW r \in Request,
           Miss(c, r) \/ RollbackFails(c, r)
    PROVE  IInv'
  <1> DEFINE T == Expired \cup {r.db}
  <1> USE PoolAssumption
  <1>1. r.db \in DBs
    BY DEF Request
  <1>2. T \in SUBSET DBs /\ Pool \ T \in SUBSET DBs
    BY <1>1 DEF Expired, Pool
  <1>3. PICK F \in MayFail(Expired) :
           /\ open' = open \ ConnsOf(T \ F)
           /\ failed' = failed \cup ConnsOf(F)
           /\ F \subseteq Expired
           /\ \A d \in F : conns[d].conn \in open
    <2>1. CASE Miss(c, r)
      <3>1. PICK F \in MayFail(Expired) : Close(Expired, F)
        BY <2>1 DEF Miss
      <3>2. F \subseteq Expired /\ \A d \in F : conns[d].conn \in open
        BY MayFailSubset
      <3>3. r.db \in Expired \/ conns[r.db].conn \notin open
        BY <2>1, <1>1 DEF Miss, Pooled, Pool, IInv, TypeOK
      <3>4. open' = open \ ConnsOf(T \ F)
        BY <3>1, <3>2, <3>3 DEF Close, ConnsOf
      <3> QED
        BY <3>1, <3>2, <3>4 DEF Close
    <2>2. CASE RollbackFails(c, r)
      <3>1. PICK F \in MayFail(Expired) :
               /\ open' = (open \ ConnsOf(Expired \ F)) \ {conns[r.db].conn}
               /\ failed' = failed \cup ConnsOf(F)
        BY <2>2 DEF RollbackFails
      <3>2. F \subseteq Expired /\ \A d \in F : conns[d].conn \in open
        BY MayFailSubset
      <3>3. r.db \notin Expired
        BY <2>2 DEF RollbackFails, Pooled
      <3>4. open' = open \ ConnsOf(T \ F)
        BY <3>1, <3>2, <3>3 DEF ConnsOf
      <3> QED
        BY <3>1, <3>2, <3>4
    <2> QED
      BY <2>1, <2>2
  <1>4. conns' = Without(T) /\ lru' = Keep(Pool \ T)
    BY DEF Miss, RollbackFails
  <1>5. /\ conns' \in [DBs -> Entry]
        /\ lru' \subseteq DBs \X DBs
        /\ open' \subseteq Conns
        /\ failed' \subseteq open'
        /\ OneDatabasePerConn'
        /\ FailedIsForgotten'
        /\ NoOrphan'
        /\ PoolBound'
        /\ AbsentIsInactive'
        /\ \A d \in DBs : \/ conns'[d] = conns[d] /\ d \notin T
                          \/ conns'[d].conn = NoConn /\ ~conns'[d].active /\ d \in T
    <2>1. F \in SUBSET T
      BY <1>3
    <2> HIDE DEF T
    <2> QED
      BY <1>2, <1>3, <1>4, <2>1, Shrinking
  <1>6. /\ mu = Free /\ pc[c] = "idle"
        /\ req' = [req EXCEPT ![c] = r]
        /\ held' = held
        /\ \/ mu' = c /\ pc' = [pc EXCEPT ![c] = "acquiring"]
           \/ mu' = mu /\ pc' = [pc EXCEPT ![c] = "leaving"]
    BY DEF Miss, RollbackFails, Calls
  <1>7. TypeOK'
    BY <1>5, <1>6 DEF IInv, TypeOK
  <1>8. InBlockHasRequest'
    BY <1>6 DEF IInv, TypeOK, InBlockHasRequest
  <1>9. LoopHoldsLock'
    <2>1. conns'[r.db].conn = NoConn
      BY <1>1, <1>5
    <2> QED
      BY <1>6, <2>1 DEF IInv, TypeOK, LoopHoldsLock
  <1>10. HeldUnderItsName'
    BY <1>5, <1>6 DEF IInv, TypeOK, HeldUnderItsName
  <1>11. ActiveHasUser'
    BY <1>5, <1>6 DEF IInv, TypeOK, ActiveHasUser
  <1> QED
    BY <1>5, <1>7, <1>8, <1>9, <1>10, <1>11 DEF IInv

\* A turn of the loop.
LEMMA LoopStep ==
    ASSUME IInv, NEW c \in Clients, Iterate(c) \/ TimeOut(c)
    PROVE  IInv'
  <1> DEFINE T == Expired \cup EvictLru(Pool \ Expired)
  <1> USE PoolAssumption
  <1>1. T \in SUBSET Pool
    BY DEF Expired, EvictLru
  <1>2. PruneAndEvict
    BY DEF Iterate, TimeOut
  <1>3. PICK F \in MayFail(T) : Close(T, F)
    BY <1>2 DEF PruneAndEvict
  <1>4. conns' = Without(T) /\ lru' = Keep(Pool \ T)
    BY <1>2 DEF PruneAndEvict
  <1> HIDE DEF T
  <1>5. CASE Iterate(c)
    BY <1>1, <1>3, <1>4, <1>5, DropStep DEF Iterate
  <1>6. CASE TimeOut(c)
    <2>1. T \in SUBSET DBs /\ Pool \ T \in SUBSET DBs
      BY <1>1 DEF Pool
    <2>2. F \in SUBSET T /\ \A d \in F : conns[d].conn \in open
      BY <1>3, MayFailSubset
    <2>3. /\ conns' \in [DBs -> Entry]
          /\ lru' \subseteq DBs \X DBs
          /\ open' \subseteq Conns
          /\ failed' \subseteq open'
          /\ OneDatabasePerConn'
          /\ FailedIsForgotten'
          /\ NoOrphan'
          /\ PoolBound'
          /\ AbsentIsInactive'
          /\ \A d \in DBs : \/ conns'[d] = conns[d] /\ d \notin T
                            \/ conns'[d].conn = NoConn /\ ~conns'[d].active /\ d \in T
      BY <1>3, <1>4, <2>1, <2>2, Shrinking DEF Close
    <2>4. /\ mu = c /\ mu' = Free
          /\ pc' = [pc EXCEPT ![c] = "leaving"]
          /\ req' = req /\ held' = held
      BY <1>6 DEF TimeOut
    <2>5. pc[c] = "acquiring"
      BY <2>4 DEF IInv, LoopHoldsLock
    <2>6. TypeOK'
      BY <2>3, <2>4 DEF IInv, TypeOK
    <2>7. InBlockHasRequest'
      BY <2>4, <2>5 DEF IInv, TypeOK, InBlockHasRequest
    <2>8. LoopHoldsLock'
      BY <2>4 DEF IInv, TypeOK, LoopHoldsLock
    <2>9. HeldUnderItsName'
      BY <2>3, <2>4 DEF IInv, TypeOK, HeldUnderItsName
    <2>10. ActiveHasUser'
      BY <2>3, <2>4, <2>5 DEF IInv, TypeOK, ActiveHasUser
    <2> QED
      BY <2>3, <2>6, <2>7, <2>8, <2>9, <2>10 DEF IInv
  <1> QED
    BY <1>5, <1>6

\* There is room, so the new entry does not exceed max_conns, and the client's
\* database is still unpooled, so it replaces nothing.
LEMMA ConnectStep ==
    ASSUME IInv, NEW c \in Clients, Connect(c)
    PROVE  IInv'
  <1> DEFINE d0 == req[c].db
  <1> USE PoolAssumption
  <1>1. /\ mu = c /\ pc[c] = "acquiring"
        /\ req[c] \in Request /\ d0 \in DBs
        /\ conns[d0].conn = NoConn
    BY DEF Connect, IInv, LoopHoldsLock, InBlockHasRequest, Request
  <1>2. PICK x \in Conns :
           /\ Fresh(x)
           /\ open' = open \cup {x}
           /\ conns' = [conns EXCEPT ![d0] =
                           [conn |-> x, active |-> TRUE, expired |-> FALSE,
                            persistent |-> req[c].persistent]]
           /\ held' = [held EXCEPT ![c] = x]
    BY DEF Connect
  <1>3. /\ mu' = Free
        /\ pc' = [pc EXCEPT ![c] = "using"]
        /\ failed' = failed /\ req' = req
        /\ lru' = Touch(d0, Pool)
    BY DEF Connect
  <1>4. /\ x # NoConn /\ x \notin open
        /\ \A d \in DBs : conns[d].conn # x
        /\ \A b \in Clients : held[b] # x
    BY <1>2 DEF Fresh
  <1>4a. /\ open' = open \cup {x}
         /\ conns' = [conns EXCEPT ![d0] =
                           [conn |-> x, active |-> TRUE, expired |-> FALSE,
                            persistent |-> req[c].persistent]]
         /\ held' = [held EXCEPT ![c] = x]
    BY <1>2
  <1>5. /\ conns' \in [DBs -> Entry]
        /\ conns'[d0].conn = x
        /\ \A d \in DBs \ {d0} : conns'[d] = conns[d]
    BY <1>1, <1>4a DEF IInv, TypeOK, Entry, Request
  <1>6. TypeOK'
    <2>1. lru' \subseteq DBs \X DBs
      BY <1>1, <1>3 DEF Touch, Pool, IInv, TypeOK
    <2> QED
      BY <2>1, <1>3, <1>4a, <1>5 DEF IInv, TypeOK
  <1>7. LoopHoldsLock' /\ InBlockHasRequest'
    BY <1>1, <1>3 DEF IInv, TypeOK, LoopHoldsLock, InBlockHasRequest
  <1>8. AbsentIsInactive' /\ OneDatabasePerConn' /\ FailedIsForgotten'
    BY <1>1, <1>3, <1>4, <1>5 DEF IInv, TypeOK, AbsentIsInactive, OneDatabasePerConn,
       FailedIsForgotten
  <1>9. HeldUnderItsName'
    <2> SUFFICES ASSUME NEW b \in Clients, NEW d \in DBs, pc'[b] = "using",
                        held'[b] = conns'[d].conn, held'[b] # NoConn
                 PROVE  req'[b].db = d
      BY DEF HeldUnderItsName
    <2>1. CASE b = c
      BY <1>3, <1>4, <1>4a, <1>5, <2>1 DEF IInv, TypeOK
    <2>2. CASE b # c
      <3>1. held'[b] = held[b] /\ req'[b] = req[b] /\ pc'[b] = pc[b]
        BY <1>3, <1>4a, <2>2 DEF IInv, TypeOK
      <3>2. d # d0
        BY <3>1, <1>4, <1>5
      <3> QED
        BY <3>1, <3>2, <1>5 DEF IInv, HeldUnderItsName
    <2> QED
      BY <2>1, <2>2
  <1>10. NoOrphan'
    BY <1>1, <1>3, <1>4, <1>4a, <1>5 DEF IInv, NoOrphan, ConnsOf, Pool
  <1>11. ActiveHasUser'
    <2> SUFFICES ASSUME NEW d \in DBs, conns'[d].active
                 PROVE  \E b \in Clients : pc'[b] = "using" /\ held'[b] = conns'[d].conn
      BY DEF ActiveHasUser
    <2>1. CASE d = d0
      BY <1>3, <1>4a, <1>5, <2>1 DEF IInv, TypeOK
    <2>2. CASE d # d0
      <3>1. conns'[d] = conns[d]
        BY <1>5, <2>2
      <3>2. PICK b \in Clients : pc[b] = "using" /\ held[b] = conns[d].conn
        BY <3>1 DEF IInv, ActiveHasUser
      <3> QED
        BY <1>1, <1>3, <1>4a, <3>1, <3>2 DEF IInv, TypeOK
    <2> QED
      BY <2>1, <2>2
  <1>12. PoolBound'
    <2>1. Pool' = Pool \cup {d0}
      BY <1>1, <1>4, <1>5 DEF Pool
    <2>2. Cardinality(Pool') <= Cardinality(Pool) + 1 /\ Cardinality(Pool') \in Nat
      <3> HIDE DEF d0
      <3>1. /\ IsFiniteSet(Pool \cup {d0})
            /\ Cardinality(Pool \cup {d0}) =
                 IF d0 \in Pool THEN Cardinality(Pool) ELSE Cardinality(Pool) + 1
        BY PoolFinite, FS_AddElement
      <3> QED
        BY <2>1, <3>1, PoolFinite
    <2>3. Cardinality(Pool) < MaxConns
      BY PoolFinite DEF Connect, Full
    <2> QED
      BY <2>2, <2>3, PoolFinite DEF PoolBound
  <1> QED
    BY <1>6, <1>7, <1>8, <1>9, <1>10, <1>11, <1>12 DEF IInv

\* connect_fn raises: only the lock is given back.
LEMMA ConnectFailsStep ==
    ASSUME IInv, NEW c \in Clients, ConnectFails(c)
    PROVE  IInv'
  <1> USE PoolAssumption DEF ConnectFails
  <1>1. pc[c] = "acquiring"
    BY DEF IInv, LoopHoldsLock
  <1>2. TypeOK'
    BY DEF IInv, TypeOK
  <1>3. LoopHoldsLock' /\ InBlockHasRequest'
    BY <1>1 DEF IInv, TypeOK, LoopHoldsLock, InBlockHasRequest
  <1>4. AbsentIsInactive' /\ OneDatabasePerConn' /\ FailedIsForgotten' /\ PoolBound' /\ NoOrphan'
    BY DEF IInv, AbsentIsInactive, OneDatabasePerConn, FailedIsForgotten, PoolBound, NoOrphan,
       ConnsOf, Pool
  <1>5. HeldUnderItsName' /\ ActiveHasUser'
    BY <1>1 DEF IInv, TypeOK, HeldUnderItsName, ActiveHasUser
  <1> QED
    BY <1>2, <1>3, <1>4, <1>5 DEF IInv

\* Leaving a block deactivates the entry of the client's database.  An entry
\* that stays active belongs to another client, because a connection is pooled
\* only under the database its user asked for.
LEMMA LeaveStep ==
    ASSUME IInv, NEW c \in Clients, Leave(c)
    PROVE  IInv'
  <1> USE PoolAssumption DEF Leave
  <1>1. req[c] \in Request /\ req[c].db \in DBs
    BY DEF IInv, InBlockHasRequest, Request
  <1>2. /\ conns' \in [DBs -> Entry]
        /\ \A d \in DBs : conns'[d].conn = conns[d].conn
        /\ \A d \in DBs : conns'[d].active => conns[d].active /\ d # req[c].db
    <2>1. \A d \in DBs : conns'[d] = IF d = req[c].db THEN [conns[d] EXCEPT !.active = FALSE]
                                                     ELSE conns[d]
      BY <1>1 DEF IInv, TypeOK
    <2>2. \A d \in DBs : conns[d] \in Entry
      BY DEF IInv, TypeOK
    <2>3. \A d \in DBs : conns'[d] \in Entry
      BY <2>1, <2>2, EntryUpdate
    <2>4. conns' \in [DBs -> Entry]
      BY <2>3 DEF IInv, TypeOK
    <2>5. \A d \in DBs : conns'[d].conn = conns[d].conn
      BY <2>1, <2>2 DEF Entry
    <2>6. \A d \in DBs : conns'[d].active => conns[d].active /\ d # req[c].db
      BY <2>1, <2>2 DEF Entry
    <2> QED
      BY <2>4, <2>5, <2>6
  <1>3. TypeOK'
    BY <1>2 DEF IInv, TypeOK
  <1>4. LoopHoldsLock' /\ InBlockHasRequest'
    BY <1>2 DEF IInv, TypeOK, LoopHoldsLock, InBlockHasRequest, Request
  <1>5. AbsentIsInactive' /\ OneDatabasePerConn' /\ FailedIsForgotten'
    BY <1>2 DEF IInv, AbsentIsInactive, OneDatabasePerConn, FailedIsForgotten
  <1>6. Pool' = Pool
    BY <1>2 DEF Pool
  <1>7. PoolBound' /\ NoOrphan'
    <2>1. PoolBound'
      BY <1>6 DEF IInv, PoolBound
    <2>2. NoOrphan'
      BY <1>2, <1>6 DEF IInv, NoOrphan, ConnsOf, Pool
    <2> QED
      BY <2>1, <2>2
  <1>8. HeldUnderItsName'
    BY <1>2 DEF IInv, TypeOK, HeldUnderItsName
  <1>9. ActiveHasUser'
    <2> SUFFICES ASSUME NEW d \in DBs, conns'[d].active
                 PROVE  \E b \in Clients : pc'[b] = "using" /\ held'[b] = conns'[d].conn
      BY DEF ActiveHasUser
    <2>1. conns[d].active /\ d # req[c].db /\ conns[d].conn # NoConn
      BY <1>2 DEF IInv, AbsentIsInactive
    <2>2. PICK b \in Clients : pc[b] = "using" /\ held[b] = conns[d].conn
      BY <2>1 DEF IInv, ActiveHasUser
    <2>3. b # c
      BY <2>1, <2>2 DEF IInv, HeldUnderItsName
    <2> QED
      BY <1>2, <2>2, <2>3 DEF IInv, TypeOK
  <1> QED
    BY <1>3, <1>4, <1>5, <1>7, <1>8, <1>9 DEF IInv

\* Time and the server: deadlines pass, connections break.
LEMMA OutsideStep ==
    ASSUME IInv, (\E d \in DBs : Expire(d)) \/ (\E c \in Clients : Break(c))
    PROVE  IInv'
  <1> USE PoolAssumption
  <1>1. ASSUME NEW d \in DBs, Expire(d) PROVE IInv'
    <2> USE <1>1 DEF Expire
    <2>1. /\ conns' \in [DBs -> Entry]
          /\ \A e \in DBs : conns'[e].conn = conns[e].conn /\ conns'[e].active = conns[e].active
      <3>1. \A e \in DBs : conns'[e] = IF e = d THEN [conns[e] EXCEPT !.expired = TRUE]
                                              ELSE conns[e]
        BY DEF IInv, TypeOK
      <3>2. \A e \in DBs : conns[e] \in Entry
        BY DEF IInv, TypeOK
      <3>3. \A e \in DBs : conns'[e] \in Entry
        BY <3>1, <3>2, EntryUpdate
      <3>4. conns' \in [DBs -> Entry]
        BY <3>3 DEF IInv, TypeOK
      <3>5. \A e \in DBs : conns'[e].conn = conns[e].conn
        BY <3>1, <3>2 DEF Entry
      <3>6. \A e \in DBs : conns'[e].active = conns[e].active
        BY <3>1, <3>2 DEF Entry
      <3> QED
        BY <3>4, <3>5, <3>6
    <2>2. Pool' = Pool
      BY <2>1 DEF Pool
    <2>3. TypeOK' /\ InBlockHasRequest'
      BY <2>1 DEF IInv, TypeOK, InBlockHasRequest
    <2>4. LoopHoldsLock'
      BY <2>1 DEF IInv, LoopHoldsLock, InBlockHasRequest, Request
    <2>5. AbsentIsInactive' /\ OneDatabasePerConn' /\ FailedIsForgotten'
      BY <2>1 DEF IInv, AbsentIsInactive, OneDatabasePerConn, FailedIsForgotten
    <2>6. HeldUnderItsName' /\ ActiveHasUser'
      BY <2>1 DEF IInv, HeldUnderItsName, ActiveHasUser
    <2>7. PoolBound'
      BY <2>2 DEF IInv, PoolBound
    <2>8. NoOrphan'
      BY <2>1, <2>2 DEF IInv, NoOrphan, ConnsOf, Pool
    <2> QED
      BY <2>3, <2>4, <2>5, <2>6, <2>7, <2>8 DEF IInv
  <1>2. ASSUME NEW c \in Clients, Break(c) PROVE IInv'
    <2> USE <1>2 DEF Break
    <2>1. TypeOK'
      BY DEF IInv, TypeOK
    <2>2. NoOrphan'
      BY DEF IInv, NoOrphan, ConnsOf, Pool
    <2>3. PoolBound'
      BY DEF IInv, PoolBound, Pool
    <2> QED
      BY <2>1, <2>2, <2>3 DEF IInv, LoopHoldsLock, InBlockHasRequest, AbsentIsInactive,
         OneDatabasePerConn, FailedIsForgotten, HeldUnderItsName, ActiveHasUser
  <1> QED
    BY <1>1, <1>2

LEMMA NextIInv == IInv /\ [Next]_vars => IInv'
  <1> SUFFICES ASSUME IInv, [Next]_vars PROVE IInv'
    OBVIOUS
  <1>1. ASSUME NEW c \in Clients, NEW r \in Request, Reuse(c, r) PROVE IInv'
    BY <1>1, ReuseStep
  <1>2. ASSUME NEW c \in Clients, NEW r \in Request, Miss(c, r) \/ RollbackFails(c, r)
        PROVE  IInv'
    BY <1>2, MissStep
  <1>3. ASSUME NEW c \in Clients, Iterate(c) \/ TimeOut(c) PROVE IInv'
    BY <1>3, LoopStep
  <1>4. ASSUME NEW c \in Clients, Connect(c) PROVE IInv'
    BY <1>4, ConnectStep
  <1>5. ASSUME NEW c \in Clients, ConnectFails(c) PROVE IInv'
    BY <1>5, ConnectFailsStep
  <1>6. ASSUME NEW c \in Clients, Leave(c) PROVE IInv'
    BY <1>6, LeaveStep
  <1>7. CASE PruneConnections
    <2>1. Expired \in SUBSET Pool
      BY DEF Expired
    <2> QED
      BY <1>7, <2>1, DropStep DEF PruneConnections
  <1>8. CASE CloseAllConnections
    <2>1. Keep(Pool \ Pool) = {}
      BY DEF Keep
    <2> QED
      BY <1>8, <2>1, DropStep DEF CloseAllConnections
  <1>9. ASSUME (\E d \in DBs : Expire(d)) \/ (\E c \in Clients : Break(c)) PROVE IInv'
    BY <1>9, OutsideStep
  <1>10. CASE UNCHANGED vars
    BY <1>10 DEF vars, IInv, TypeOK, LoopHoldsLock, InBlockHasRequest, AbsentIsInactive,
       OneDatabasePerConn, FailedIsForgotten, HeldUnderItsName, NoOrphan, ActiveHasUser,
       PoolBound, ConnsOf, Pool
  <1> QED
    BY <1>1, <1>2, <1>3, <1>4, <1>5, <1>6, <1>7, <1>8, <1>9, <1>10 DEF Next

-----------------------------------------------------------------------------
\* The inductive invariant holds in every reachable state of the pool.
THEOREM Invariance == Spec => []IInv
  BY InitIInv, NextIInv, PTL DEF Spec

\* The pool's variables keep their types; in particular a connection whose
\* close() raised is not closed by a later step.
THEOREM TypeCorrect == Spec => []TypeOK
  <1>1. IInv => TypeOK
    BY DEF IInv
  <1> QED
    BY <1>1, Invariance, PTL

\* Every connection that is open and did not fail to close is the pooled
\* connection of some database, whatever methods the threads call in whatever
\* order and whichever of them fail.
THEOREM OrphanFreedom == Spec => []NoOrphan
  <1>1. IInv => NoOrphan
    BY DEF IInv
  <1> QED
    BY <1>1, Invariance, PTL

\* The number of open connections never exceeds max_conns, apart from the ones
\* that failed to close.
THEOREM LimitRespected == Spec => []ConnectionLimit
  <1>1. IInv => ConnectionLimit
    <2> SUFFICES ASSUME IInv PROVE ConnectionLimit
      OBVIOUS
    <2> DEFINE f == [d \in Pool |-> conns[d].conn]
    <2>1. f \in Surjection(Pool, ConnsOf(Pool))
      BY DEF Surjection, ConnsOf
    <2>2. IsFiniteSet(ConnsOf(Pool)) /\ Cardinality(ConnsOf(Pool)) <= Cardinality(Pool)
      BY <2>1, PoolFinite, FS_Surjection
    <2>3. open \ failed \in SUBSET ConnsOf(Pool)
      BY DEF IInv, NoOrphan
    <2>4. Cardinality(open \ failed) <= Cardinality(ConnsOf(Pool))
      BY <2>2, <2>3, FS_Subset
    <2>5. Cardinality(open \ failed) \in Nat /\ Cardinality(ConnsOf(Pool)) \in Nat
      BY <2>2, <2>3, FS_Subset, FS_CardinalityType
    <2> QED
      BY <2>2, <2>4, <2>5, PoolFinite, PoolAssumption DEF IInv, PoolBound, ConnectionLimit
  <1> QED
    BY <1>1, Invariance, PTL

\* An entry marked active is held by a client inside its block: no exception
\* path leaves a connection marked active for ever, which evict_lru could then
\* never reclaim.
THEOREM ActiveIsUsed == Spec => []ActiveHasUser
  <1>1. IInv => ActiveHasUser
    BY DEF IInv
  <1> QED
    BY <1>1, Invariance, PTL

-----------------------------------------------------------------------------
(* When eviction does spare what is in use *)

\* No two blocks on one database overlap.
OneBlockPerDatabase ==
    \A b, c \in Clients :
        pc[b] # "idle" /\ pc[c] # "idle" /\ req[b].db = req[c].db => b = c

\* The entry of a connection in use is active.
UsedIsActive ==
    \A c \in Clients : \A d \in DBs :
        (pc[c] = "using" /\ held[c] = conns[d].conn /\ held[c] # NoConn)
            => conns[d].active

\* A step by which nobody gets a connection, and that drops entries or leaves them
\* and their flags alone.
LEMMA DropKeepsUsed ==
    ASSUME UsedIsActive,
           \A d \in DBs : \/ conns'[d].conn = NoConn
                          \/ conns'[d].conn = conns[d].conn /\ conns'[d].active = conns[d].active,
           \A c \in Clients : pc'[c] = "using" => pc[c] = "using",
           held' = held
    PROVE  UsedIsActive'
  BY DEF UsedIsActive

LEMMA WithoutEntries ==
    ASSUME IInv, NEW T \in SUBSET DBs, conns' = Without(T)
    PROVE  \A d \in DBs : \/ conns'[d].conn = NoConn
                          \/ conns'[d].conn = conns[d].conn /\ conns'[d].active = conns[d].active
  BY WithoutType

\* A client that is given a connection, whose entry becomes active.
LEMMA AdmitKeepsUsed ==
    ASSUME IInv, UsedIsActive, NEW c \in Clients, NEW d0 \in DBs,
           held' = [held EXCEPT ![c] = conns'[d0].conn],
           pc' = [pc EXCEPT ![c] = "using"],
           conns'[d0].active, OneDatabasePerConn',
           \A d \in DBs \ {d0} : conns'[d].conn = NoConn \/ conns'[d] = conns[d]
    PROVE  UsedIsActive'
  <1> SUFFICES ASSUME NEW b \in Clients, NEW d \in DBs, pc'[b] = "using",
                      held'[b] = conns'[d].conn, held'[b] # NoConn
               PROVE  conns'[d].active
    BY DEF UsedIsActive
  <1>1. CASE d = d0
    BY <1>1
  <1>2. CASE d # d0
    <2>1. conns'[d] = conns[d]
      BY <1>2
    <2>2. b # c
      <3>1. held'[c] = conns'[d0].conn
        BY DEF IInv, TypeOK
      <3> QED
        BY <1>2, <3>1 DEF OneDatabasePerConn
    <2>3. pc[b] = "using" /\ held[b] = held'[b]
      BY <2>2 DEF IInv, TypeOK
    <2> QED
      BY <2>1, <2>3 DEF UsedIsActive
  <1> QED
    BY <1>1, <1>2

LEMMA UsedStep ==
    ASSUME IInv, OneBlockPerDatabase, UsedIsActive, [Next]_vars
    PROVE  UsedIsActive'
  <1> USE PoolAssumption
  <1>1. IInv'
    BY NextIInv
  <1>2. Expired \in SUBSET DBs /\ Pool \in SUBSET DBs
    BY DEF Expired, Pool
  <1>3. ASSUME NEW c \in Clients, NEW r \in Request, Reuse(c, r) PROVE UsedIsActive'
    <2>1. /\ r.db \in DBs
          /\ conns' = [Without(Expired) EXCEPT ![r.db] =
                          [conn |-> conns[r.db].conn, active |-> TRUE, expired |-> FALSE,
                           persistent |-> conns[r.db].persistent]]
          /\ held' = [held EXCEPT ![c] = conns[r.db].conn]
          /\ pc' = [pc EXCEPT ![c] = "using"]
      BY <1>3 DEF Reuse, Request
    <2>2. /\ conns'[r.db].conn = conns[r.db].conn /\ conns'[r.db].active
          /\ \A d \in DBs \ {r.db} : conns'[d].conn = NoConn \/ conns'[d] = conns[d]
      BY <1>2, <2>1, WithoutType
    <2>3. OneDatabasePerConn'
      BY <1>1 DEF IInv
    <2> QED
      BY <2>1, <2>2, <2>3, AdmitKeepsUsed
  <1>4. ASSUME NEW c \in Clients, Connect(c) PROVE UsedIsActive'
    <2>1. req[c].db \in DBs
      BY <1>4 DEF Connect, IInv, LoopHoldsLock, InBlockHasRequest, Request
    <2>2. PICK x \in Conns :
             /\ conns' = [conns EXCEPT ![req[c].db] =
                             [conn |-> x, active |-> TRUE, expired |-> FALSE,
                              persistent |-> req[c].persistent]]
             /\ held' = [held EXCEPT ![c] = x]
             /\ pc' = [pc EXCEPT ![c] = "using"]
      BY <1>4 DEF Connect
    <2>3. /\ conns'[req[c].db].conn = x /\ conns'[req[c].db].active
          /\ \A d \in DBs \ {req[c].db} : conns'[d] = conns[d]
      BY <2>1, <2>2 DEF IInv, TypeOK
    <2>4. OneDatabasePerConn'
      BY <1>1 DEF IInv
    <2> QED
      BY <2>1, <2>2, <2>3, <2>4, AdmitKeepsUsed
  <1>5. ASSUME NEW c \in Clients, NEW r \in Request, Miss(c, r) \/ RollbackFails(c, r)
        PROVE  UsedIsActive'
    <2>1. Expired \cup {r.db} \in SUBSET DBs
      BY <1>2 DEF Request
    <2>2. conns' = Without(Expired \cup {r.db}) /\ held' = held
      BY <1>5 DEF Miss, RollbackFails
    <2>3. \A b \in Clients : pc'[b] = "using" => pc[b] = "using"
      BY <1>5 DEF Miss, RollbackFails, IInv, TypeOK
    <2> QED
      BY <2>1, <2>2, <2>3, WithoutEntries, DropKeepsUsed
  <1>6. ASSUME NEW c \in Clients, Iterate(c) \/ TimeOut(c) PROVE UsedIsActive'
    <2>1. PICK T \in SUBSET DBs : conns' = Without(T)
      <3>1. Expired \cup EvictLru(Pool \ Expired) \in SUBSET DBs
        BY <1>2 DEF EvictLru
      <3> QED
        BY <1>6, <3>1 DEF Iterate, TimeOut, PruneAndEvict
    <2>2. held' = held /\ \A b \in Clients : pc'[b] = "using" => pc[b] = "using"
      BY <1>6 DEF Iterate, TimeOut, IInv, TypeOK
    <2> QED
      BY <2>1, <2>2, WithoutEntries, DropKeepsUsed
  <1>7. CASE PruneConnections \/ CloseAllConnections
    <2>1. PICK T \in SUBSET DBs : conns' = Without(T)
      BY <1>2, <1>7 DEF PruneConnections, CloseAllConnections
    <2>2. held' = held /\ pc' = pc
      BY <1>7 DEF PruneConnections, CloseAllConnections
    <2> QED
      BY <2>1, <2>2, WithoutEntries, DropKeepsUsed
  <1>8. ASSUME NEW c \in Clients, ConnectFails(c) \/ Break(c) PROVE UsedIsActive'
    <2>1. /\ conns' = conns /\ held' = held
          /\ \A b \in Clients : pc'[b] = "using" => pc[b] = "using"
      BY <1>8 DEF ConnectFails, Break, IInv, TypeOK
    <2> QED
      BY <2>1, DropKeepsUsed
  <1>9. ASSUME NEW e \in DBs, Expire(e) PROVE UsedIsActive'
    <2>1. \A d \in DBs : conns[d] \in Entry
      BY DEF IInv, TypeOK
    <2>2. \A d \in DBs : conns'[d] = IF d = e THEN [conns[d] EXCEPT !.expired = TRUE] ELSE conns[d]
      BY <1>9 DEF Expire, IInv, TypeOK
    <2>3. \A d \in DBs : conns'[d].conn = conns[d].conn
      BY <2>1, <2>2 DEF Entry
    <2>4. \A d \in DBs : conns'[d].active = conns[d].active
      BY <2>1, <2>2 DEF Entry
    <2> QED
      BY <1>9, <2>3, <2>4, DropKeepsUsed DEF Expire
  <1>10. ASSUME NEW c \in Clients, Leave(c) PROVE UsedIsActive'
    <2> SUFFICES ASSUME NEW b \in Clients, NEW d \in DBs, pc'[b] = "using",
                        held'[b] = conns'[d].conn, held'[b] # NoConn
                 PROVE  conns'[d].active
      BY DEF UsedIsActive
    <2>1. b # c /\ pc[b] = "using" /\ held[b] = held'[b] /\ pc[c] # "idle"
      BY <1>10 DEF Leave, IInv, TypeOK
    <2>2. \A e \in DBs : conns[e] \in Entry
      BY DEF IInv, TypeOK
    <2>3. \A e \in DBs : conns'[e] = IF e = req[c].db THEN [conns[e] EXCEPT !.active = FALSE]
                                                      ELSE conns[e]
      BY <1>10 DEF Leave, IInv, TypeOK
    <2>4. conns'[d].conn = conns[d].conn
      BY <2>2, <2>3 DEF Entry
    <2>5. req[b].db = d
      BY <2>1, <2>4 DEF IInv, HeldUnderItsName
    <2>6. d # req[c].db
      BY <2>1, <2>5 DEF OneBlockPerDatabase
    <2> QED
      BY <2>1, <2>3, <2>4, <2>6 DEF UsedIsActive
  <1>11. CASE UNCHANGED vars
    BY <1>11 DEF vars, UsedIsActive
  <1> QED
    BY <1>3, <1>4, <1>5, <1>6, <1>7, <1>8, <1>9, <1>10, <1>11 DEF Next

\* evict_lru's docstring, "Evict and close the inactive connection", is true of a
\* connection in use as long as no two blocks on one database overlap: only the exit
\* of another block on it can make its entry inactive.
THEOREM EvictionSparesLoneUsers ==
    Spec /\ []OneBlockPerDatabase => []EvictionSparesUsers
  <1>1. Init => UsedIsActive
    BY DEF Init, UsedIsActive
  <1>2. IInv /\ OneBlockPerDatabase /\ UsedIsActive /\ [Next]_vars => UsedIsActive'
    BY UsedStep
  <1>3. UsedIsActive => EvictionSparesUsers
    BY DEF UsedIsActive, EvictionSparesUsers, EvictLru, Pool
  <1> QED
    BY <1>1, <1>2, <1>3, Invariance, PTL DEF Spec

-----------------------------------------------------------------------------
(* When a connection that should be persistent is *)

\* All calls for one database ask for the same, which P says.
AllAsk(P) == \A c \in Clients : pc[c] # "idle" => req[c].persistent = P[req[c].db]

PooledAsAsked(P) ==
    /\ \A d \in DBs : conns[d].conn # NoConn => conns[d].persistent = P[d]
    /\ \A c \in Clients : pc[c] = "using" => held[c] # NoConn

LEMMA AskedStep ==
    ASSUME NEW P \in [DBs -> BOOLEAN], IInv, AllAsk(P), PooledAsAsked(P), [Next]_vars
    PROVE  PooledAsAsked(P)'
  <1> USE PoolAssumption
  <1>1. Expired \in SUBSET DBs /\ Pool \in SUBSET DBs
    BY DEF Expired, Pool
  <1>2. ASSUME NEW T \in SUBSET DBs, conns' = Without(T), held' = held,
               \A c \in Clients : pc'[c] = "using" => pc[c] = "using"
        PROVE  PooledAsAsked(P)'
    BY <1>2, WithoutType DEF PooledAsAsked
  <1>3. ASSUME NEW c \in Clients, NEW r \in Request, Reuse(c, r) PROVE PooledAsAsked(P)'
    <2>1. /\ r.db \in DBs /\ conns[r.db].conn # NoConn
          /\ conns' = [Without(Expired) EXCEPT ![r.db] =
                          [conn |-> conns[r.db].conn, active |-> TRUE, expired |-> FALSE,
                           persistent |-> conns[r.db].persistent]]
          /\ held' = [held EXCEPT ![c] = conns[r.db].conn]
          /\ pc' = [pc EXCEPT ![c] = "using"]
      BY <1>3 DEF Reuse, Pooled, Pool, Request
    <2>2. /\ conns'[r.db].persistent = conns[r.db].persistent
          /\ \A d \in DBs \ {r.db} : conns'[d].conn = NoConn \/ conns'[d] = conns[d]
      BY <1>1, <2>1, WithoutType
    <2>3. \A b \in Clients : pc'[b] = "using" => held'[b] # NoConn
      BY <2>1 DEF IInv, TypeOK, PooledAsAsked
    <2> QED
      BY <2>1, <2>2, <2>3 DEF PooledAsAsked
  <1>4. ASSUME NEW c \in Clients, Connect(c) PROVE PooledAsAsked(P)'
    <2>1. req[c].db \in DBs /\ pc[c] = "acquiring"
      BY <1>4 DEF Connect, IInv, LoopHoldsLock, InBlockHasRequest, Request
    <2>2. PICK x \in Conns :
             /\ conns' = [conns EXCEPT ![req[c].db] =
                             [conn |-> x, active |-> TRUE, expired |-> FALSE,
                              persistent |-> req[c].persistent]]
             /\ held' = [held EXCEPT ![c] = x]
             /\ pc' = [pc EXCEPT ![c] = "using"]
      BY <1>4 DEF Connect
    <2>3. /\ conns'[req[c].db].persistent = P[req[c].db]
          /\ \A d \in DBs \ {req[c].db} : conns'[d] = conns[d]
      BY <2>1, <2>2 DEF IInv, TypeOK, AllAsk
    <2>4. \A b \in Clients : pc'[b] = "using" => held'[b] # NoConn
      BY <2>2 DEF IInv, TypeOK, PooledAsAsked
    <2> QED
      BY <2>3, <2>4 DEF PooledAsAsked
  <1>5. ASSUME NEW c \in Clients, NEW r \in Request, Miss(c, r) \/ RollbackFails(c, r)
        PROVE  PooledAsAsked(P)'
    <2>1. Expired \cup {r.db} \in SUBSET DBs
      BY <1>1 DEF Request
    <2>2. conns' = Without(Expired \cup {r.db}) /\ held' = held
      BY <1>5 DEF Miss, RollbackFails
    <2>3. \A b \in Clients : pc'[b] = "using" => pc[b] = "using"
      BY <1>5 DEF Miss, RollbackFails, IInv, TypeOK
    <2> QED
      BY <1>2, <2>1, <2>2, <2>3
  <1>6. ASSUME NEW c \in Clients, Iterate(c) \/ TimeOut(c) PROVE PooledAsAsked(P)'
    <2>1. PICK T \in SUBSET DBs : conns' = Without(T)
      <3>1. Expired \cup EvictLru(Pool \ Expired) \in SUBSET DBs
        BY <1>1 DEF EvictLru
      <3> QED
        BY <1>6, <3>1 DEF Iterate, TimeOut, PruneAndEvict
    <2>2. held' = held /\ \A b \in Clients : pc'[b] = "using" => pc[b] = "using"
      BY <1>6 DEF Iterate, TimeOut, IInv, TypeOK
    <2> QED
      BY <1>2, <2>1, <2>2
  <1>7. CASE PruneConnections \/ CloseAllConnections
    <2>1. PICK T \in SUBSET DBs : conns' = Without(T)
      BY <1>1, <1>7 DEF PruneConnections, CloseAllConnections
    <2>2. held' = held /\ pc' = pc
      BY <1>7 DEF PruneConnections, CloseAllConnections
    <2> QED
      BY <1>2, <2>1, <2>2
  <1>8. ASSUME NEW c \in Clients, ConnectFails(c) \/ Break(c) PROVE PooledAsAsked(P)'
    <2>1. /\ conns' = conns /\ held' = held
          /\ \A b \in Clients : pc'[b] = "using" => pc[b] = "using"
      BY <1>8 DEF ConnectFails, Break, IInv, TypeOK
    <2> QED
      BY <2>1 DEF PooledAsAsked
  <1>9. ASSUME NEW e \in DBs, Expire(e) PROVE PooledAsAsked(P)'
    <2>1. \A d \in DBs : conns[d] \in Entry
      BY DEF IInv, TypeOK
    <2>2. \A d \in DBs : conns'[d] = IF d = e THEN [conns[d] EXCEPT !.expired = TRUE] ELSE conns[d]
      BY <1>9 DEF Expire, IInv, TypeOK
    <2>3. \A d \in DBs : conns'[d].conn = conns[d].conn
      BY <2>1, <2>2 DEF Entry
    <2>4. \A d \in DBs : conns'[d].persistent = conns[d].persistent
      BY <2>1, <2>2 DEF Entry
    <2> QED
      BY <1>9, <2>3, <2>4 DEF Expire, PooledAsAsked
  <1>10. ASSUME NEW c \in Clients, Leave(c) PROVE PooledAsAsked(P)'
    <2>1. \A d \in DBs : conns[d] \in Entry
      BY DEF IInv, TypeOK
    <2>2. \A d \in DBs : conns'[d] = IF d = req[c].db THEN [conns[d] EXCEPT !.active = FALSE]
                                                      ELSE conns[d]
      BY <1>10 DEF Leave, IInv, TypeOK
    <2>3. \A d \in DBs : conns'[d].conn = conns[d].conn
      BY <2>1, <2>2 DEF Entry
    <2>4. \A d \in DBs : conns'[d].persistent = conns[d].persistent
      BY <2>1, <2>2 DEF Entry
    <2>5. \A b \in Clients : pc'[b] = "using" => held'[b] # NoConn
      BY <1>10 DEF Leave, IInv, TypeOK, PooledAsAsked
    <2> QED
      BY <2>3, <2>4, <2>5 DEF PooledAsAsked
  <1>11. CASE UNCHANGED vars
    BY <1>11 DEF vars, PooledAsAsked
  <1> QED
    BY <1>3, <1>4, <1>5, <1>6, <1>7, <1>8, <1>9, <1>10, <1>11 DEF Next

\* "The connection created here will be persistent": a block that asked for it has a
\* connection that evict_lru passes over, if all calls for a database, from whichever
\* thread, ask for the same; whoever comes first decides for all.
THEOREM PersistentIfAllAsk ==
    ASSUME NEW CONSTANT P \in [DBs -> BOOLEAN]
    PROVE  Spec /\ []AllAsk(P) => []PersistentIsKept
  <1>1. Init => PooledAsAsked(P)
    BY DEF Init, PooledAsAsked, Absent
  <1>2. IInv /\ AllAsk(P) /\ PooledAsAsked(P) /\ [Next]_vars => PooledAsAsked(P)'
    BY AskedStep
  <1>3. IInv /\ AllAsk(P) /\ PooledAsAsked(P) => PersistentIsKept
    BY DEF IInv, HeldUnderItsName, AllAsk, PooledAsAsked, PersistentIsKept
  <1> QED
    BY <1>1, <1>2, <1>3, Invariance, PTL DEF Spec

-----------------------------------------------------------------------------
\* The databases whose connection is pooled and within its deadline.
Lasting == Pool \ Expired

\* The safety half of LoopEnds: while a call loops for room nobody can add to the pool
\* or extend a deadline, each turn of the loop drops every entry whose deadline
\* has passed, and if all have passed the next test of the loop finds room.
THEOREM WaitingMakesRoom ==
    Spec => [][\A c \in Clients : pc[c] = "acquiring" /\ pc'[c] = "acquiring" =>
                  /\ Pool' \subseteq Pool
                  /\ Lasting' \subseteq Lasting
                  /\ Iterate(c) => /\ Pool' \subseteq Lasting
                                   /\ Lasting = {} => ~Full']_vars
  <1>1. ASSUME IInv, [Next]_vars
        PROVE  [\A c \in Clients : pc[c] = "acquiring" /\ pc'[c] = "acquiring" =>
                  /\ Pool' \subseteq Pool
                  /\ Lasting' \subseteq Lasting
                  /\ Iterate(c) => /\ Pool' \subseteq Lasting
                                   /\ Lasting = {} => ~Full']_vars
    <2> SUFFICES ASSUME Next, NEW c \in Clients, pc[c] = "acquiring", pc'[c] = "acquiring"
                 PROVE  /\ Pool' \subseteq Pool
                        /\ Lasting' \subseteq Lasting
                        /\ Iterate(c) => /\ Pool' \subseteq Lasting
                                         /\ Lasting = {} => ~Full'
      BY <1>1
    <2> USE PoolAssumption
    <2>0. /\ \A d \in DBs : d \in Pool <=> conns[d].conn # NoConn
          /\ \A d \in DBs : d \in Lasting <=> conns[d].conn # NoConn /\ ~conns[d].expired
          /\ \A d \in DBs : d \in Pool' <=> conns'[d].conn # NoConn
          /\ \A d \in DBs : d \in Lasting' <=> conns'[d].conn # NoConn /\ ~conns'[d].expired
          /\ Pool \subseteq DBs /\ Pool' \subseteq DBs /\ Lasting \subseteq DBs /\ Lasting' \subseteq DBs
      BY DEF Lasting, Pool, Expired
    <2>1. mu = c /\ mu # Free
      BY <1>1 DEF IInv, LoopHoldsLock
    <2>2. \A b \in Clients : pc[b] = "acquiring" => b = c
      BY <1>1, <2>1 DEF IInv, LoopHoldsLock
    <2>3. CASE Iterate(c)
      <3> DEFINE T == Expired \cup EvictLru(Pool \ Expired)
      <3>1. conns' = Without(T) /\ T \in SUBSET DBs
        BY <2>0, <2>3 DEF Iterate, PruneAndEvict, EvictLru, Expired
      <3>2. \A d \in DBs : conns'[d] = IF d \in T THEN Absent ELSE conns[d]
        BY <3>1 DEF Without
      <3>3. Pool' \subseteq Lasting /\ Lasting' \subseteq Lasting /\ Pool' \subseteq Pool
        <4>1. \A d \in DBs : conns'[d].conn # NoConn => d \notin T /\ conns'[d] = conns[d]
          BY <3>2 DEF Absent
        <4>2. \A d \in DBs : d \in Pool /\ d \notin T => d \in Lasting
          BY DEF Lasting
        <4> QED
          BY <2>0, <4>1, <4>2
      <3>4. Lasting = {} => ~Full'
        <4>1. Lasting = {} => Pool' = {}
          BY <3>3
        <4> QED
          BY <4>1, FS_EmptySet DEF Full
      <3> QED
        BY <3>3, <3>4
    <2>4. ASSUME NEW d \in DBs, Expire(d)
          PROVE  Pool' \subseteq Pool /\ Lasting' \subseteq Lasting
      <3>1. \A e \in DBs : /\ conns'[e].conn = conns[e].conn
                           /\ ~conns'[e].expired => ~conns[e].expired
        BY <1>1, <2>4 DEF Expire, IInv, TypeOK, Entry, Lasting, Pool, Expired
      <3> QED
        BY <2>0, <3>1
    <2>5. ASSUME NEW b \in Clients, Break(b)
          PROVE  Pool' = Pool /\ Lasting' = Lasting
      BY <2>5 DEF Break, Lasting, Pool, Expired
    <2>6. Iterate(c) \/ (\E d \in DBs : Expire(d)) \/ (\E b \in Clients : Break(b))
      BY <1>1, <2>1, <2>2 DEF Next, Reuse, RollbackFails, Miss, Calls, Iterate, TimeOut, Connect,
         ConnectFails, Leave, PruneConnections, CloseAllConnections, IInv, TypeOK
    <2>7. Lasting \subseteq Pool
      BY DEF Lasting
    <2> QED
      BY <2>3, <2>4, <2>5, <2>6, <2>7
  <1> QED
    BY <1>1, Invariance, PTL DEF Spec
=============================================================================
