--------------------------- MODULE ConnectionPool ---------------------------
(***************************************************************************)
(* The multi-database connection pool of the Postgres integration          *)
(* (postgres/connections.py).  The check and its asynchronous jobs share   *)
(* one pool; each of them uses a connection inside a block                 *)
(*     with pool.get_connection(dbname, ttl_ms, timeout, ..., persistent)  *)
(* A client of the model is one such block, so a thread that nests two     *)
(* blocks is two clients.  All methods run under the reentrant lock _mu,   *)
(* hence each is one atomic step, except get_connection when it has to     *)
(* make a connection: it then sleeps in a loop WHILE HOLDING _mu, and      *)
(* what happens outside the lock (time, the users' queries) interleaves.   *)
(***************************************************************************)
EXTENDS Naturals, FiniteSets

CONSTANTS
    DBs,               \* names of the logical databases
    Clients,           \* activations of a get_connection block
    Conns,             \* identities for psycopg2 connection objects
    MaxConns,          \* max_conns
    MaxCloseFailures,  \* bound: how often db.close() may raise
    NoConn,            \* no connection object
    NoRequest,         \* a client outside its block has no arguments
    Free               \* _mu is not held

ASSUME PoolAssumption ==
    /\ IsFiniteSet(DBs)
    /\ MaxConns \in Nat \ {0}
    /\ MaxCloseFailures \in Nat
    /\ NoConn \notin Conns
    /\ Free \notin Clients

VARIABLES
    conns,  \* self._conns: a ConnectionInfo per database, Absent if none
    lru,    \* <<a, b>> when a was accessed before b (the order of last_accessed)
    open,   \* connection objects that are not closed
    failed, \* connections whose close() raised: the pool has forgotten them
    mu,     \* holder of _mu between two steps: the client looping for room
    pc,     \* where each client is in its get_connection block
    req,    \* the arguments of its call
    held    \* the connection the block was given

vars == <<conns, lru, open, failed, mu, pc, req, held>>

Absent == [conn |-> NoConn, active |-> FALSE, expired |-> FALSE, persistent |-> FALSE]

\* A ConnectionInfo.  "expired" stands for deadline < now.
Entry == [conn : Conns \cup {NoConn}, active : BOOLEAN,
          expired : BOOLEAN, persistent : BOOLEAN]

\* The arguments that matter: "timed" stands for timeout is not None.
Request == [db : DBs, persistent : BOOLEAN, timed : BOOLEAN]

Pool == {d \in DBs : conns[d].conn # NoConn}

Expired == {d \in Pool : conns[d].expired}

\* An identity no part of the state refers to can name a new object.
Fresh(x) ==
    /\ x \notin open
    /\ \A d \in DBs : conns[d].conn # x
    /\ \A c \in Clients : held[c] # x

\* A mutation of Full: one connection too many.
MutFull == Cardinality(Pool) > MaxConns

\* The condition of the loop that waits for room.
Full == Cardinality(Pool) >= MaxConns

(***************************************************************************)
(* _terminate_connection_unsafe for every database of T: the entry is      *)
(* popped first, then the connection is closed; close() raises for the     *)
(* ones of F, which stay open and are counted as connection_closed_failed. *)
(***************************************************************************)
Without(T) == [d \in DBs |-> IF d \in T THEN Absent ELSE conns[d]]

ConnsOf(T) == {conns[d].conn : d \in T}

\* A mutation of MayFail: close() raises for a connection that is closed already.
MutMayFail(T) == {F \in SUBSET T : Cardinality(F) + Cardinality(failed) <= MaxCloseFailures}

MayFail(T) == {F \in SUBSET {d \in T : conns[d].conn \in open} :
                   Cardinality(F) + Cardinality(failed) <= MaxCloseFailures}

\* A mutation of Close: the popped entries are not closed.
MutClose(T, F) ==
    /\ open' = open
    /\ failed' = failed \cup ConnsOf(F)

Close(T, F) ==
    /\ open' = open \ ConnsOf(T \ F)
    /\ failed' = failed \cup ConnsOf(F)

\* last_accessed order once only the databases of R are pooled ...
Keep(R) == lru \cap (R \X R)

\* ... and once d has been accessed after them (pop and reinsert).
Touch(d, R) == (lru \cap ((R \ {d}) \X (R \ {d}))) \cup ((R \ {d}) \X {d})

(***************************************************************************)
(* evict_lru: the least recently accessed entry that is neither active nor *)
(* persistent, if there is one, when the databases of R are pooled.        *)
(***************************************************************************)
EvictLru(R) ==
    LET idle == {d \in R : ~conns[d].active /\ ~conns[d].persistent}
    IN  {d \in idle : \A e \in idle : <<e, d>> \notin lru}

Init ==
    /\ conns = [d \in DBs |-> Absent]
    /\ lru = {}
    /\ open = {}
    /\ failed = {}
    /\ mu = Free
    /\ pc = [c \in Clients |-> "idle"]
    /\ req = [c \in Clients |-> NoRequest]
    /\ held = [c \in Clients |-> NoConn]

-----------------------------------------------------------------------------
(***************************************************************************)
(* get_connection.  The call prunes, pops the entry of its database and    *)
(* looks at it.                                                            *)
(***************************************************************************)
Pooled(d) == d \in Pool \ Expired /\ conns[d].conn \in open

Calls(c, r) ==
    /\ mu = Free
    /\ pc[c] = "idle"
    /\ req' = [req EXCEPT ![c] = r]

\* The entry is open: it is reused, keeping its persistence status.
Reuse(c, r) ==
    /\ Calls(c, r)
    /\ Pooled(r.db)
    /\ \E F \in MayFail(Expired) : Close(Expired, F)
    /\ conns' = [Without(Expired) EXCEPT ![r.db] =
                    [conn |-> conns[r.db].conn, active |-> TRUE, expired |-> FALSE,
                     persistent |-> conns[r.db].persistent]]
    /\ lru' = Touch(r.db, Pool \ Expired)
    /\ held' = [held EXCEPT ![c] = conns[r.db].conn]
    /\ pc' = [pc EXCEPT ![c] = "using"]
    /\ UNCHANGED mu

\* The entry is open but in a bad transaction state and rollback() raises,
\* which leaves the connection closed.  The entry stays popped.
RollbackFails(c, r) ==
    /\ Calls(c, r)
    /\ Pooled(r.db)
    /\ \E F \in MayFail(Expired) :
          /\ open' = (open \ ConnsOf(Expired \ F)) \ {conns[r.db].conn}
          /\ failed' = failed \cup ConnsOf(F)
    /\ conns' = Without(Expired \cup {r.db})
    /\ lru' = Keep(Pool \ (Expired \cup {r.db}))
    /\ pc' = [pc EXCEPT ![c] = "leaving"]
    /\ UNCHANGED <<mu, held>>

\* No entry, or a closed one: it stays popped and the call goes on, with _mu
\* held, to make a connection.
Miss(c, r) ==
    /\ Calls(c, r)
    /\ ~Pooled(r.db)
    /\ \E F \in MayFail(Expired) : Close(Expired, F)
    /\ conns' = Without(Expired \cup {r.db})
    /\ lru' = Keep(Pool \ (Expired \cup {r.db}))
    /\ mu' = c
    /\ pc' = [pc EXCEPT ![c] = "acquiring"]
    /\ UNCHANGED held

\* prune_connections followed by evict_lru.
PruneAndEvict ==
    LET T == Expired \cup EvictLru(Pool \ Expired)
    IN  /\ \E F \in MayFail(T) : Close(T, F)
        /\ conns' = Without(T)
        /\ lru' = Keep(Pool \ T)

\* A mutation of Iterate: the loop evicts but does not prune.
MutIterate(c) ==
    LET T == EvictLru(Pool)
    IN  /\ mu = c
        /\ Full
        /\ \E F \in MayFail(T) : Close(T, F)
        /\ conns' = Without(T)
        /\ lru' = Keep(Pool \ T)
        /\ UNCHANGED <<mu, pc, req, held>>

\* One turn of the loop, ending in the sleep.
Iterate(c) ==
    /\ mu = c
    /\ Full
    /\ PruneAndEvict
    /\ UNCHANGED <<mu, pc, req, held>>

\* One turn of the loop, ending in ConnectionPoolFullError; the time is looked
\* at after the eviction, whether or not that made room.
TimeOut(c) ==
    /\ mu = c
    /\ req[c].timed
    /\ Full
    /\ PruneAndEvict
    /\ mu' = Free
    /\ pc' = [pc EXCEPT ![c] = "leaving"]
    /\ UNCHANGED <<req, held>>

\* There is room: connect_fn and startup_fn make a new connection.
Connect(c) ==
    /\ mu = c
    /\ ~Full
    /\ \E x \in Conns :
          /\ Fresh(x)
          /\ open' = open \cup {x}
          /\ conns' = [conns EXCEPT ![req[c].db] =
                          [conn |-> x, active |-> TRUE, expired |-> FALSE,
                           persistent |-> req[c].persistent]]
          /\ held' = [held EXCEPT ![c] = x]
    /\ lru' = Touch(req[c].db, Pool)
    /\ mu' = Free
    /\ pc' = [pc EXCEPT ![c] = "using"]
    /\ UNCHANGED <<failed, req>>

\* connect_fn or startup_fn raises; a connection startup_fn refused is
\* unreachable, and psycopg2 closes it when it is deallocated.
ConnectFails(c) ==
    /\ mu = c
    /\ ~Full
    /\ mu' = Free
    /\ pc' = [pc EXCEPT ![c] = "leaving"]
    /\ UNCHANGED <<conns, lru, open, failed, req, held>>

\* A mutation of Leave: the entry stays active.
MutLeave(c) ==
    /\ mu = Free
    /\ pc[c] \in {"using", "leaving"}
    /\ pc' = [pc EXCEPT ![c] = "idle"]
    /\ req' = [req EXCEPT ![c] = NoRequest]
    /\ held' = [held EXCEPT ![c] = NoConn]
    /\ UNCHANGED <<conns, lru, open, failed, mu>>

\* The finally clause of get_connection, reached after the block or after an
\* exception: the entry of the DATABASE, whoever made it, becomes inactive.
Leave(c) ==
    /\ mu = Free
    /\ pc[c] \in {"using", "leaving"}
    /\ conns' = [conns EXCEPT ![req[c].db].active = FALSE]
    /\ pc' = [pc EXCEPT ![c] = "idle"]
    /\ req' = [req EXCEPT ![c] = NoRequest]
    /\ held' = [held EXCEPT ![c] = NoConn]
    /\ UNCHANGED <<lru, open, failed, mu>>

-----------------------------------------------------------------------------
(***************************************************************************)
(* The other public methods and what happens outside the lock.             *)
(***************************************************************************)
\* prune_connections, called by the jobs after each collection.
PruneConnections ==
    /\ mu = Free
    /\ \E F \in MayFail(Expired) : Close(Expired, F)
    /\ conns' = Without(Expired)
    /\ lru' = Keep(Pool \ Expired)
    /\ UNCHANGED <<mu, pc, req, held>>

\* close_all_connections: called on cancellation and when a job loop ends.
CloseAllConnections ==
    /\ mu = Free
    /\ \E F \in MayFail(Pool) : Close(Pool, F)
    /\ conns' = Without(Pool)
    /\ lru' = {}
    /\ UNCHANGED <<mu, pc, req, held>>

\* The deadline of an entry passes.
Expire(d) ==
    /\ d \in Pool \ Expired
    /\ conns' = [conns EXCEPT ![d].expired = TRUE]
    /\ UNCHANGED <<lru, open, failed, mu, pc, req, held>>

\* The server drops a connection in use: its psycopg2 object becomes closed,
\* its entry stays in the pool.
Break(c) ==
    /\ pc[c] = "using"
    /\ held[c] \in open \ failed
    /\ open' = open \ {held[c]}
    /\ UNCHANGED <<conns, lru, failed, mu, pc, req, held>>

Next ==
    \/ \E c \in Clients :
          \/ \E r \in Request : Reuse(c, r) \/ RollbackFails(c, r) \/ Miss(c, r)
          \/ Iterate(c)
          \/ TimeOut(c)
          \/ Connect(c)
          \/ ConnectFails(c)
          \/ Leave(c)
          \/ Break(c)
    \/ PruneConnections
    \/ CloseAllConnections
    \/ \E d \in DBs : Expire(d)

Spec == Init /\ [][Next]_vars

(***************************************************************************)
(* The thread inside the loop keeps running (its sleep is 10 ms) and       *)
(* deadlines pass.  Nothing is assumed of the other threads: they cannot   *)
(* enter the pool while it is looping.                                     *)
(***************************************************************************)
Fairness ==
    /\ \A c \in Clients : WF_vars(Iterate(c)) /\ WF_vars(Connect(c))
    /\ \A d \in DBs : WF_vars(Expire(d))

FairSpec == Spec /\ Fairness

-----------------------------------------------------------------------------
(***************************************************************************)
(* Properties.                                                             *)
(***************************************************************************)
\* Every variable has its type.
TypeOK ==
    /\ conns \in [DBs -> Entry]
    /\ lru \subseteq DBs \X DBs
    /\ open \subseteq Conns
    /\ failed \subseteq open
    /\ mu \in Clients \cup {Free}
    /\ pc \in [Clients -> {"idle", "acquiring", "using", "leaving"}]
    /\ req \in [Clients -> Request \cup {NoRequest}]
    /\ held \in [Clients -> Conns \cup {NoConn}]

\* No orphan: a connection that is open, and whose close() never raised, is
\* the one the pool holds for some database.  Whatever was evicted, pruned,
\* replaced or lost in an error path was closed, so no server connection can
\* accumulate behind the pool's back.
NoOrphan == open \ failed \subseteq ConnsOf(Pool)

\* "the connection pool will limit concurrent connections": the connections
\* really open never outnumber max_conns, apart from those that failed to
\* close.
ConnectionLimit == Cardinality(open \ failed) <= MaxConns

\* No leaked active flag: an entry marked active is in the hands of a client
\* inside its block, so that it becomes evictable when that client leaves.
ActiveHasUser ==
    \A d \in DBs : conns[d].active =>
        \E c \in Clients : pc[c] = "using" /\ held[c] = conns[d].conn

\* A call that finds the pool full ends: even when every connection is in use
\* and nobody can give one back because the call holds _mu, deadlines pass and
\* pruning makes room.
LoopEnds == \A c \in Clients : pc[c] = "acquiring" ~> pc[c] # "acquiring"

\* evict_lru's docstring, "Evict and close the inactive connection": what it
\* would close is not in use.
EvictionSparesUsers ==
    \A d \in EvictLru(Pool) : \A c \in Clients :
        ~(pc[c] = "using" /\ held[c] = conns[d].conn)

\* postgres.py, "The connection created here will be persistent. It will not
\* be automatically evicted": a block that asked for persistent=True has a
\* connection that evict_lru passes over.
PersistentIsKept ==
    \A c \in Clients : \A d \in DBs :
        (pc[c] = "using" /\ req[c].persistent /\ held[c] = conns[d].conn)
            => conns[d].persistent
=============================================================================
