---------------------------- MODULE PostgresCheck ---------------------------
(***************************************************************************)
(* The Postgres check (postgres/postgres.py) with its three asynchronous   *)
(* jobs.  The check has a connection of its own, _db; the jobs, and with   *)
(* autodiscovery the check as well, share the pool, and the loop of each   *)
(* job closes the whole pool when it ends (shutdown_callback).  cancel()   *)
(* comes from another thread, also while the check runs.  The pool         *)
(* (ConnectionPool) is reduced to one database, the job (DBMAsyncJob) to   *)
(* its loop; a loop that is submitted starts before the next check run.    *)
(* The server may fail at any time and the Agent may stop running the      *)
(* check.                                                                  *)
(***************************************************************************)
CONSTANT Free   \* the pool's lock _mu is not held

Jobs == {"metrics", "samples", "metadata"}

\* The check thread, as a client of the pool.
Check == "check"

ASSUME FreeAssumption == Free \notin Jobs \cup {Check}

\* The order in which check() starts the jobs and cancel() signals them.
StartNext == [metrics |-> "samples", samples |-> "metadata", metadata |-> "idle"]

\* Mutant: the last job is left out.
MutCancelNext == [samples |-> "metrics", metrics |-> "pool"]

CancelNext == [samples |-> "metrics", metrics |-> "metadata", metadata |-> "pool"]

VARIABLES
    autodiscovery, \* the option is set
    loop,      \* per job, where its loop is
    signalled, \* the jobs whose _cancel_event is set
    pooled,    \* the pool holds an open connection
    mu,        \* who holds _mu while it connects
    db,        \* _db is open
    check,     \* "idle", "running", "connecting" for the pool, in a "block" of a pooled
               \* connection, or the job to start next
    cancel,    \* "no", the job to signal next, "pool", "db" or "done"
    overlap    \* history: what cancel() closed during a check run, "pool" and "db"

vars == <<autodiscovery, loop, signalled, pooled, mu, db, check, cancel, overlap>>

Init ==
    /\ autodiscovery \in BOOLEAN
    /\ loop = [j \in Jobs |-> "none"]
    /\ signalled = {}
    /\ pooled = FALSE /\ mu = Free
    /\ db = FALSE
    /\ check = "idle" /\ cancel = "no"
    /\ overlap = {}

Goto(j, label) == loop' = [loop EXCEPT ![j] = label]

\* Every job that uses the pooled connection finds it closed, moved says of a
\* loop where it goes.
Broken(moved) == [j \in Jobs |-> IF moved[j] = "using" THEN "broken" ELSE moved[j]]
-----------------------------------------------------------------------------
(* The check run *)

CheckStarts ==
    /\ check = "idle" /\ cancel = "no"
    /\ check' = "running"
    /\ UNCHANGED <<autodiscovery, loop, signalled, pooled, mu, db, cancel, overlap>>

\* A query in a db() block, which connects again if _db is closed.
CheckQueries ==
    /\ check = "running"
    /\ db' = TRUE
    /\ check' \in {"running", "metrics"}
    /\ UNCHANGED <<autodiscovery, loop, signalled, pooled, mu, cancel, overlap>>

\* A query that fails ends the run, and an interrupted connection is closed.
CheckRaises ==
    /\ check = "running"
    /\ db' \in {db, FALSE}
    /\ check' = "idle"
    /\ UNCHANGED <<autodiscovery, loop, signalled, pooled, mu, cancel, overlap>>

\* Autodiscovery asks the databases it finds, and the one that lists them, over
\* pooled connections.
CheckGetsConnection ==
    /\ autodiscovery /\ check = "running" /\ mu = Free
    /\ IF pooled
       THEN check' = "block" /\ UNCHANGED mu
       ELSE check' = "connecting" /\ mu' = Check
    /\ UNCHANGED <<autodiscovery, loop, signalled, pooled, db, cancel, overlap>>

CheckConnects ==
    /\ mu = Check
    /\ mu' = Free
    /\ \/ pooled' = TRUE /\ check' = "block"
       \/ check' = "idle" /\ UNCHANGED pooled
    /\ UNCHANGED <<autodiscovery, loop, signalled, db, cancel, overlap>>

\* The block is left, or its exception ends the run; the connection stays.
CheckLeavesBlock ==
    /\ check = "block"
    /\ check' \in {"running", "idle"}
    /\ UNCHANGED <<autodiscovery, loop, signalled, pooled, mu, db, cancel, overlap>>

RunJobLoop ==
    /\ check \in Jobs
    /\ IF loop[check] = "none" THEN Goto(check, "top") ELSE UNCHANGED loop
    /\ check' = StartNext[check]
    /\ UNCHANGED <<autodiscovery, signalled, pooled, mu, db, cancel, overlap>>
-----------------------------------------------------------------------------
(* The loop of a job *)

Top(j) ==
    /\ loop[j] = "top"
    /\ Goto(j, IF j \in signalled THEN "ending" ELSE "job")
    /\ UNCHANGED <<autodiscovery, signalled, pooled, mu, db, check, cancel, overlap>>

StopsInactive(j) ==
    /\ loop[j] = "top" /\ j \notin signalled
    /\ Goto(j, "ending")
    /\ UNCHANGED <<autodiscovery, signalled, pooled, mu, db, check, cancel, overlap>>

\* _get_main_db: the pooled connection, or a new one made with _mu held.
GetMainDb(j) ==
    /\ loop[j] = "job" /\ mu = Free
    /\ IF pooled
       THEN Goto(j, "using") /\ UNCHANGED mu
       ELSE Goto(j, "connecting") /\ mu' = j
    /\ UNCHANGED <<autodiscovery, signalled, pooled, db, check, cancel, overlap>>

Connected(j) ==
    /\ mu = j
    /\ mu' = Free
    /\ pooled' = TRUE
    /\ Goto(j, "using")
    /\ UNCHANGED <<autodiscovery, signalled, db, check, cancel, overlap>>

\* Mutant: a connection that fails leaves the lock held.
MutConnectRaises(j) ==
    /\ mu = j
    /\ Goto(j, "ending")
    /\ UNCHANGED <<autodiscovery, signalled, pooled, mu, db, check, cancel, overlap>>

ConnectRaises(j) ==
    /\ mu = j
    /\ mu' = Free
    /\ Goto(j, "ending")
    /\ UNCHANGED <<autodiscovery, signalled, pooled, db, check, cancel, overlap>>

\* The block is left, with its result or with an exception that run_job catches:
\* run_job goes on to the next block or is done.
QueryDone(j) ==
    /\ loop[j] \in {"using", "broken"}
    /\ loop' \in {[loop EXCEPT ![j] = "job"], [loop EXCEPT ![j] = "top"]}
    /\ UNCHANGED <<autodiscovery, signalled, pooled, mu, db, check, cancel, overlap>>

QueryRaises(j) ==
    /\ loop[j] \in {"using", "broken"}
    /\ Goto(j, "ending")
    /\ UNCHANGED <<autodiscovery, signalled, pooled, mu, db, check, cancel, overlap>>

ConnectionLost ==
    /\ pooled
    /\ pooled' = FALSE
    /\ loop' = Broken(loop)
    /\ UNCHANGED <<autodiscovery, signalled, mu, db, check, cancel, overlap>>

\* Mutant: the shutdown callback is not called.
MutCloseDbPool(after) == loop' = after /\ UNCHANGED pooled

CloseDbPool(after) == loop' = Broken(after) /\ pooled' = FALSE

Shutdown(j) ==
    /\ loop[j] = "ending" /\ mu = Free
    /\ CloseDbPool([loop EXCEPT ![j] = "none"])
    /\ UNCHANGED <<autodiscovery, signalled, mu, db, check, cancel, overlap>>
-----------------------------------------------------------------------------
(* cancel() *)

CancelStarts ==
    /\ cancel = "no"
    /\ cancel' = "samples"
    /\ UNCHANGED <<autodiscovery, loop, signalled, pooled, mu, db, check, overlap>>

CancelJob ==
    /\ cancel \in Jobs
    /\ signalled' = signalled \cup {cancel}
    /\ cancel' = CancelNext[cancel]
    /\ UNCHANGED <<autodiscovery, loop, pooled, mu, db, check, overlap>>

CancelClosesPool ==
    /\ cancel = "pool" /\ mu = Free
    /\ CloseDbPool(loop)
    /\ overlap' = IF check # "idle" THEN {"pool"} ELSE {}
    /\ cancel' = "db"
    /\ UNCHANGED <<autodiscovery, signalled, mu, db, check>>

CancelClosesDb ==
    /\ cancel = "db"
    /\ db' = FALSE
    /\ overlap' = IF check # "idle" THEN overlap \cup {"db"} ELSE overlap
    /\ cancel' = "done"
    /\ UNCHANGED <<autodiscovery, loop, signalled, pooled, mu, check>>
-----------------------------------------------------------------------------
Run(j) ==
    \/ Top(j) \/ StopsInactive(j) \/ GetMainDb(j) \/ Connected(j) \/ ConnectRaises(j)
    \/ QueryDone(j) \/ QueryRaises(j) \/ Shutdown(j)

Cancel == CancelJob \/ CancelClosesPool \/ CancelClosesDb

Next ==
    \/ CheckStarts \/ CheckQueries \/ CheckRaises \/ RunJobLoop
    \/ CheckGetsConnection \/ CheckConnects \/ CheckLeavesBlock
    \/ \E j \in Jobs : Run(j)
    \/ ConnectionLost
    \/ CancelStarts \/ Cancel

Spec == Init /\ [][Next]_vars

CheckGoesOn == RunJobLoop \/ CheckConnects \/ CheckLeavesBlock

CheckStartsJobs == CheckQueries /\ check' = "metrics"

\* Threads are scheduled; queries, jobs and check runs come to an end, however many
\* connections they ask for.
FairSpec ==
    /\ Spec
    /\ WF_vars(CheckGoesOn) /\ SF_vars(CheckStartsJobs) /\ WF_vars(Cancel)
    /\ \A j \in Jobs : WF_vars(Run(j)) /\ SF_vars(QueryDone(j) /\ loop'[j] = "top")
-----------------------------------------------------------------------------
\* The pool's lock is held by the job or the check that connects and by nobody else,
\* and a job that has not noticed anything does have an open connection.
TypeOK ==
    /\ loop \in [Jobs -> {"none", "top", "job", "connecting", "using", "broken", "ending"}]
    /\ signalled \subseteq Jobs
    /\ {autodiscovery, pooled, db} \subseteq BOOLEAN /\ overlap \subseteq {"pool", "db"}
    /\ mu \in Jobs \cup {Free, Check}
    /\ (mu = Check) = (check = "connecting")
    /\ \A j \in Jobs : /\ (mu = j) = (loop[j] = "connecting")
                       /\ loop[j] = "using" => pooled
    /\ check \in {"idle", "running", "connecting", "block"} \cup Jobs
    /\ cancel \in {"no", "pool", "db", "done"} \cup Jobs

Quiet == cancel = "done" /\ check = "idle" /\ \A j \in Jobs : loop[j] = "none"

\* When all is over no connection is left: a job that reconnects after cancel()
\* closed the pool, or is started by a check run that cancel() overtook, closes
\* it again as it ends.  What can leak is _db, and with autodiscovery a pooled
\* connection, if cancel() closed it during a check run that went on to connect
\* again.
NothingLeaks ==
    Quiet => /\ pooled => autodiscovery /\ "pool" \in overlap
             /\ db => "db" \in overlap

\* cancel() leads to the end of all loops, for good.
CancelQuiets == cancel # "no" ~> [](\A j \in Jobs : loop[j] = "none")
=============================================================================
