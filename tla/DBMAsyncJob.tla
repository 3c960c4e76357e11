---------------------------- MODULE DBMAsyncJob ----------------------------
(***************************************************************************)
(* The background job of the database monitoring integrations: class       *)
(* DBMAsyncJob and its ConstantRateLimiter (base/utils/db/utils.py).       *)
(*                                                                         *)
(* Every check run calls run_job_loop, which submits _job_loop to a thread *)
(* pool unless the loop of the previous submission is running.  The loop   *)
(* runs run_job at a limited rate until the job is cancelled, the check    *)
(* has not run for twice its interval, or run_job raises; it then calls    *)
(* the shutdown callback, and a later check run starts a new loop.  With   *)
(* RunSync the job runs inside the check run instead.                      *)
(*                                                                         *)
(* Time is counted in ticks.  A timestamp is represented by its age, which *)
(* stops growing once the code can no longer tell it from an older one.    *)
(* A loop that neither works nor sleeps takes no time.                     *)
(***************************************************************************)
EXTENDS Integers

CONSTANTS
    Loops,     \* activations of _job_loop; one that ended can be used again
    NoLoop,    \* _job_loop_future is None
    Period,    \* the limiter's period_s, in ticks
    Interval   \* min_collection_interval, in ticks

ASSUME JobAssumption ==
    /\ NoLoop \notin Loops
    /\ Period \in Nat \ {0}
    /\ Interval \in Nat \ {0}

VARIABLES
    mode,       \* how the job is run: "sync", "prompt" or "slow"
    cancelled,  \* _cancel_event is set
    future,     \* _job_loop_future
    pc,         \* where each loop is; "none" before and after its life
    crashed,    \* run_job raised, the exception leaves the loop after the sleep
    left,       \* what remains of the limiter's sleep
    sync,       \* run_job is running inside a check run
    checkAge,   \* time since _last_check_run
    eventAge,   \* time since the limiter's last_event
    startAge,   \* history: time since run_job was last started (sync: under this limiter)
    runs        \* history: run_job calls of a loop under this limiter (2 = more)

vars == <<mode, cancelled, future, pc, crashed, left, sync, checkAge, eventAge, startAge, runs>>

RunSync == mode = "sync"

\* The executor starts a submitted loop before the next check run.
Prompt == mode # "slow"

History == <<startAge, runs>>

MaxAge == Period + 1

\* A check run older than this is taken for inactivity.
Stale == 2 * Interval

Older(age, cap) == IF age < cap THEN age + 1 ELSE cap

Init ==
    /\ mode \in {"sync", "prompt", "slow"}
    /\ cancelled = FALSE
    /\ future = NoLoop
    /\ pc = [l \in Loops |-> "none"]
    /\ crashed = [l \in Loops |-> FALSE]
    /\ left = [l \in Loops |-> 0]
    /\ sync = FALSE
    /\ checkAge = Stale + 1       \* _last_check_run = 0
    /\ eventAge = MaxAge          \* last_event = 0
    /\ startAge = MaxAge
    /\ runs = [l \in Loops |-> 0]

-----------------------------------------------------------------------------
(***************************************************************************)
(* ConstantRateLimiter.                                                    *)
(***************************************************************************)
ShallExecute == eventAge >= Period

\* A mutation of SleepAmount: the difference is not cut off at zero.
MutSleepAmount == Period - eventAge

SleepAmount == IF eventAge < Period THEN Period - eventAge ELSE 0

UpdateLastTime == eventAge' = 0

-----------------------------------------------------------------------------
(***************************************************************************)
(* The check's threads.                                                    *)
(***************************************************************************)
\* A mutation of Running: a loop once submitted is taken to run for ever.
MutRunning == future # NoLoop

\* _job_loop_future.running(): false while the loop is queued.
Running == future # NoLoop /\ pc[future] \notin {"none", "pending"}

\* A mutation of Submit: every check run queues a loop.
MutSubmit(l) ==
    /\ ~RunSync
    /\ Prompt => \A k \in Loops : pc[k] # "pending"
    /\ pc[l] = "none"
    /\ checkAge' = 0
    /\ future' = l
    /\ pc' = [pc EXCEPT ![l] = "pending"]
    /\ crashed' = [crashed EXCEPT ![l] = FALSE]
    /\ runs' = [runs EXCEPT ![l] = 0]
    /\ UNCHANGED <<mode, cancelled, left, sync, eventAge, startAge>>

\* run_job_loop when no loop is running: a new one is queued.
Submit(l) ==
    /\ ~RunSync
    /\ ~Running
    /\ Prompt => \A k \in Loops : pc[k] # "pending"
    /\ pc[l] = "none"
    /\ checkAge' = 0
    /\ future' = l
    /\ pc' = [pc EXCEPT ![l] = "pending"]
    /\ crashed' = [crashed EXCEPT ![l] = FALSE]
    /\ runs' = [runs EXCEPT ![l] = 0]
    /\ UNCHANGED <<mode, cancelled, left, sync, eventAge, startAge>>

\* run_job_loop when the loop is running: it learns that the check is alive.
KeepAlive ==
    /\ ~RunSync
    /\ Running
    /\ checkAge' = 0
    /\ UNCHANGED <<mode, cancelled, future, pc, crashed, left, sync, eventAge, History>>

\* A mutation of RunSyncJob: the time of the run is not noted.
MutRunSyncJob ==
    /\ RunSync
    /\ ~sync
    /\ checkAge' = 0
    /\ ShallExecute
    /\ sync' = TRUE
    /\ startAge' = 0
    /\ UNCHANGED <<mode, cancelled, future, pc, crashed, left, eventAge, runs>>

\* run_job_loop with run_sync.
RunSyncJob ==
    /\ RunSync
    /\ ~sync
    /\ checkAge' = 0
    /\ \/ /\ ShallExecute
          /\ UpdateLastTime
          /\ sync' = TRUE
          /\ startAge' = 0
       \/ /\ ~ShallExecute
          /\ UNCHANGED <<eventAge, sync, startAge>>
    /\ UNCHANGED <<mode, cancelled, future, pc, crashed, left, runs>>

\* The synchronous run_job returns or raises into the check run.
SyncJobEnds ==
    /\ sync
    /\ sync' = FALSE
    /\ UNCHANGED <<mode, cancelled, future, pc, crashed, left, checkAge, eventAge, History>>

\* The synchronous run_job changes the rate, as SetRateLimit below; the history
\* starts again with the limiter.
SetSyncRateLimit ==
    /\ RunSync
    /\ sync
    /\ eventAge' = MaxAge
    /\ startAge' = MaxAge
    /\ UNCHANGED <<mode, cancelled, future, pc, crashed, left, sync, checkAge, runs>>

Cancel ==
    /\ ~cancelled
    /\ cancelled' = TRUE
    /\ UNCHANGED <<mode, future, pc, crashed, left, sync, checkAge, eventAge, History>>

-----------------------------------------------------------------------------
(***************************************************************************)
(* _job_loop.                                                              *)
(***************************************************************************)
Goto(l, from, to) == pc[l] = from /\ pc' = [pc EXCEPT ![l] = to]

\* A thread of the pool takes the loop.
Begin(l) ==
    /\ Goto(l, "pending", "top")
    /\ UNCHANGED <<mode, cancelled, future, crashed, left, sync, checkAge, eventAge, History>>

\* A mutation of Top: the loop does not look at the event.
MutTop(l) ==
    /\ Goto(l, "top", "ready")
    /\ UNCHANGED <<mode, cancelled, future, crashed, left, sync, checkAge, eventAge, History>>

\* First test of an iteration: cancelled?
Top(l) ==
    /\ Goto(l, "top", IF cancelled THEN "stop" ELSE "ready")
    /\ UNCHANGED <<mode, cancelled, future, crashed, left, sync, checkAge, eventAge, History>>

\* A mutation of Inactive: an age that the counter never reaches.
MutInactive == checkAge > Stale + 1

Inactive == checkAge > Stale

\* Second test: has the check been inactive?
StopInactive(l) ==
    /\ Inactive
    /\ Goto(l, "ready", "stop")
    /\ UNCHANGED <<mode, cancelled, future, crashed, left, sync, checkAge, eventAge, History>>

StartJob(l) ==
    /\ ~Inactive
    /\ Goto(l, "ready", "job")
    /\ startAge' = 0
    /\ runs' = [runs EXCEPT ![l] = IF @ < 2 THEN @ + 1 ELSE 2]
    /\ UNCHANGED <<mode, cancelled, future, crashed, left, sync, checkAge, eventAge>>

\* run_job calls _set_rate_limit with another rate: the limiter is replaced by
\* a new one, whose last_event is 0.  Its period is again Period: properties
\* and proofs concern the starts under one limiter, hence the restart of runs.
SetRateLimit(l) ==
    /\ pc[l] = "job"
    /\ eventAge' = MaxAge
    /\ runs' = [runs EXCEPT ![l] = 1]
    /\ UNCHANGED <<mode, cancelled, future, pc, crashed, left, sync, checkAge, startAge>>

\* run_job returns (or raises, if crash) and the limiter puts the loop to sleep.
Sleep(l, crash) ==
    /\ ~cancelled
    /\ Goto(l, "job", "sleep")
    /\ left' = [left EXCEPT ![l] = SleepAmount]
    /\ crashed' = [crashed EXCEPT ![l] = crash]
    /\ UNCHANGED <<mode, cancelled, future, sync, checkAge, eventAge, History>>

\* run_job returns or raises after cancellation: no sleep.
SkipSleep(l, crash) ==
    /\ cancelled
    /\ Goto(l, "job", IF crash THEN "stop" ELSE "top")
    /\ UpdateLastTime
    /\ UNCHANGED <<mode, cancelled, future, crashed, left, sync, checkAge, History>>

\* A mutation of Wake: the time is not noted.
MutWake(l) ==
    /\ left[l] = 0
    /\ Goto(l, "sleep", IF crashed[l] THEN "stop" ELSE "top")
    /\ UNCHANGED <<mode, cancelled, future, crashed, left, sync, checkAge, eventAge, History>>

\* The sleep is over; an exception of run_job now leaves the loop.
Wake(l) ==
    /\ left[l] = 0
    /\ Goto(l, "sleep", IF crashed[l] THEN "stop" ELSE "top")
    /\ UpdateLastTime
    /\ UNCHANGED <<mode, cancelled, future, crashed, left, sync, checkAge, History>>

\* The finally clause: the shutdown callback, then the future is done.
Shutdown(l) ==
    /\ Goto(l, "stop", "none")
    /\ UNCHANGED <<mode, cancelled, future, crashed, left, sync, checkAge, eventAge, History>>

-----------------------------------------------------------------------------
\* No loop is between two instructions that take no time.
Quiescent ==
    \A l \in Loops : /\ pc[l] \notin {"top", "ready"}
                     /\ Prompt => pc[l] # "pending"

Tick ==
    /\ Quiescent
    /\ checkAge' = Older(checkAge, Stale + 1)
    /\ eventAge' = Older(eventAge, MaxAge)
    /\ startAge' = Older(startAge, MaxAge)
    /\ left' = [l \in Loops |-> IF left[l] > 0 THEN left[l] - 1 ELSE 0]
    /\ UNCHANGED <<mode, cancelled, future, pc, crashed, sync, runs>>

LoopStep(l) ==
    \/ Begin(l)
    \/ Top(l)
    \/ StopInactive(l)
    \/ StartJob(l)
    \/ \E crash \in BOOLEAN : Sleep(l, crash) \/ SkipSleep(l, crash)
    \/ Wake(l)
    \/ Shutdown(l)

CheckRun == (\E l \in Loops : Submit(l)) \/ KeepAlive \/ RunSyncJob

Next ==
    \/ CheckRun
    \/ SyncJobEnds
    \/ SetSyncRateLimit
    \/ Cancel
    \/ \E l \in Loops : LoopStep(l) \/ SetRateLimit(l)
    \/ Tick

Spec == Init /\ [][Next]_vars

\* Threads are scheduled and run_job always ends in some way.  Time diverges:
\* strong fairness, since a loop between two instructions holds it for an instant.
\* There is no fairness of CheckRun: the Agent may unschedule the check.
FairSpec ==
    /\ Spec
    /\ \A l \in Loops : WF_vars(LoopStep(l))
    /\ WF_vars(SyncJobEnds)
    /\ SF_vars(Tick)

-----------------------------------------------------------------------------
(***************************************************************************)
(* Properties.                                                             *)
(***************************************************************************)
\* Every variable has its type; in particular time.sleep never gets more than
\* a period, nor a negative number, which it would refuse.
TypeOK ==
    /\ mode \in {"sync", "prompt", "slow"}
    /\ cancelled \in BOOLEAN
    /\ future \in Loops \cup {NoLoop}
    /\ pc \in [Loops -> {"none", "pending", "top", "ready", "job", "sleep", "stop"}]
    /\ crashed \in [Loops -> BOOLEAN]
    /\ left \in [Loops -> 0 .. Period]
    /\ sync \in BOOLEAN
    /\ checkAge \in 0 .. (Stale + 1)
    /\ eventAge \in 0 .. MaxAge
    /\ startAge \in 0 .. MaxAge
    /\ runs \in [Loops -> 0 .. 2]

\* The limiter is "Not thread safe", and neither is what run_job keeps between
\* two runs: at most one thread is executing _job_loop, if the executor is prompt.
OneLoop ==
    Prompt => \A k, l \in Loops :
        (pc[k] \notin {"none", "pending"} /\ pc[l] \notin {"none", "pending"}) => k = l

Starts(l) == pc[l] # "job" /\ pc'[l] = "job"

\* The rate limit as the loop keeps it: from its third start on, a loop never
\* starts run_job sooner than a period after the previous start.
RateLimited ==
    [][Prompt => \A l \in Loops : (Starts(l) /\ runs[l] = 2) => startAge >= Period]_vars

\* With run_sync the limit holds between any two starts under one limiter.
SyncRateLimited == [][(~sync /\ sync') => startAge >= Period]_vars

\* A cancelled job stops for good: after the run in progress, run_job is not
\* started again, although later check runs may still submit loops.
CancelStops == cancelled ~> [](\A l \in Loops : pc[l] \notin {"job", "sleep"})

\* A check that the Agent no longer runs leaves no thread behind.
AbandonedStops == <>[](checkAge > Stale) => <>[](\A l \in Loops : pc[l] = "none")

\* While the Agent keeps running the check and nobody cancels, run_job is run
\* again and again, whatever exceptions and inactivity stops end its loops.
JobRecurs ==
    (Prompt /\ []~cancelled /\ []<>(checkAge = 0))
        => []<>(sync \/ \E l \in Loops : pc[l] = "job")
=============================================================================
