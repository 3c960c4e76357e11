---------------------- MODULE DatabaseMonitoringProofs ----------------------
(***************************************************************************)
(* Database monitoring: the asynchronous job, and the statement metrics    *)
(* that the job of the SQL Server integration computes.                    *)
(*                                                                         *)
(* The job is safe for every period, interval and number of loops, when    *)
(* the executor starts a queued loop before the next check run (without    *)
(* that, a second loop may be queued and run beside the first).            *)
(* Statement metrics are right for every table, grouping of its rows and   *)
(* collection interval, when the query adds up the plans of a key.         *)
(***************************************************************************)
EXTENDS DBMAsyncJob, SqlServerStatements, FiniteSetTheorems, TLAPS

\* Only the loop of the last submission is alive.
OnlyFuture == \A l \in Loops : pc[l] # "none" => l = future

\* With run_sync no loop is ever submitted.
SyncHasNoLoop == RunSync => \A l \in Loops : pc[l] = "none"

\* With run_sync the limiter's event is the start of the last run.
SyncAges == RunSync => startAge = eventAge

\* A queued loop has not run anything.
QueuedIsNew == \A l \in Loops : pc[l] = "pending" => runs[l] = 0

\* Between the end of a sleep and the next start no time passes.
EventIsNow ==
    \A l \in Loops : (pc[l] \in {"top", "ready"} /\ runs[l] # 0) => eventAge = 0

\* From the second run on, last_event is not older than the start of the run:
\* this is what makes the sleep computed from it long enough.
EventNotOlder ==
    \A l \in Loops : (pc[l] = "job" /\ runs[l] = 2) => eventAge <= startAge

\* The sleep lasts until a period after the start.
SleepReaches ==
    \A l \in Loops : (pc[l] = "sleep" /\ runs[l] = 2) => startAge + left[l] >= Period

\* A loop that will start run_job has let the period pass.
PeriodPassed ==
    \A l \in Loops : runs[l] = 2 =>
        /\ pc[l] = "top" => cancelled \/ startAge >= Period
        /\ pc[l] = "ready" => startAge >= Period

JInv ==
    /\ TypeOK
    /\ OnlyFuture
    /\ SyncHasNoLoop
    /\ SyncAges
    /\ QueuedIsNew
    /\ EventIsNow
    /\ EventNotOlder
    /\ SleepReaches
    /\ PeriodPassed

-----------------------------------------------------------------------------
LEMMA AgeType ==
    ASSUME NEW cap \in Nat, NEW age \in 0 .. cap
    PROVE  /\ Older(age, cap) \in 0 .. cap
           /\ Older(age, cap) >= age
           /\ age < cap => Older(age, cap) = age + 1
           /\ age = cap => Older(age, cap) = cap
  BY DEF Older

LEMMA JobConstants ==
    /\ Period \in Nat /\ Period > 0
    /\ MaxAge \in Nat /\ MaxAge = Period + 1
    /\ Stale \in Nat
    /\ Stale + 1 \in Nat
  BY JobAssumption DEF MaxAge, Stale

LEMMA JobInit == Init => JInv
  <1> SUFFICES ASSUME Init PROVE JInv
    OBVIOUS
  <1> USE JobAssumption, JobConstants DEF Init
  <1>1. TypeOK
    <2>1. /\ cancelled \in BOOLEAN /\ sync \in BOOLEAN
          /\ future \in Loops \cup {NoLoop}
          /\ pc \in [Loops -> {"none", "pending", "top", "ready", "job", "sleep", "stop"}]
          /\ crashed \in [Loops -> BOOLEAN]
      OBVIOUS
    <2>2. left \in [Loops -> 0 .. Period] /\ runs \in [Loops -> 0 .. 2]
      OBVIOUS
    <2>3. checkAge \in 0 .. (Stale + 1) /\ eventAge \in 0 .. MaxAge /\ startAge \in 0 .. MaxAge
      OBVIOUS
    <2> QED
      BY <2>1, <2>2, <2>3 DEF TypeOK
  <1>2. OnlyFuture /\ SyncHasNoLoop /\ SyncAges /\ QueuedIsNew /\ EventIsNow /\ EventNotOlder
        /\ SleepReaches /\ PeriodPassed
    BY DEF OnlyFuture, SyncHasNoLoop, SyncAges, QueuedIsNew, EventIsNow, EventNotOlder, SleepReaches,
       PeriodPassed
  <1> QED
    BY <1>1, <1>2 DEF JInv

\* The check's threads: submissions, synchronous runs, cancellation.
LEMMA CheckThreadStep ==
    ASSUME Prompt, JInv, CheckRun \/ SyncJobEnds \/ SetSyncRateLimit \/ Cancel
    PROVE  JInv'
  <1> USE JobAssumption, JobConstants
  <1>1. ASSUME NEW l \in Loops, Submit(l) PROVE JInv'
    <2>1. \A k \in Loops : pc[k] = "none"
      BY <1>1 DEF Submit, Running, JInv, OnlyFuture
    <2>2. /\ pc' = [pc EXCEPT ![l] = "pending"]
          /\ runs' = [runs EXCEPT ![l] = 0]
          /\ crashed' = [crashed EXCEPT ![l] = FALSE]
          /\ future' = l /\ checkAge' = 0
          /\ UNCHANGED <<mode, cancelled, left, sync, eventAge, startAge>>
      BY <1>1 DEF Submit
    <2>3. TypeOK'
      BY <2>2 DEF JInv, TypeOK
    <2>4. OnlyFuture' /\ SyncHasNoLoop' /\ SyncAges' /\ QueuedIsNew' /\ EventIsNow'
          /\ EventNotOlder' /\ SleepReaches' /\ PeriodPassed'
      BY <1>1, <2>1, <2>2 DEF Submit, RunSync, JInv, TypeOK, OnlyFuture, SyncHasNoLoop, SyncAges,
         QueuedIsNew, EventIsNow, EventNotOlder, SleepReaches, PeriodPassed
    <2> QED
      BY <2>3, <2>4 DEF JInv
  <1>2. CASE KeepAlive
    BY <1>2 DEF KeepAlive, History, RunSync, JInv, TypeOK, OnlyFuture, SyncHasNoLoop, SyncAges,
       QueuedIsNew, EventIsNow, EventNotOlder, SleepReaches, PeriodPassed
  <1>3. CASE RunSyncJob
    <2>1. \A l \in Loops : pc[l] = "none"
      BY <1>3 DEF RunSyncJob, JInv, SyncHasNoLoop
    <2>2. /\ checkAge' = 0
          /\ eventAge' \in {0, eventAge}
          /\ startAge' \in {0, startAge}
          /\ eventAge = startAge => eventAge' = startAge'
          /\ sync' = TRUE \/ sync' = sync
          /\ UNCHANGED <<mode, cancelled, future, pc, crashed, left, runs>>
      BY <1>3 DEF RunSyncJob, UpdateLastTime
    <2>3. TypeOK'
      <3>1. sync' \in BOOLEAN
        BY <2>2 DEF JInv, TypeOK
      <3>2. checkAge' \in 0 .. (Stale + 1) /\ eventAge' \in 0 .. MaxAge /\ startAge' \in 0 .. MaxAge
        BY <2>2 DEF JInv, TypeOK
      <3> QED
        BY <2>2, <3>1, <3>2 DEF JInv, TypeOK
    <2> QED
      BY <2>1, <2>2, <2>3 DEF RunSync, JInv, OnlyFuture, SyncHasNoLoop, SyncAges, QueuedIsNew,
         EventIsNow, EventNotOlder, SleepReaches, PeriodPassed
  <1>4. CASE SyncJobEnds
    BY <1>4 DEF SyncJobEnds, History, RunSync, JInv, TypeOK, OnlyFuture, SyncHasNoLoop, SyncAges,
       QueuedIsNew, EventIsNow, EventNotOlder, SleepReaches, PeriodPassed
  <1>5. CASE Cancel
    BY <1>5 DEF Cancel, History, RunSync, JInv, TypeOK, OnlyFuture, SyncHasNoLoop, SyncAges,
       QueuedIsNew, EventIsNow, EventNotOlder, SleepReaches, PeriodPassed
  <1>6. CASE SetSyncRateLimit
    <2>1. \A l \in Loops : pc[l] = "none"
      BY <1>6 DEF SetSyncRateLimit, JInv, SyncHasNoLoop
    <2>2. /\ eventAge' = MaxAge /\ startAge' = MaxAge
          /\ UNCHANGED <<mode, cancelled, future, pc, crashed, left, sync, checkAge, runs>>
      BY <1>6 DEF SetSyncRateLimit
    <2>3. TypeOK'
      BY <2>2 DEF JInv, TypeOK
    <2> QED
      BY <2>1, <2>2, <2>3 DEF RunSync, JInv, OnlyFuture, SyncHasNoLoop, SyncAges, QueuedIsNew,
         EventIsNow, EventNotOlder, SleepReaches, PeriodPassed
  <1> QED
    BY <1>1, <1>2, <1>3, <1>4, <1>5, <1>6 DEF CheckRun

\* A step of a loop.  The other loops are not alive, so their parts of the
\* invariant hold trivially.
LEMMA LoopStepKeeps ==
    ASSUME Prompt, JInv, NEW l \in Loops, LoopStep(l) \/ SetRateLimit(l)
    PROVE  JInv'
  <1> USE JobAssumption, JobConstants
  <1>1. \A k \in Loops \ {l} : pc[k] = "none" /\ pc'[k] = "none"
    BY DEF LoopStep, SetRateLimit, Begin, Top, StopInactive, StartJob, Sleep, SkipSleep, Wake,
       Shutdown, Goto, JInv, TypeOK, OnlyFuture
  <1>2. l = future /\ future' = future /\ ~RunSync /\ ~RunSync'
    BY DEF LoopStep, SetRateLimit, Begin, Top, StopInactive, StartJob, Sleep, SkipSleep, Wake,
       Shutdown, Goto, JInv, OnlyFuture, SyncHasNoLoop, RunSync, History
  <1>3. OnlyFuture' /\ SyncHasNoLoop' /\ SyncAges'
    BY <1>1, <1>2 DEF OnlyFuture, SyncHasNoLoop, SyncAges
  <1> USE DEF Goto, History, UpdateLastTime
  <1>4. CASE Begin(l) \/ Top(l) \/ StopInactive(l) \/ Shutdown(l)
    <2>1. TypeOK'
      BY <1>4 DEF Begin, Top, StopInactive, Shutdown, JInv, TypeOK
    <2>2. QueuedIsNew' /\ EventIsNow' /\ EventNotOlder' /\ SleepReaches' /\ PeriodPassed'
      BY <1>1, <1>4 DEF Begin, Top, StopInactive, Shutdown, JInv, TypeOK, QueuedIsNew,
         EventIsNow, EventNotOlder, SleepReaches, PeriodPassed
    <2> QED
      BY <1>3, <2>1, <2>2 DEF JInv
  <1>5. CASE StartJob(l)
    <2>1. TypeOK'
      BY <1>5 DEF StartJob, JInv, TypeOK
    <2>2. eventAge' = eventAge /\ startAge' = 0 /\ pc'[l] = "job"
          /\ (runs'[l] = 2 => runs[l] # 0) /\ (runs[l] # 0 => eventAge = 0)
      BY <1>5 DEF StartJob, JInv, TypeOK, EventIsNow
    <2>3. QueuedIsNew' /\ EventIsNow' /\ EventNotOlder' /\ SleepReaches' /\ PeriodPassed'
      BY <1>1, <2>2 DEF QueuedIsNew, EventIsNow, EventNotOlder, SleepReaches, PeriodPassed
    <2> QED
      BY <1>3, <2>1, <2>3 DEF JInv
  <1>6. CASE SetRateLimit(l)
    <2>1. TypeOK'
      BY <1>6 DEF SetRateLimit, JInv, TypeOK
    <2>2. pc'[l] = "job" /\ runs'[l] = 1
      BY <1>6 DEF SetRateLimit, JInv, TypeOK
    <2>3. QueuedIsNew' /\ EventIsNow' /\ EventNotOlder' /\ SleepReaches' /\ PeriodPassed'
      BY <1>1, <2>2 DEF QueuedIsNew, EventIsNow, EventNotOlder, SleepReaches, PeriodPassed
    <2> QED
      BY <1>3, <2>1, <2>3 DEF JInv
  <1>7. ASSUME NEW crash \in BOOLEAN, Sleep(l, crash) PROVE JInv'
    <2>1. SleepAmount \in 0 .. Period /\ eventAge + SleepAmount >= Period
      BY DEF SleepAmount, JInv, TypeOK
    <2>2. /\ pc[l] = "job" /\ pc'[l] = "sleep" /\ left'[l] = SleepAmount
          /\ startAge' = startAge /\ runs'[l] = runs[l]
      BY <1>7 DEF Sleep, JInv, TypeOK
    <2>3. TypeOK'
      BY <1>7, <2>1 DEF Sleep, JInv, TypeOK
    <2>4. SleepReaches'
      <3>1. runs[l] = 2 => eventAge <= startAge
        BY <2>2 DEF JInv, EventNotOlder
      <3>2. eventAge \in Nat /\ startAge \in Nat
        BY DEF JInv, TypeOK
      <3> QED
        BY <1>1, <2>1, <2>2, <3>1, <3>2 DEF SleepReaches
    <2>5. QueuedIsNew' /\ EventIsNow' /\ EventNotOlder' /\ PeriodPassed'
      BY <1>1, <2>2 DEF QueuedIsNew, EventIsNow, EventNotOlder, PeriodPassed
    <2> QED
      BY <1>3, <2>3, <2>4, <2>5 DEF JInv
  <1>8. ASSUME NEW crash \in BOOLEAN, SkipSleep(l, crash) PROVE JInv'
    <2>1. TypeOK'
      BY <1>8 DEF SkipSleep, JInv, TypeOK
    <2>2. pc'[l] \in {"stop", "top"} /\ cancelled' /\ eventAge' = 0
      BY <1>8 DEF SkipSleep, JInv, TypeOK
    <2>3. QueuedIsNew' /\ EventIsNow' /\ EventNotOlder' /\ SleepReaches' /\ PeriodPassed'
      BY <1>1, <2>2 DEF QueuedIsNew, EventIsNow, EventNotOlder, SleepReaches, PeriodPassed
    <2> QED
      BY <1>3, <2>1, <2>3 DEF JInv
  <1>9. CASE Wake(l)
    <2>1. TypeOK'
      BY <1>9 DEF Wake, JInv, TypeOK
    <2>2. /\ pc[l] = "sleep" /\ left[l] = 0
          /\ pc'[l] \in {"stop", "top"} /\ eventAge' = 0
          /\ startAge' = startAge /\ runs'[l] = runs[l]
      BY <1>9 DEF Wake, JInv, TypeOK
    <2>3. runs[l] = 2 => startAge >= Period
      BY <2>2 DEF JInv, TypeOK, SleepReaches
    <2>4. QueuedIsNew' /\ EventIsNow' /\ EventNotOlder' /\ SleepReaches' /\ PeriodPassed'
      BY <1>1, <2>2, <2>3 DEF QueuedIsNew, EventIsNow, EventNotOlder, SleepReaches, PeriodPassed
    <2> QED
      BY <1>3, <2>1, <2>4 DEF JInv
  <1> QED
    BY <1>4, <1>5, <1>6, <1>7, <1>8, <1>9 DEF LoopStep

\* Time passes only when no loop is between its sleep and its next start.
LEMMA TickKeeps ==
    ASSUME Prompt, JInv, Tick
    PROVE  JInv'
  <1> USE JobAssumption, JobConstants
  <1>1. /\ checkAge' \in 0 .. (Stale + 1)
        /\ eventAge' \in 0 .. MaxAge /\ startAge' \in 0 .. MaxAge
    BY AgeType DEF Tick, JInv, TypeOK
  <1>2. left' \in [Loops -> 0 .. Period]
    BY DEF Tick, JInv, TypeOK
  <1>3. TypeOK'
    BY <1>1, <1>2 DEF Tick, JInv, TypeOK
  <1>4. pc' = pc /\ runs' = runs /\ future' = future /\ cancelled' = cancelled /\ mode' = mode
        /\ (eventAge = startAge => eventAge' = startAge') /\ startAge' >= startAge
        /\ \A l \in Loops : pc[l] \notin {"top", "ready", "pending"}
    BY AgeType DEF Tick, Quiescent, JInv, TypeOK
  <1>5. eventAge <= startAge => eventAge' <= startAge'
    BY DEF Tick, Older, JInv, TypeOK
  <1>6. ASSUME NEW l \in Loops, startAge + left[l] >= Period
        PROVE  startAge' + left'[l] >= Period
    <2>1. startAge' = Older(startAge, MaxAge)
          /\ left'[l] = IF left[l] > 0 THEN left[l] - 1 ELSE 0
      BY DEF Tick
    <2>2. startAge \in 0 .. MaxAge /\ left[l] \in 0 .. Period
      BY DEF JInv, TypeOK
    <2> QED
      BY <1>6, <2>1, <2>2 DEF Older
  <1>7. EventNotOlder'
    BY <1>4, <1>5 DEF JInv, EventNotOlder
  <1>8. SleepReaches'
    BY <1>4, <1>6 DEF JInv, SleepReaches
  <1>9. OnlyFuture' /\ SyncHasNoLoop' /\ SyncAges' /\ QueuedIsNew' /\ EventIsNow' /\ PeriodPassed'
    BY <1>4 DEF RunSync, JInv, TypeOK, OnlyFuture, SyncHasNoLoop, SyncAges, QueuedIsNew, EventIsNow,
       PeriodPassed
  <1> QED
    BY <1>3, <1>7, <1>8, <1>9 DEF JInv

LEMMA JobNext ==
    ASSUME Prompt, JInv, [Next]_vars
    PROVE  JInv'
  <1>1. CASE CheckRun \/ SyncJobEnds \/ SetSyncRateLimit \/ Cancel
    BY <1>1, CheckThreadStep
  <1>2. ASSUME NEW l \in Loops, LoopStep(l) \/ SetRateLimit(l) PROVE JInv'
    BY <1>2, LoopStepKeeps
  <1>3. CASE Tick
    BY <1>3, TickKeeps
  <1>4. CASE UNCHANGED vars
    BY <1>4 DEF vars, RunSync, JInv, TypeOK, OnlyFuture, SyncHasNoLoop, SyncAges, QueuedIsNew,
       EventIsNow, EventNotOlder, SleepReaches, PeriodPassed
  <1> QED
    BY <1>1, <1>2, <1>3, <1>4 DEF Next

\* Nothing changes the mode.
LEMMA ModeKept ==
    ASSUME [Next]_vars
    PROVE  mode' = mode
  BY DEF Next, vars, CheckRun, Submit, KeepAlive, RunSyncJob, SyncJobEnds, SetSyncRateLimit, Cancel,
     LoopStep, SetRateLimit, Begin, Top, StopInactive, StartJob, Sleep, SkipSleep, Wake, Shutdown, Tick

-----------------------------------------------------------------------------
(***************************************************************************)
(* Types need no assumption on the executor.                               *)
(***************************************************************************)
LEMMA TypeNext ==
    ASSUME TypeOK, [Next]_vars
    PROVE  TypeOK'
  <1> USE JobAssumption, JobConstants DEF TypeOK
  <1>1. ASSUME NEW l \in Loops, Submit(l) PROVE TypeOK'
    BY <1>1 DEF Submit
  <1>2. CASE KeepAlive
    BY <1>2 DEF KeepAlive, History
  <1>3. CASE RunSyncJob
    <2>1. /\ checkAge' = 0
          /\ eventAge' \in {0, eventAge}
          /\ startAge' \in {0, startAge}
          /\ sync' = TRUE \/ sync' = sync
          /\ UNCHANGED <<mode, cancelled, future, pc, crashed, left, runs>>
      BY <1>3 DEF RunSyncJob, UpdateLastTime
    <2>2. sync' \in BOOLEAN
      BY <2>1
    <2>3. checkAge' \in 0 .. (Stale + 1) /\ eventAge' \in 0 .. MaxAge /\ startAge' \in 0 .. MaxAge
      BY <2>1
    <2> QED
      BY <2>1, <2>2, <2>3
  <1>4. CASE SyncJobEnds
    BY <1>4 DEF SyncJobEnds, History
  <1>5. CASE Cancel
    BY <1>5 DEF Cancel, History
  <1>6. ASSUME NEW l \in Loops, LoopStep(l) \/ SetRateLimit(l) PROVE TypeOK'
    <2>1. SleepAmount \in 0 .. Period
      BY DEF SleepAmount
    <2> USE DEF Goto, History, UpdateLastTime
    <2>2. CASE Begin(l) \/ Top(l) \/ StopInactive(l) \/ Shutdown(l)
      BY <2>2 DEF Begin, Top, StopInactive, Shutdown
    <2>3. CASE StartJob(l)
      BY <2>3 DEF StartJob
    <2>4. CASE SetRateLimit(l)
      BY <2>4 DEF SetRateLimit
    <2>5. ASSUME NEW crash \in BOOLEAN, Sleep(l, crash) PROVE TypeOK'
      BY <2>1, <2>5 DEF Sleep
    <2>6. ASSUME NEW crash \in BOOLEAN, SkipSleep(l, crash) PROVE TypeOK'
      BY <2>6 DEF SkipSleep
    <2>7. CASE Wake(l)
      BY <2>7 DEF Wake
    <2> QED
      BY <1>6, <2>2, <2>3, <2>4, <2>5, <2>6, <2>7 DEF LoopStep
  <1>7. CASE Tick
    <2>1. /\ checkAge' \in 0 .. (Stale + 1)
          /\ eventAge' \in 0 .. MaxAge /\ startAge' \in 0 .. MaxAge
      BY <1>7, AgeType DEF Tick
    <2>2. left' \in [Loops -> 0 .. Period]
      BY <1>7 DEF Tick
    <2> QED
      BY <1>7, <2>1, <2>2 DEF Tick
  <1>8. CASE SetSyncRateLimit
    BY <1>8 DEF SetSyncRateLimit
  <1>9. CASE UNCHANGED vars
    BY <1>9 DEF vars
  <1> QED
    BY <1>1, <1>2, <1>3, <1>4, <1>5, <1>6, <1>7, <1>8, <1>9 DEF Next, CheckRun

\* The job's variables keep their types: the amount given to time.sleep is
\* between zero and a period.
THEOREM JobTypeCorrect == Spec => []TypeOK
  <1>1. Init => TypeOK
    BY JobInit DEF JInv
  <1>2. TypeOK /\ [Next]_vars => TypeOK'
    BY TypeNext
  <1> QED
    BY <1>1, <1>2, PTL DEF Spec

\* The invariant holds in every reachable state, if the executor is prompt.
THEOREM JobInvariance == Spec => [](Prompt => JInv)
  <1>1. (Prompt => JInv) /\ [Next]_vars => (Prompt => JInv)'
    BY JobNext, ModeKept DEF Prompt
  <1> QED
    BY <1>1, JobInit, PTL DEF Spec

\* At most one thread executes _job_loop, whatever check runs, cancellations,
\* exceptions and inactivity stops happen.
THEOREM SingleLoop == Spec => []OneLoop
  <1>1. (Prompt => JInv) => OneLoop
    BY DEF JInv, OnlyFuture, OneLoop
  <1> QED
    BY <1>1, JobInvariance, PTL

\* From its third start on, a loop starts run_job at least a period after the
\* previous start.
THEOREM RateLimitKept == Spec => RateLimited
  <1>1. (Prompt => JInv) /\ [Next]_vars =>
            [Prompt => \A l \in Loops : (Starts(l) /\ runs[l] = 2) => startAge >= Period]_vars
    <2> SUFFICES ASSUME Prompt, JInv, [Next]_vars, NEW l \in Loops, Starts(l), runs[l] = 2
                 PROVE  startAge >= Period
      BY Zenon
    <2>1. pc[l] = "ready"
      <3>1. pc[l] # "job" /\ pc'[l] = "job"
        BY DEF Starts
      <3> QED
        BY <3>1 DEF Next, vars, CheckRun, Submit, KeepAlive, RunSyncJob, SyncJobEnds,
           SetSyncRateLimit, Cancel, LoopStep, SetRateLimit, Begin, Top, StopInactive, StartJob, Sleep, SkipSleep, Wake,
           Shutdown, Goto, Tick, JInv, TypeOK
    <2> QED
      BY <2>1 DEF JInv, PeriodPassed
  <1> QED
    BY <1>1, JobInvariance, PTL DEF Spec, RateLimited

\* With run_sync no check run starts run_job sooner than a period after the
\* previous start.
THEOREM SyncRateLimitKept == Spec => SyncRateLimited
  <1>1. (Prompt => JInv) /\ [Next]_vars => [(~sync /\ sync') => startAge >= Period]_vars
    <2> SUFFICES ASSUME Prompt => JInv, [Next]_vars, ~sync, sync'
                 PROVE  startAge >= Period
      BY Zenon
    <2>1. RunSync /\ ShallExecute
      BY DEF Next, vars, CheckRun, Submit, KeepAlive, RunSyncJob, SyncJobEnds, SetSyncRateLimit, Cancel,
         LoopStep, SetRateLimit, Begin, Top, StopInactive, StartJob, Sleep, SkipSleep, Wake, Shutdown, Tick,
         History
    <2>2. startAge = eventAge
      BY <2>1 DEF RunSync, Prompt, JInv, SyncAges
    <2> QED
      BY <2>1, <2>2 DEF ShallExecute
  <1> QED
    BY <1>1, JobInvariance, PTL DEF Spec, SyncRateLimited

-----------------------------------------------------------------------------
(***************************************************************************)
(* How the job stops.  That it stops is liveness, and a matter of threads  *)
(* being scheduled; that what they do leads there, and is not undone by    *)
(* check runs, other loops or a slow executor, is safety.                  *)
(***************************************************************************)

\* How much of an iteration a cancelled loop has left once it passed the test
\* of the event; a loop that has not come to that test will fail it.
UntilTested(place) ==
    CASE place = "ready" -> 2 [] place \in {"job", "sleep"} -> 1 [] OTHER -> 0

\* How far a loop that is not kept alive is from its end.
UntilEnd(place) ==
    CASE place = "job" -> 6 [] place = "sleep" -> 5 [] place = "pending" -> 4 [] place = "top" -> 3
      [] place = "ready" -> 2 [] place = "stop" -> 1 [] OTHER -> 0

\* Everything a step may do to the place of a loop.
LEMMA PlacesOf ==
    ASSUME TypeOK, [Next]_vars, NEW l \in Loops
    PROVE  \/ pc'[l] = pc[l]
           \/ pc[l] = "none" /\ pc'[l] = "pending" /\ checkAge' = 0
           \/ pc[l] = "pending" /\ pc'[l] = "top"
           \/ pc[l] = "top" /\ pc'[l] = IF cancelled THEN "stop" ELSE "ready"
           \/ pc[l] = "ready" /\ pc'[l] = IF Inactive THEN "stop" ELSE "job"
           \/ pc[l] = "job" /\ pc'[l] = "sleep" /\ ~cancelled
           \/ pc[l] = "job" /\ pc'[l] \in {"top", "stop"} /\ cancelled
           \/ pc[l] = "sleep" /\ pc'[l] \in {"top", "stop"}
           \/ pc[l] = "stop" /\ pc'[l] = "none"
  <1>1. ASSUME NEW k \in Loops, LoopStep(k) PROVE k # l => pc'[l] = pc[l]
    BY <1>1 DEF TypeOK, LoopStep, Begin, Top, StopInactive, StartJob, Sleep, SkipSleep, Wake,
       Shutdown, Goto
  <1>2. CASE LoopStep(l)
    BY <1>2 DEF TypeOK, LoopStep, Begin, Top, StopInactive, StartJob, Sleep, SkipSleep, Wake,
       Shutdown, Goto
  <1>3. ASSUME NEW k \in Loops, Submit(k)
        PROVE  pc'[l] = pc[l] \/ (pc[l] = "none" /\ pc'[l] = "pending" /\ checkAge' = 0)
    BY <1>3 DEF TypeOK, Submit
  <1>4. CASE \/ KeepAlive \/ RunSyncJob \/ SyncJobEnds \/ SetSyncRateLimit \/ Cancel \/ Tick
             \/ (\E k \in Loops : SetRateLimit(k)) \/ UNCHANGED vars
    BY <1>4 DEF KeepAlive, RunSyncJob, SyncJobEnds, SetSyncRateLimit, Cancel, Tick, SetRateLimit, vars
  <1> QED
    BY <1>1, <1>2, <1>3, <1>4 DEF Next, CheckRun

\* The event is never cleared.
LEMMA EventStaysSet ==
    ASSUME [Next]_vars, cancelled
    PROVE  cancelled'
  BY DEF Next, vars, CheckRun, Submit, KeepAlive, RunSyncJob, SyncJobEnds, SetSyncRateLimit, Cancel,
     LoopStep, SetRateLimit, Begin, Top, StopInactive, StartJob, Sleep, SkipSleep, Wake, Shutdown, Tick

\* No loop of a cancelled job is past the test of the event.
Stopped == cancelled /\ \A l \in Loops : UntilTested(pc[l]) = 0

\* Once a cancelled job's loops have come to the test, run_job is never started
\* again, whatever loops later check runs queue and however late they are taken.
THEOREM StoppedForGood == Spec => [](Stopped => []Stopped)
  <1>1. TypeOK /\ Stopped /\ [Next]_vars => Stopped'
    <2> SUFFICES ASSUME TypeOK, Stopped, [Next]_vars PROVE Stopped'
      OBVIOUS
    <2>1. cancelled /\ cancelled'
      BY EventStaysSet DEF Stopped
    <2>2. ASSUME NEW l \in Loops PROVE UntilTested(pc'[l]) = 0
      BY <2>1, PlacesOf DEF Stopped, UntilTested
    <2> QED
      BY <2>1, <2>2 DEF Stopped
  <1> QED
    BY <1>1, JobTypeCorrect, PTL DEF Spec

\* After the cancellation every step of a loop brings it nearer to the test: at most
\* one more run_job is started per loop, by one that had passed the test before,
\* and no sleep follows it.
THEOREM CancelledWindsDown ==
    Spec => [][cancelled => \A l \in Loops :
                  \/ pc'[l] = pc[l]
                  \/ UntilTested(pc'[l]) < UntilTested(pc[l])
                  \/ UntilTested(pc'[l]) = 0]_vars
  <1>1. ASSUME TypeOK, [Next]_vars
        PROVE  [cancelled => \A l \in Loops :
                  \/ pc'[l] = pc[l]
                  \/ UntilTested(pc'[l]) < UntilTested(pc[l])
                  \/ UntilTested(pc'[l]) = 0]_vars
    BY <1>1, PlacesOf DEF UntilTested
  <1> QED
    BY <1>1, JobTypeCorrect, PTL DEF Spec

\* While no check run comes and the last is longer ago than twice the interval, every
\* step of a loop brings it nearer to its end: none is queued or goes back to work.
THEOREM AbandonedWindsDown ==
    Spec => [][Inactive /\ Inactive' => \A l \in Loops :
                  pc'[l] = pc[l] \/ UntilEnd(pc'[l]) < UntilEnd(pc[l])]_vars
  <1>1. ASSUME TypeOK, [Next]_vars
        PROVE  [Inactive /\ Inactive' => \A l \in Loops :
                  pc'[l] = pc[l] \/ UntilEnd(pc'[l]) < UntilEnd(pc[l])]_vars
    <2> SUFFICES ASSUME Inactive, Inactive', NEW l \in Loops
                 PROVE  pc'[l] = pc[l] \/ UntilEnd(pc'[l]) < UntilEnd(pc[l])
      OBVIOUS
    <2>1. checkAge' # 0
      BY JobConstants DEF Inactive
    <2> QED
      BY <1>1, <2>1, PlacesOf DEF UntilEnd
  <1> QED
    BY <1>1, JobTypeCorrect, PTL DEF Spec
-----------------------------------------------------------------------------
(***************************************************************************)
(* Finite sets.  The library's induction theorems take an operator; what   *)
(* they say of the subsets of a finite set is said here of a set of        *)
(* subsets, which is all the provers need.                                 *)
(***************************************************************************)

\* A non-empty set of subsets of a finite set has a minimal member.
LEMMA MinimalSubset ==
  ASSUME NEW S, IsFiniteSet(S), NEW B, B \subseteq SUBSET S, B # {}
  PROVE  \E T \in B : \A U \in B : U \subseteq T => U = T
<1>1. FiniteSubsetsOf(S) = SUBSET S
  BY FS_FiniteSubsetsOfFinite, Zenon
<1>2. ASSUME NEW R, NEW W, IsWellFoundedOn(R, W), B \subseteq W
      PROVE  \E T \in B : \A U \in B : ~ (<<U, T>> \in R)
  BY <1>2, WFMin
<1>3. PICK T \in B : \A U \in B : ~ (<<U, T>> \in StrictSubsetOrdering(S))
  <2>1. IsWellFoundedOn(StrictSubsetOrdering(S), FiniteSubsetsOf(S))
    BY FS_StrictSubsetOrderingWellFounded, Zenon
  <2>2. IsWellFoundedOn(StrictSubsetOrdering(S), SUBSET S)
    BY <2>1, <1>1
  <2> QED BY <1>2, <2>2, Zenon
<1> QED BY <1>3 DEF StrictSubsetOrdering

\* Induction: a set that holds every subset of S whose strict subsets it holds.
LEMMA SubsetInduction ==
  ASSUME NEW S, IsFiniteSet(S), NEW A \in SUBSET SUBSET S,
         \A T \in SUBSET S : (\A U \in SUBSET T : U # T => U \in A) => T \in A
  PROVE  \A T \in SUBSET S : T \in A
<1> DEFINE B == (SUBSET S) \ A
<1> SUFFICES ASSUME B # {} PROVE FALSE
  OBVIOUS
<1>1. B \subseteq SUBSET S
  OBVIOUS
<1>2. PICK T \in B : \A U \in B : U \subseteq T => U = T
  <2> HIDE DEF B
  <2> QED BY <1>1, MinimalSubset
<1> QED BY <1>2

(***************************************************************************)
(* Sums.  MapThenSumSet is a recursive function, that is, a choice among   *)
(* the solutions of an equation: there is one, and it is unique.           *)
(***************************************************************************)

Pick(s) == CHOOSE x \in s : TRUE

Solves(g, t, m, T) ==
    g = [s \in SUBSET T |-> IF s = {} THEN 0 ELSE t[Pick(s)][m] + g[s \ {Pick(s)}]]

\* The sum of column m over the rows S of table t.
ColumnSum(t, m, S) == (CHOOSE g : Solves(g, t, m, S))[S]

\* It is what the model computes.
LEMMA SumIsColumnSum ==
  ASSUME NEW S, NEW t, NEW m
  PROVE  MapThenSumSet(LAMBDA r : t[r][m], S) = ColumnSum(t, m, S)
BY DEF MapThenSumSet, MapThenFoldSet, ColumnSum, Solves, Pick

LEMMA PickIn == \A s : s # {} => Pick(s) \in s
BY DEF Pick

\* Two solutions agree where both are defined.
LEMMA SolutionsAgree ==
  ASSUME NEW t, NEW m, NEW T, NEW U, NEW g, NEW h,
         Solves(g, t, m, T), Solves(h, t, m, U),
         NEW V, IsFiniteSet(V), V \subseteq T, V \subseteq U
  PROVE  g[V] = h[V]
<1> DEFINE A == {W \in SUBSET V : g[W] = h[W]}
<1>1. ASSUME NEW W \in SUBSET V, \A X \in SUBSET W : X # W => X \in A
      PROVE  W \in A
  <2>1. g[W] = IF W = {} THEN 0 ELSE t[Pick(W)][m] + g[W \ {Pick(W)}]
    BY DEF Solves
  <2>2. h[W] = IF W = {} THEN 0 ELSE t[Pick(W)][m] + h[W \ {Pick(W)}]
    BY DEF Solves
  <2>3. W # {} => W \ {Pick(W)} \in A
    BY <1>1, PickIn
  <2> QED BY <2>1, <2>2, <2>3
<1>2. A \in SUBSET SUBSET V
  OBVIOUS
<1>3. \A W \in SUBSET V : W \in A
  <2> HIDE DEF A
  <2> QED BY <1>1, <1>2, SubsetInduction
<1> QED BY <1>3

\* There is a solution.
LEMMA SolutionExists ==
  ASSUME NEW S, IsFiniteSet(S), NEW t, NEW m
  PROVE  \A T \in SUBSET S : \E g : Solves(g, t, m, T)
<1> DEFINE A == {T \in SUBSET S : \E g : Solves(g, t, m, T)}
<1>1. ASSUME NEW T \in SUBSET S, \A U \in SUBSET T : U # T => U \in A
      PROVE  T \in A
  <2> DEFINE value(U) == ColumnSum(t, m, U)
             g == [s \in SUBSET T |-> IF s = {} THEN 0 ELSE t[Pick(s)][m] + value(s \ {Pick(s)})]
             chosen(U) == CHOOSE f : Solves(f, t, m, U)
  <2>1. \A U \in SUBSET T : IsFiniteSet(U)
    BY FS_Subset
  <2>2. \A U \in SUBSET T : U # T => Solves(chosen(U), t, m, U)
    BY <1>1
  <2>3. ASSUME NEW U \in SUBSET T, U # T
        PROVE  g[U] = value(U)
    <3>1. value(U) = chosen(U)[U]
      BY DEF ColumnSum
    <3>2. CASE U = {}
      <4>1. chosen(U)[U] = 0
        <5> HIDE DEF chosen
        <5> QED BY <2>2, <2>3, <3>2 DEF Solves
      <4> QED BY <4>1, <3>1, <3>2
    <3>3. CASE U # {}
      <4> DEFINE V == U \ {Pick(U)}
      <4>1. V \subseteq U /\ V # T /\ V \in SUBSET T
        BY <2>3, <3>3, PickIn
      <4>2. chosen(U)[U] = t[Pick(U)][m] + chosen(U)[V]
        <5> HIDE DEF chosen
        <5> QED BY <2>2, <2>3, <3>3 DEF Solves
      <4>3. chosen(U)[V] = chosen(V)[V]
        <5>1. Solves(chosen(U), t, m, U) /\ Solves(chosen(V), t, m, V) /\ IsFiniteSet(V)
          BY <2>1, <2>2, <2>3, <4>1
        <5> HIDE DEF chosen, V
        <5> QED BY <5>1, <4>1, SolutionsAgree
      <4>4. g[U] = t[Pick(U)][m] + value(V)
        BY <3>3
      <4> HIDE DEF V
      <4> QED BY <4>2, <4>3, <4>4, <3>1 DEF ColumnSum
    <3> QED BY <3>2, <3>3
  <2>4. Solves(g, t, m, T)
    <3>1. ASSUME NEW s \in SUBSET T, s # {}
          PROVE  g[s \ {Pick(s)}] = value(s \ {Pick(s)})
      <4>1. s \ {Pick(s)} \in SUBSET T /\ s \ {Pick(s)} # T
        BY <3>1, PickIn
      <4> HIDE DEF g, value
      <4> QED BY <4>1, <2>3
    <3>2. \A s \in SUBSET T : (IF s = {} THEN 0 ELSE t[Pick(s)][m] + value(s \ {Pick(s)}))
                              = (IF s = {} THEN 0 ELSE t[Pick(s)][m] + g[s \ {Pick(s)}])
      <4> HIDE DEF g, value
      <4> QED BY <3>1
    <3> QED BY <3>2 DEF Solves
  <2> QED BY <2>4
<1>2. A \in SUBSET SUBSET S
  OBVIOUS
<1>3. \A T \in SUBSET S : T \in A
  <2> HIDE DEF A
  <2> QED BY <1>1, <1>2, SubsetInduction
<1> QED BY <1>3

\* The sum of nothing, and the sum without the element that is taken first.
LEMMA SumUnfolds ==
  ASSUME NEW S, IsFiniteSet(S), NEW t, NEW m
  PROVE  ColumnSum(t, m, S) = IF S = {} THEN 0
                              ELSE t[Pick(S)][m] + ColumnSum(t, m, S \ {Pick(S)})
<1> DEFINE g == CHOOSE f : Solves(f, t, m, S)
           V == S \ {Pick(S)}
           h == CHOOSE f : Solves(f, t, m, V)
<1>1. V \in SUBSET S /\ IsFiniteSet(V)
  BY FS_Subset
<1>2. Solves(g, t, m, S) /\ Solves(h, t, m, V)
  BY <1>1, SolutionExists
<1>3. ColumnSum(t, m, S) = g[S] /\ ColumnSum(t, m, V) = h[V]
  BY DEF ColumnSum
<1> HIDE DEF g, h
<1>4. g[V] = h[V]
  BY <1>1, <1>2, SolutionsAgree
<1>5. g[S] = IF S = {} THEN 0 ELSE t[Pick(S)][m] + g[V]
  BY <1>2 DEF Solves
<1> QED BY <1>3, <1>4, <1>5

Counts(t, m, S) == \A r \in S : t[r][m] \in Nat

\* A sum of counters is a natural number.
LEMMA SumIsNat ==
  ASSUME NEW S, IsFiniteSet(S), NEW t, NEW m, Counts(t, m, S)
  PROVE  \A T \in SUBSET S : ColumnSum(t, m, T) \in Nat
<1> DEFINE A == {T \in SUBSET S : ColumnSum(t, m, T) \in Nat}
<1>1. ASSUME NEW T \in SUBSET S, \A U \in SUBSET T : U # T => U \in A
      PROVE  T \in A
  <2>1. ColumnSum(t, m, T) = IF T = {} THEN 0
                             ELSE t[Pick(T)][m] + ColumnSum(t, m, T \ {Pick(T)})
    BY FS_Subset, SumUnfolds
  <2>2. T # {} => T \ {Pick(T)} \in A /\ t[Pick(T)][m] \in Nat
    BY <1>1, PickIn DEF Counts
  <2> QED BY <2>1, <2>2
<1>2. A \in SUBSET SUBSET S
  OBVIOUS
<1>3. \A T \in SUBSET S : T \in A
  <2> HIDE DEF A
  <2> QED BY <1>1, <1>2, SubsetInduction
<1> QED BY <1>3

\* Any element may be taken first.
LEMMA SumTakesAny ==
  ASSUME NEW S, IsFiniteSet(S), NEW t, NEW m, Counts(t, m, S)
  PROVE  \A T \in SUBSET S : \A x \in T :
            ColumnSum(t, m, T) = t[x][m] + ColumnSum(t, m, T \ {x})
<1> DEFINE sum(T) == ColumnSum(t, m, T)
           A == {T \in SUBSET S : \A x \in T : sum(T) = t[x][m] + sum(T \ {x})}
<1>1. ASSUME NEW T \in SUBSET S, \A U \in SUBSET T : U # T => U \in A
      PROVE  T \in A
  <2> SUFFICES ASSUME NEW x \in T PROVE sum(T) = t[x][m] + sum(T \ {x})
    OBVIOUS
  <2> DEFINE p == Pick(T)
  <2>1. p \in T /\ sum(T) = t[p][m] + sum(T \ {p})
    BY FS_Subset, SumUnfolds, PickIn
  <2> HIDE DEF p
  <2>2. CASE p = x
    BY <2>1, <2>2
  <2>3. CASE p # x
    <3>1. T \ {p} \in A /\ T \ {x} \in A /\ x \in T \ {p} /\ p \in T \ {x}
      BY <1>1, <2>1, <2>3
    <3>2. (T \ {p}) \ {x} = (T \ {x}) \ {p} /\ (T \ {p}) \ {x} \in SUBSET S
      OBVIOUS
    <3>3. /\ sum(T \ {p}) = t[x][m] + sum((T \ {p}) \ {x})
          /\ sum(T \ {x}) = t[p][m] + sum((T \ {p}) \ {x})
      <4> HIDE DEF sum
      <4> QED BY <3>1, <3>2
    <3>4. t[x][m] \in Nat /\ t[p][m] \in Nat /\ sum((T \ {p}) \ {x}) \in Nat
      BY <2>1, <3>2, SumIsNat DEF Counts
    <3> HIDE DEF sum
    <3> QED BY <2>1, <3>3, <3>4
  <2> QED BY <2>2, <2>3
<1>2. A \in SUBSET SUBSET S
  OBVIOUS
<1>3. \A T \in SUBSET S : T \in A
  <2> HIDE DEF A
  <2> QED BY <1>1, <1>2, SubsetInduction
<1> QED BY <1>3

\* Smaller counters have a smaller sum, equal ones the same.
LEMMA SumIsMonotone ==
  ASSUME NEW S, IsFiniteSet(S), NEW t, NEW u, NEW m, Counts(t, m, S), Counts(u, m, S),
         \A r \in S : u[r][m] <= t[r][m]
  PROVE  /\ ColumnSum(u, m, S) <= ColumnSum(t, m, S)
         /\ (\A r \in S : u[r][m] = t[r][m]) => ColumnSum(u, m, S) = ColumnSum(t, m, S)
<1> DEFINE less(T) == ColumnSum(u, m, T) <= ColumnSum(t, m, T)
           same(T) == (\A r \in S : u[r][m] = t[r][m]) => ColumnSum(u, m, T) = ColumnSum(t, m, T)
           A == {T \in SUBSET S : less(T) /\ same(T)}
<1>1. ASSUME NEW T \in SUBSET S, \A U \in SUBSET T : U # T => U \in A
      PROVE  T \in A
  <2>1. IsFiniteSet(T)
    BY FS_Subset
  <2>2. CASE T = {}
    BY <2>1, <2>2, SumUnfolds
  <2>3. CASE T # {}
    <3> DEFINE p == Pick(T)
    <3>1. p \in T /\ T \ {p} \in A /\ T \ {p} \in SUBSET S
      BY <1>1, <2>3, PickIn
    <3>2. /\ ColumnSum(t, m, T) = t[p][m] + ColumnSum(t, m, T \ {p})
          /\ ColumnSum(u, m, T) = u[p][m] + ColumnSum(u, m, T \ {p})
      BY <2>1, <2>3, SumUnfolds
    <3>3. /\ t[p][m] \in Nat /\ u[p][m] \in Nat
          /\ ColumnSum(t, m, T \ {p}) \in Nat /\ ColumnSum(u, m, T \ {p}) \in Nat
      BY <3>1, SumIsNat DEF Counts
    <3>4. u[p][m] <= t[p][m] /\ p \in S
      BY <3>1
    <3> HIDE DEF p
    <3> QED BY <3>1, <3>2, <3>3, <3>4
  <2> QED BY <2>2, <2>3
<1>2. A \in SUBSET SUBSET S
  OBVIOUS
<1>3. \A T \in SUBSET S : T \in A
  <2> HIDE DEF A
  <2> QED BY <1>1, <1>2, SubsetInduction
<1> QED BY <1>3

\* What one row gains the sum gains.
LEMMA SumGains ==
  ASSUME NEW S, IsFiniteSet(S), NEW t, NEW u, NEW m, Counts(t, m, S),
         NEW x \in S, NEW d \in Nat, u[x][m] = t[x][m] + d,
         \A r \in S \ {x} : u[r][m] = t[r][m]
  PROVE  ColumnSum(u, m, S) = ColumnSum(t, m, S) + d
<1> DEFINE R == S \ {x}
<1>1. R \in SUBSET S /\ IsFiniteSet(R) /\ Counts(t, m, R) /\ Counts(u, m, R) /\ Counts(u, m, S)
  BY FS_Subset DEF Counts
<1>2. \A r \in R : u[r][m] <= t[r][m] /\ u[r][m] = t[r][m]
  BY DEF Counts
<1>3. /\ ColumnSum(t, m, S) = t[x][m] + ColumnSum(t, m, R)
      /\ ColumnSum(u, m, S) = u[x][m] + ColumnSum(u, m, R)
  BY <1>1, SumTakesAny
<1>4. ColumnSum(t, m, R) \in Nat /\ t[x][m] \in Nat
  BY <1>1, SumIsNat DEF Counts
<1> HIDE DEF R
<1>5. ColumnSum(u, m, R) = ColumnSum(t, m, R)
  BY <1>1, <1>2, SumIsMonotone
<1> QED BY <1>3, <1>4, <1>5

\* Rows without a count may be left out.
LEMMA SumSkipsZeros ==
  ASSUME NEW S, IsFiniteSet(S), NEW R \in SUBSET S, NEW t, NEW m, Counts(t, m, S),
         \A r \in S \ R : t[r][m] = 0
  PROVE  ColumnSum(t, m, S) = ColumnSum(t, m, R)
<1> DEFINE A == {T \in SUBSET S : ColumnSum(t, m, T) = ColumnSum(t, m, T \cap R)}
<1>1. ASSUME NEW T \in SUBSET S, \A U \in SUBSET T : U # T => U \in A
      PROVE  T \in A
  <2>1. CASE T \subseteq R
    <3>1. T \cap R = T
      BY <2>1
    <3> QED BY <3>1
  <2>2. CASE ~(T \subseteq R)
    <3>1. PICK x \in T : x \notin R
      BY <2>2
    <3>2. ColumnSum(t, m, T) = t[x][m] + ColumnSum(t, m, T \ {x})
      BY SumTakesAny
    <3>3. t[x][m] = 0 /\ T \ {x} \in A /\ (T \ {x}) \cap R = T \cap R
      BY <1>1, <3>1
    <3>4. ColumnSum(t, m, T \ {x}) \in Nat
      BY SumIsNat
    <3>5. ColumnSum(t, m, T \ {x}) = ColumnSum(t, m, T \cap R)
      BY <3>3
    <3>6. ColumnSum(t, m, T) = ColumnSum(t, m, T \cap R)
      BY <3>2, <3>3, <3>4, <3>5
    <3> QED BY <3>6
  <2> QED BY <2>1, <2>2
<1>2. A \in SUBSET SUBSET S
  OBVIOUS
<1>3. \A T \in SUBSET S : T \in A
  <2> HIDE DEF A
  <2> QED BY <1>1, <1>2, SubsetInduction
<1>4. S \cap R = R
  OBVIOUS
<1> QED BY <1>3, <1>4

\* Some of the rows have a smaller sum than all of them.
LEMMA SumOfPart ==
  ASSUME NEW S, IsFiniteSet(S), NEW R \in SUBSET S, NEW t, NEW m, Counts(t, m, S)
  PROVE  ColumnSum(t, m, R) <= ColumnSum(t, m, S)
<1> DEFINE u == [r \in S |-> [n \in {m} |-> IF r \in R THEN t[r][m] ELSE 0]]
<1>1. \A r \in S : u[r][m] = IF r \in R THEN t[r][m] ELSE 0
  OBVIOUS
<1> HIDE DEF u
<1>2. /\ IsFiniteSet(R) /\ Counts(t, m, R) /\ Counts(u, m, S) /\ Counts(u, m, R)
      /\ \A r \in S : u[r][m] <= t[r][m]
  BY <1>1, FS_Subset DEF Counts
<1>3. ColumnSum(u, m, S) <= ColumnSum(t, m, S)
  BY <1>2, SumIsMonotone
<1>4. ColumnSum(u, m, S) = ColumnSum(u, m, R)
  BY <1>1, <1>2, SumSkipsZeros
<1>5. ColumnSum(u, m, R) = ColumnSum(t, m, R)
  <2>1. \A r \in R : u[r][m] <= t[r][m] /\ u[r][m] = t[r][m]
    BY <1>1, <1>2
  <2> QED BY <1>2, <2>1, SumIsMonotone
<1> QED BY <1>3, <1>4, <1>5

(***************************************************************************)
(* The least and the greatest of a set of naturals.                        *)
(***************************************************************************)

LEMMA LeastNatural ==
  ASSUME NEW S, S \subseteq Nat, S # {}
  PROVE  \E x \in S : \A y \in S : x <= y
<1>1. ASSUME NEW R, IsWellFoundedOn(R, Nat)
      PROVE  \E x \in S : \A y \in S : ~ (<<y, x>> \in R)
  BY <1>1, WFMin
<1>2. PICK x \in S : \A y \in S : ~ (<<y, x>> \in OpToRel(<, Nat))
  BY <1>1, NatLessThanWellFounded, Zenon
<1>3. \A y \in S : ~(y < x)
  BY <1>2 DEF OpToRel
<1> QED BY <1>3

LEMMA MinIsLeast ==
  ASSUME NEW S, S \subseteq Nat, S # {}
  PROVE  Min(S) \in S /\ \A y \in S : Min(S) <= y
BY LeastNatural DEF Min

LEMMA MaxIsGreatest ==
  ASSUME NEW S, S \subseteq Nat, S # {}, NEW n \in Nat, \A y \in S : y <= n
  PROVE  Max(S) \in S /\ \A y \in S : y <= Max(S)
<1> DEFINE B == {b \in Nat : \A y \in S : y <= b}
<1>1. B \subseteq Nat /\ B # {}
  OBVIOUS
<1>2. PICK b \in B : \A c \in B : b <= c
  <2> HIDE DEF B
  <2> QED BY <1>1, LeastNatural
<1>3. b \in S
  <2> SUFFICES ASSUME b \notin S PROVE FALSE
    OBVIOUS
  <2>1. \A y \in S : y < b
    OBVIOUS
  <2>2. b - 1 \in Nat
    <3>1. PICK y \in S : y < b /\ y \in Nat
      BY <2>1
    <3> QED BY <3>1
  <2>3. \A y \in S : y <= b - 1
    BY <2>1
  <2> QED BY <1>2, <2>2, <2>3
<1>4. \E x \in S : \A y \in S : x >= y
  BY <1>3
<1> QED BY <1>4 DEF Max
-----------------------------------------------------------------------------
(***************************************************************************)
(* Statement metrics.  What is remembered of a key all of whose rows were  *)
(* passed is a total of the table, and the table has since then grown by   *)
(* no more than was executed.  The query with aggregates takes all the     *)
(* rows of a key of one group or none.                                     *)
(***************************************************************************)

RowsOf(k) == {r \in Rows : Key[r] = k}

\* What the table holds of a key.
Total(k, m) == ColumnSum(table, m, RowsOf(k))

\* What was remembered and what was executed since then account for the table, if
\* all of a key's rows were passed: to the last count if it lost no row.
Accounted ==
    \A k \in DOMAIN previous \ hidden, m \in Metrics :
        /\ Total(k, m) <= previous[k][m] + window[k][m]
        /\ k \notin lost => Total(k, m) = previous[k][m] + window[k][m]

\* A key of one group is remembered with all its rows.
WholeIsPassed == \A k \in DOMAIN previous : Whole(k) => k \notin hidden

\* A key that was executed since the last query has a row that says so.
Witnessed ==
    since # None => \A k \in fresh : \E r \in RowsOf(k) : table[r] # Zero /\ ended[r] < since

SqlInv == SqlTypeOK /\ Accounted /\ WholeIsPassed /\ Witnessed

LEMMA MergeIsColumnSum ==
  ASSUME NEW R
  PROVE  Merge(R) = [k \in {Key[r] : r \in R} |->
                        [m \in Metrics |-> ColumnSum(table, m, {r \in R : Key[r] = k})]]
BY DEF Merge, MapThenSumSet, MapThenFoldSet, ColumnSum, Solves, Pick

LEMMA Counters ==
  ASSUME SqlTypeOK, NEW m \in Metrics
  PROVE  \A S \in SUBSET Rows : IsFiniteSet(S) /\ Counts(table, m, S)
<1>1. \A r \in Rows : table[r][m] \in Nat
  BY StatementAssumption DEF SqlTypeOK, StatementTypeOK
<1> QED BY <1>1, FS_Subset, StatementAssumption DEF Counts

\* What is loaded of a key of one group is all the table holds of it.
LEMMA WholeGroups ==
  ASSUME NEW k, Whole(k), k \in {Key[r] : r \in Selected}
  PROVE  k \notin {Key[r] : r \in Present \ Selected}
<1>1. ASSUME NEW r, NEW q, query.group[r] = query.group[q]
      PROVE  GroupInWindow(r) <=> GroupInWindow(q)
  BY <1>1 DEF GroupInWindow
<1>2. Selected = {r \in Present : GroupInWindow(r)}
  BY DEF Selected, Whole
<1>3. \A q, r \in Present : Key[q] = k /\ Key[r] = k => query.group[q] = query.group[r]
  BY DEF Whole, Present
<1> HIDE DEF GroupInWindow
<1> QED BY <1>1, <1>2, <1>3

LEMMA LoadedTotals ==
  ASSUME SqlTypeOK
  PROVE  /\ DOMAIN Merge(Selected) = {Key[r] : r \in Selected}
         /\ \A k \in DOMAIN Merge(Selected) :
               /\ Merge(Selected)[k] \in [Metrics -> Nat]
               /\ Merge(Selected)[k] # Zero
               /\ \A m \in Metrics :
                     /\ Total(k, m) \in Nat /\ Merge(Selected)[k][m] <= Total(k, m)
                     /\ k \notin {Key[r] : r \in Present \ Selected}
                           => Merge(Selected)[k][m] = Total(k, m)
<1>1. Merge(Selected) = [k \in {Key[r] : r \in Selected} |->
                 [m \in Metrics |-> ColumnSum(table, m, {r \in Selected : Key[r] = k})]]
  BY MergeIsColumnSum
<1>2. ASSUME NEW k \in {Key[r] : r \in Selected}
      PROVE  /\ Merge(Selected)[k] \in [Metrics -> Nat]
             /\ Merge(Selected)[k] # Zero
             /\ \A m \in Metrics :
                   /\ Total(k, m) \in Nat /\ Merge(Selected)[k][m] <= Total(k, m)
                   /\ k \notin {Key[r] : r \in Present \ Selected}
                         => Merge(Selected)[k][m] = Total(k, m)
  <2> DEFINE G == {r \in Selected : Key[r] = k}
             P == {r \in Present : Key[r] = k}
             whole == k \notin {Key[r] : r \in Present \ Selected}
  <2>1. G # {} /\ G \subseteq P
    BY DEF Selected
  <2>2. /\ G \in SUBSET Rows /\ RowsOf(k) \in SUBSET Rows /\ P \in SUBSET RowsOf(k)
        /\ G \in SUBSET RowsOf(k)
    BY <2>1 DEF Present, RowsOf
  <2>3. Merge(Selected)[k] = [m \in Metrics |-> ColumnSum(table, m, G)]
    BY <1>1
  <2>4. ASSUME NEW m \in Metrics
        PROVE  /\ ColumnSum(table, m, G) \in Nat /\ Total(k, m) \in Nat
               /\ ColumnSum(table, m, G) <= Total(k, m)
               /\ whole => ColumnSum(table, m, G) = Total(k, m)
    <3>1. IsFiniteSet(RowsOf(k)) /\ Counts(table, m, RowsOf(k))
      BY <2>2, Counters
    <3>2. whole => \A r \in RowsOf(k) \ G : table[r][m] = 0
      BY DEF Present, RowsOf, Zero
    <3> HIDE DEF G, whole
    <3>3. ColumnSum(table, m, G) \in Nat /\ ColumnSum(table, m, RowsOf(k)) \in Nat
      BY <3>1, <2>2, SumIsNat
    <3>4. ColumnSum(table, m, G) <= ColumnSum(table, m, RowsOf(k))
      BY <3>1, <2>2, SumOfPart
    <3>5. whole => ColumnSum(table, m, G) = ColumnSum(table, m, RowsOf(k))
      BY <3>1, <3>2, <2>2, SumSkipsZeros
    <3> QED BY <3>3, <3>4, <3>5 DEF Total
  <2>5. \E m \in Metrics : ColumnSum(table, m, G) # 0
    <3>1. PICK r \in G : table[r] # Zero /\ r \in Rows
      BY <2>1 DEF Present
    <3>2. table[r] \in [Metrics -> 0 .. MaxCount]
      BY <3>1 DEF SqlTypeOK, StatementTypeOK
    <3>3. PICK m \in Metrics : table[r][m] # 0
      BY <3>1, <3>2 DEF Zero
    <3>4. IsFiniteSet(G) /\ Counts(table, m, G)
      BY <2>2, Counters
    <3> HIDE DEF G
    <3>5. ColumnSum(table, m, G) = table[r][m] + ColumnSum(table, m, G \ {r})
      BY <3>4, SumTakesAny
    <3>6. ColumnSum(table, m, G \ {r}) \in Nat /\ table[r][m] \in Nat
      BY <3>4, SumIsNat DEF Counts
    <3> QED BY <3>3, <3>5, <3>6
  <2> HIDE DEF G
  <2>6. Merge(Selected)[k] \in [Metrics -> Nat]
    BY <2>3, <2>4
  <2>7. Merge(Selected)[k] # Zero
    BY <2>3, <2>5 DEF Zero
  <2>8. \A m \in Metrics : Merge(Selected)[k][m] = ColumnSum(table, m, G)
    BY <2>3
  <2> QED BY <2>4, <2>6, <2>7, <2>8
<1>3. DOMAIN Merge(Selected) = {Key[r] : r \in Selected}
  BY <1>1
<1> QED BY <1>2, <1>3

LEMMA SqlTyped ==
  ASSUME SqlTypeOK
  PROVE  /\ \A r \in Rows : /\ table[r] \in [Metrics -> 0 .. MaxCount]
                            /\ Key[r] \in Keys
                            /\ ended[r] \in 0 .. LongAgo /\ took[r] \in 0 .. LongAgo
         /\ \A k \in Keys, m \in Metrics : window[k][m] \in 0 .. MaxCount
         /\ \A k \in DOMAIN previous : k \in Keys /\ previous[k] \in [Metrics -> Nat]
BY DEF SqlTypeOK, StatementTypeOK, Keys

LEMMA SqlInitInv == SqlInit => SqlInv
<1> SUFFICES ASSUME SqlInit PROVE SqlInv
  OBVIOUS
<1> USE StatementAssumption, WindowAssumption
<1>1. DOMAIN previous = {} /\ DOMAIN result = {}
  BY DEF SqlInit, StatementInit, Empty
<1>2. SqlTypeOK
  <2>1. NoKey \in [Keys -> [Metrics -> 0 .. MaxCount]]
    BY DEF NoKey, Zero
  <2>2. StatementTypeOK
    BY <1>1, <2>1 DEF SqlInit, StatementInit, StatementTypeOK
  <2>3. ended \in [Rows -> 0 .. LongAgo] /\ took \in [Rows -> 0 .. LongAgo]
    BY DEF SqlInit
  <2>4. since \in {None} \cup 0 .. LongAgo /\ fresh \subseteq Keys /\ query \in Queries
    BY DEF SqlInit
  <2> QED BY <2>2, <2>3, <2>4 DEF SqlTypeOK
<1>3. Accounted /\ WholeIsPassed
  BY <1>1 DEF Accounted, WholeIsPassed
<1>4. Witnessed
  BY DEF SqlInit, Witnessed
<1> QED BY <1>2, <1>3, <1>4 DEF SqlInv

\* A statement adds the same to the table and to the window.
LEMMA SqlExecuteInv ==
  ASSUME SqlInv, NEW r \in Rows, SqlExecute(r)
  PROVE  SqlInv'
<1> USE StatementAssumption, WindowAssumption
<1>1. SqlTypeOK /\ Accounted /\ WholeIsPassed /\ Witnessed
  BY DEF SqlInv
<1>2. PICK M \in (SUBSET Metrics) \ {{}} :
          /\ \A m \in M : table[r][m] < MaxCount /\ window[Key[r]][m] < MaxCount
          /\ table' = [table EXCEPT ![r] = [m \in Metrics |-> @[m] + (IF m \in M THEN 1 ELSE 0)]]
          /\ window' = [window EXCEPT ![Key[r]] =
                            [m \in Metrics |-> @[m] + (IF m \in M THEN 1 ELSE 0)]]
  BY DEF SqlExecute, Execute
<1>3. /\ since # 0
      /\ UNCHANGED <<previous, result, lost, hidden, query, since>>
      /\ fresh' = fresh \cup {Key[r]}
      /\ ended' = [ended EXCEPT ![r] = 0]
      /\ \E d \in {0, LongAgo} : took' = [took EXCEPT ![r] = d]
  BY DEF SqlExecute, Execute
<1> DEFINE gain(m) == IF m \in M THEN 1 ELSE 0
<1>4. /\ table \in [Rows -> [Metrics -> 0 .. MaxCount]]
      /\ window \in [Keys -> [Metrics -> 0 .. MaxCount]]
      /\ Key[r] \in Keys
  BY <1>1 DEF SqlTypeOK, StatementTypeOK, Keys
<1>5. /\ \A m \in Metrics : table'[r][m] = table[r][m] + gain(m)
      /\ \A q \in Rows \ {r} : table'[q] = table[q]
      /\ \A m \in Metrics : window'[Key[r]][m] = window[Key[r]][m] + gain(m)
      /\ \A k \in Keys \ {Key[r]} : window'[k] = window[k]
  BY <1>2, <1>4
<1>6. SqlTypeOK'
  <2>1. table' \in [Rows -> [Metrics -> 0 .. MaxCount]]
    <3>1. [m \in Metrics |-> table[r][m] + gain(m)] \in [Metrics -> 0 .. MaxCount]
      BY <1>2, <1>4
    <3> QED BY <1>2, <1>4, <3>1
  <2>2. window' \in [Keys -> [Metrics -> 0 .. MaxCount]]
    <3>1. [m \in Metrics |-> window[Key[r]][m] + gain(m)] \in [Metrics -> 0 .. MaxCount]
      BY <1>2, <1>4
    <3> QED BY <1>2, <1>4, <3>1
  <2>3. ended' \in [Rows -> 0 .. LongAgo] /\ took' \in [Rows -> 0 .. LongAgo]
    BY <1>1, <1>3 DEF SqlTypeOK
  <2> QED BY <1>1, <1>3, <1>4, <2>1, <2>2, <2>3 DEF SqlTypeOK, StatementTypeOK, Keys
<1>7. WholeIsPassed'
  BY <1>1, <1>3 DEF WholeIsPassed, Whole
<1>8. Accounted'
  <2> SUFFICES ASSUME NEW k \in DOMAIN previous \ hidden, NEW m \in Metrics
               PROVE  /\ Total(k, m)' <= previous[k][m] + window'[k][m]
                      /\ k \notin lost => Total(k, m)' = previous[k][m] + window'[k][m]
    BY <1>3 DEF Accounted
  <2>1. /\ Total(k, m) <= previous[k][m] + window[k][m]
        /\ k \notin lost => Total(k, m) = previous[k][m] + window[k][m]
    BY <1>1 DEF Accounted
  <2>2. RowsOf(k) \in SUBSET Rows /\ k \in Keys
    BY <1>1 DEF RowsOf, SqlTypeOK, StatementTypeOK
  <2>3. IsFiniteSet(RowsOf(k)) /\ Counts(table, m, RowsOf(k))
    BY <1>1, <2>2, Counters
  <2>4. /\ previous[k][m] \in Nat /\ window[k][m] \in Nat /\ window'[k][m] \in Nat
        /\ Total(k, m) \in Nat
    BY <1>1, <1>6, <2>2, <2>3, SumIsNat DEF SqlTypeOK, StatementTypeOK, Total
  <2>5. Total(k, m)' = ColumnSum(table', m, RowsOf(k))
    BY DEF Total, RowsOf
  <2>6. CASE k = Key[r]
    <3>1. r \in RowsOf(k)
      BY <2>6 DEF RowsOf
    <3>2. /\ table'[r][m] = table[r][m] + gain(m) /\ gain(m) \in Nat
          /\ \A q \in RowsOf(k) \ {r} : table'[q][m] = table[q][m]
      BY <1>5 DEF RowsOf
    <3> HIDE DEF gain
    <3>3. ColumnSum(table', m, RowsOf(k)) = ColumnSum(table, m, RowsOf(k)) + gain(m)
      BY <2>3, <3>1, <3>2, SumGains
    <3>4. window'[k][m] = window[k][m] + gain(m)
      BY <1>5, <2>6
    <3> QED BY <2>1, <2>4, <2>5, <3>2, <3>3, <3>4 DEF Total
  <2>7. CASE k # Key[r]
    <3>1. \A q \in RowsOf(k) : table'[q][m] = table[q][m]
      BY <1>5, <2>7 DEF RowsOf
    <3>2. Counts(table', m, RowsOf(k)) /\ \A q \in RowsOf(k) : table'[q][m] <= table[q][m]
      BY <2>3, <3>1 DEF Counts
    <3>3. ColumnSum(table', m, RowsOf(k)) = ColumnSum(table, m, RowsOf(k))
      BY <2>3, <3>1, <3>2, SumIsMonotone
    <3>4. window'[k] = window[k]
      BY <1>5, <2>2, <2>7
    <3> QED BY <2>1, <2>5, <3>3, <3>4 DEF Total
  <2> QED BY <2>6, <2>7
<1>9. Witnessed'
  <2> SUFFICES ASSUME since # None, NEW k \in fresh \cup {Key[r]}
               PROVE  \E q \in RowsOf(k) : table'[q] # Zero /\ ended'[q] < since
    BY <1>3 DEF Witnessed, Keys, Zero, RowsOf, None
  <2>1. CASE k = Key[r]
    <3>1. PICK m \in Metrics : m \in M
      BY <1>2
    <3>2. table'[r][m] # 0
      BY <1>4, <1>5, <3>1
    <3>3. ended'[r] = 0 /\ 0 < since
      BY <1>1, <1>3 DEF SqlTypeOK, None
    <3> QED BY <2>1, <3>2, <3>3 DEF RowsOf, Zero
  <2>2. CASE k # Key[r]
    <3>2. PICK q \in RowsOf(k) : table[q] # Zero /\ ended[q] < since
      BY <1>1, <2>2 DEF Witnessed
    <3>3. q \in Rows \ {r}
      BY <2>2 DEF RowsOf
    <3>4. table'[q] = table[q] /\ ended'[q] = ended[q]
      BY <1>1, <1>3, <1>5, <3>3 DEF SqlTypeOK
    <3> QED BY <3>2, <3>4
  <2> QED BY <2>1, <2>2
<1> QED BY <1>6, <1>7, <1>8, <1>9 DEF SqlInv

\* A row that is evicted takes its counts with it.
LEMMA SqlEvictInv ==
  ASSUME SqlInv, SqlEvict
  PROVE  SqlInv'
<1> USE StatementAssumption
<1>1. SqlTypeOK /\ Accounted /\ WholeIsPassed /\ Witnessed
  BY DEF SqlInv
<1>2. PICK R \in (SUBSET Rows) \ {{}} :
          /\ table' = [r \in Rows |-> IF r \in R THEN Zero ELSE table[r]]
          /\ lost' = lost \cup {Key[r] : r \in R}
  BY DEF SqlEvict, Evict
<1>3. /\ UNCHANGED <<previous, result, window, hidden, query, ended, took, since>>
      /\ fresh' = {k \in fresh : \A r \in Rows : Key[r] = k => table'[r] = table[r]}
  BY DEF SqlEvict, Evict, clock
<1>4. /\ \A r \in Rows : table[r] \in [Metrics -> 0 .. MaxCount]
      /\ \A r \in Rows : table'[r] = IF r \in R THEN Zero ELSE table[r]
  BY <1>1, <1>2 DEF SqlTypeOK, StatementTypeOK
<1>5. SqlTypeOK'
  <2>1. Zero \in [Metrics -> 0 .. MaxCount]
    BY DEF Zero
  <2>2. table' \in [Rows -> [Metrics -> 0 .. MaxCount]]
    BY <1>2, <1>4, <2>1
  <2>3. lost' \subseteq Keys /\ fresh' \subseteq Keys
    BY <1>1, <1>2, <1>3 DEF SqlTypeOK, StatementTypeOK, Keys
  <2> QED BY <1>1, <1>3, <2>2, <2>3 DEF SqlTypeOK, StatementTypeOK
<1>6. WholeIsPassed'
  BY <1>1, <1>3 DEF WholeIsPassed, Whole
<1>7. Accounted'
  <2> SUFFICES ASSUME NEW k \in DOMAIN previous \ hidden, NEW m \in Metrics
               PROVE  /\ Total(k, m)' <= previous[k][m] + window[k][m]
                      /\ k \notin lost' => Total(k, m)' = previous[k][m] + window[k][m]
    BY <1>3 DEF Accounted
  <2>1. /\ Total(k, m) <= previous[k][m] + window[k][m]
        /\ k \notin lost => Total(k, m) = previous[k][m] + window[k][m]
    BY <1>1 DEF Accounted
  <2>2. RowsOf(k) \in SUBSET Rows /\ k \in Keys
    BY <1>1 DEF RowsOf, SqlTypeOK, StatementTypeOK
  <2>3. IsFiniteSet(RowsOf(k)) /\ Counts(table, m, RowsOf(k))
    BY <1>1, <2>2, Counters
  <2>4. Counts(table', m, RowsOf(k)) /\ \A r \in RowsOf(k) : table'[r][m] <= table[r][m]
    BY <1>4, <2>2 DEF Counts, Zero
  <2>5. /\ previous[k][m] \in Nat /\ window[k][m] \in Nat
        /\ ColumnSum(table, m, RowsOf(k)) \in Nat /\ ColumnSum(table', m, RowsOf(k)) \in Nat
    BY <1>1, <2>2, <2>3, <2>4, SumIsNat DEF SqlTypeOK, StatementTypeOK
  <2>6. Total(k, m) = ColumnSum(table, m, RowsOf(k)) /\ Total(k, m)' = ColumnSum(table', m, RowsOf(k))
    BY DEF Total, RowsOf
  <2>7. ColumnSum(table', m, RowsOf(k)) <= ColumnSum(table, m, RowsOf(k))
    BY <2>3, <2>4, SumIsMonotone
  <2>8. ASSUME k \notin lost'
        PROVE  ColumnSum(table', m, RowsOf(k)) = ColumnSum(table, m, RowsOf(k))
    <3>1. \A r \in RowsOf(k) : table'[r][m] = table[r][m]
      BY <1>2, <1>4, <2>8 DEF RowsOf
    <3> QED BY <2>3, <2>4, <3>1, SumIsMonotone
  <2>9. k \notin lost' => k \notin lost
    BY <1>2
  <2> QED BY <2>1, <2>5, <2>6, <2>7, <2>8, <2>9
<1>8. Witnessed'
  <2> SUFFICES ASSUME since # None, NEW k \in fresh'
               PROVE  \E q \in RowsOf(k) : table'[q] # Zero /\ ended[q] < since
    BY <1>3 DEF Witnessed, Keys, Zero, RowsOf, None
  <2>1. PICK q \in RowsOf(k) : table[q] # Zero /\ ended[q] < since
    BY <1>1, <1>3 DEF Witnessed
  <2>2. table'[q] = table[q]
    BY <1>3 DEF RowsOf
  <2> QED BY <2>1, <2>2
<1> QED BY <1>5, <1>6, <1>7, <1>8 DEF SqlInv

\* Time moves the last query and the witnesses of a key alike.
LEMMA TimePassesInv ==
  ASSUME SqlInv, TimePasses
  PROVE  SqlInv'
<1> USE WindowAssumption
<1>1. SqlTypeOK /\ Accounted /\ WholeIsPassed /\ Witnessed
  BY DEF SqlInv
<1>2. /\ since < LongAgo
      /\ ended' = [r \in Rows |-> Aged(ended[r])]
      /\ since' = IF since = None THEN None ELSE since + 1
      /\ UNCHANGED <<table, previous, result, window, lost, hidden, query, took, fresh>>
  BY DEF TimePasses, statementVars
<1>3. /\ ended \in [Rows -> 0 .. LongAgo]
      /\ since \in {None} \cup 0 .. LongAgo
  BY <1>1 DEF SqlTypeOK
<1>4. SqlTypeOK'
  <2>1. ended' \in [Rows -> 0 .. LongAgo]
    BY <1>2, <1>3 DEF Aged
  <2>2. since' \in {None} \cup 0 .. LongAgo
    BY <1>2, <1>3 DEF None
  <2> QED BY <1>1, <1>2, <2>1, <2>2 DEF SqlTypeOK, StatementTypeOK
<1>5. Accounted' /\ WholeIsPassed'
  BY <1>1, <1>2 DEF Accounted, Total, WholeIsPassed, Whole
<1>6. Witnessed'
  <2> SUFFICES ASSUME since' # None, NEW k \in fresh
               PROVE  \E q \in RowsOf(k) : table[q] # Zero /\ ended'[q] < since'
    BY <1>2 DEF Witnessed, Keys, Zero, RowsOf, None
  <2>1. since \in 0 .. LongAgo /\ since # None /\ since' = since + 1
    BY <1>2, <1>3
  <2>2. PICK q \in RowsOf(k) : table[q] # Zero /\ ended[q] < since
    BY <1>1, <2>1 DEF Witnessed
  <2>3. ended'[q] = Aged(ended[q]) /\ ended[q] \in 0 .. LongAgo
    BY <1>2, <1>3 DEF RowsOf
  <2>4. ended'[q] < since'
    BY <1>2, <2>1, <2>2, <2>3 DEF Aged
  <2> QED BY <2>2, <2>4
<1> QED BY <1>4, <1>5, <1>6 DEF SqlInv

\* What a call of compute_derivative_rows finds of a key it remembers with all its
\* rows: no more than was executed, and just that if it is passed all of them again.
LEMMA DiffIsExact ==
  ASSUME SqlTypeOK, Accounted,
         NEW k \in (DOMAIN Merge(Selected) \cap DOMAIN previous) \ hidden, NEW m \in Metrics
  PROVE  /\ Diff(Merge(Selected), k)[m] \in Int
         /\ Diff(Merge(Selected), k)[m] <= window[k][m]
         /\ k \notin lost /\ k \notin {Key[r] : r \in Present \ Selected}
               => Diff(Merge(Selected), k)[m] = window[k][m]
<1> DEFINE whole == k \notin {Key[r] : r \in Present \ Selected}
<1>1. Diff(Merge(Selected), k)[m] = Merge(Selected)[k][m] - previous[k][m]
  BY DEF Diff
<1>2. /\ Merge(Selected)[k][m] \in Nat /\ Total(k, m) \in Nat
      /\ Merge(Selected)[k][m] <= Total(k, m)
      /\ whole => Merge(Selected)[k][m] = Total(k, m)
  <2> HIDE DEF Merge, Selected
  <2> QED BY LoadedTotals
<1>3. previous[k][m] \in Nat /\ window[k][m] \in Nat
  BY StatementAssumption, SqlTyped
<1>4. /\ Total(k, m) <= previous[k][m] + window[k][m]
      /\ k \notin lost => Total(k, m) = previous[k][m] + window[k][m]
  BY DEF Accounted
<1> HIDE DEF Merge, Selected, Diff, whole
<1>5. /\ Diff(Merge(Selected), k)[m] \in Int
      /\ Diff(Merge(Selected), k)[m] <= window[k][m]
      /\ k \notin lost /\ whole => Diff(Merge(Selected), k)[m] = window[k][m]
  BY <1>1, <1>2, <1>3, <1>4
<1> QED BY <1>5 DEF whole

LEMMA LoadRowsInv ==
  ASSUME SqlInv, LoadRows
  PROVE  SqlInv'
<1> USE StatementAssumption, WindowAssumption
<1>1. SqlTypeOK /\ Accounted /\ WholeIsPassed /\ Witnessed
  BY DEF SqlInv
<1> DEFINE merged == Merge(Selected)
<1>2. /\ result' = Derivative(merged) /\ previous' = merged
      /\ hidden' = {Key[r] : r \in Present \ Selected}
      /\ window' = NoKey /\ lost' = {}
      /\ UNCHANGED <<table, query, ended, took>>
      /\ since' = 0 /\ fresh' = {}
  BY DEF LoadRows, ComputeDerivativeRows
<1>3. /\ DOMAIN merged = {Key[r] : r \in Selected}
      /\ \A k \in DOMAIN merged :
            /\ merged[k] \in [Metrics -> Nat]
            /\ merged[k] # Zero
            /\ k \notin hidden' => \A m \in Metrics : merged[k][m] = Total(k, m)
  BY <1>1, <1>2, LoadedTotals
<1>4. DOMAIN merged \subseteq Keys
  BY <1>3 DEF Selected, Present, Keys
<1>5. NoKey \in [Keys -> [Metrics -> 0 .. MaxCount]] /\ \A k \in Keys, m \in Metrics : NoKey[k][m] = 0
  BY DEF NoKey, Zero
<1>6. /\ DOMAIN result' = {k \in DOMAIN merged \cap DOMAIN previous :
                            ~Discards(Diff(merged, k)) /\ ~Unchanged(Diff(merged, k))}
      /\ \A k \in DOMAIN result' : result'[k] = Diff(merged, k)
  BY <1>2 DEF Derivative
<1>7. ASSUME NEW k \in DOMAIN result'
      PROVE  result'[k] \in [Metrics -> Nat] /\ result'[k] # Zero
  <2>1. result'[k] = [m \in Metrics |-> merged[k][m] - previous[k][m]]
    BY <1>6 DEF Diff
  <2>2. merged[k] \in [Metrics -> Nat] /\ previous[k] \in [Metrics -> Nat]
    BY <1>1, <1>3, <1>6, SqlTyped
  <2>3. ~Discards(result'[k])
    BY <1>6
  <2>4. \A m \in Metrics : result'[k][m] \in Int /\ ~(result'[k][m] < 0)
    <3>1. \A m \in Metrics : ~(result'[k][m] < 0)
      BY <2>3 DEF Discards
    <3> HIDE DEF merged
    <3> QED BY <2>1, <2>2, <3>1
  <2>5. result'[k] \in [Metrics -> Nat]
    <3> HIDE DEF merged
    <3> QED BY <2>1, <2>4
  <2>6. ~Unchanged(result'[k])
    BY <1>6
  <2> QED BY <2>5, <2>6 DEF Unchanged, Zero
<1> HIDE DEF merged
<1>8. SqlTypeOK'
  <2>1. lost' \subseteq Keys /\ hidden' \subseteq Keys
    BY <1>2 DEF Present, Keys
  <2>2. StatementTypeOK'
    BY <1>1, <1>2, <1>3, <1>4, <1>5, <1>6, <1>7, <2>1
    DEF SqlTypeOK, StatementTypeOK, Keys, Zero
  <2>3. since' \in {None} \cup 0 .. LongAgo /\ fresh' \subseteq Keys
    BY <1>2
  <2>4. ended' \in [Rows -> 0 .. LongAgo] /\ took' \in [Rows -> 0 .. LongAgo] /\ query' \in Queries
    BY <1>1, <1>2 DEF SqlTypeOK
  <2> QED BY <2>2, <2>3, <2>4 DEF SqlTypeOK, None, Keys
<1>9. Accounted'
  <2> SUFFICES ASSUME NEW k \in DOMAIN previous' \ hidden', NEW m \in Metrics
               PROVE  Total(k, m)' = previous'[k][m] + window'[k][m] /\ Total(k, m)' \in Nat
    BY DEF Accounted
  <2>1. Total(k, m)' = Total(k, m)
    BY <1>2 DEF Total, RowsOf
  <2>2. k \in DOMAIN merged /\ k \in Keys
    BY <1>2, <1>4
  <2>3. merged[k][m] \in Nat /\ merged[k][m] = Total(k, m)
    BY <1>3, <2>2
  <2>4. previous'[k][m] = merged[k][m] /\ window'[k][m] = 0
    BY <1>2, <1>5, <2>2
  <2> QED BY <2>1, <2>3, <2>4
<1>10. WholeIsPassed'
  <2> SUFFICES ASSUME NEW k \in DOMAIN merged, Whole(k) PROVE k \notin hidden'
    BY <1>2 DEF WholeIsPassed, Whole
  <2> QED BY <1>2, <1>3, WholeGroups
<1>11. Witnessed'
  BY <1>2 DEF Witnessed
<1> QED BY <1>8, <1>9, <1>10, <1>11 DEF SqlInv

\* A query that loads nothing, or fails, leaves what is remembered.
LEMMA NoRowsInv ==
  ASSUME SqlInv, LoadNothing \/ LoadFails
  PROVE  SqlInv'
<1>1. /\ since' = 0 /\ fresh' = {} /\ result' \in {result, Empty}
      /\ UNCHANGED <<table, previous, window, lost, hidden, query, ended, took>>
  BY DEF LoadNothing, LoadFails, statementVars
<1>2. SqlTypeOK'
  <2>1. DOMAIN Empty = {}
    BY DEF Empty
  <2>2. /\ DOMAIN result' \subseteq DOMAIN previous
        /\ \A k \in DOMAIN result' : result'[k] \in [Metrics -> Nat] /\ result'[k] # Zero
    BY <1>1, <2>1 DEF SqlInv, SqlTypeOK, StatementTypeOK
  <2>3. StatementTypeOK'
    BY <1>1, <2>2 DEF SqlInv, SqlTypeOK, StatementTypeOK, Keys, Zero
  <2>4. since' \in {None} \cup 0 .. LongAgo /\ fresh' \subseteq Keys
    BY <1>1, WindowAssumption
  <2> QED BY <1>1, <2>3, <2>4 DEF SqlInv, SqlTypeOK, None, Keys
<1>3. Accounted' /\ WholeIsPassed'
  BY <1>1 DEF SqlInv, Accounted, Total, RowsOf, WholeIsPassed, Whole
<1>4. Witnessed'
  BY <1>1 DEF Witnessed
<1> QED BY <1>2, <1>3, <1>4 DEF SqlInv

LEMMA SqlStep == SqlInv /\ [SqlNext]_allvars => SqlInv'
<1> SUFFICES ASSUME SqlInv, [SqlNext]_allvars PROVE SqlInv'
  OBVIOUS
<1>1. ASSUME NEW r \in Rows, SqlExecute(r) PROVE SqlInv'
  BY <1>1, SqlExecuteInv
<1>2. CASE UNCHANGED allvars
  BY <1>2
  DEF allvars, clock, statementVars, SqlInv, SqlTypeOK, StatementTypeOK, Accounted,
      WholeIsPassed, Whole, Witnessed, Total, RowsOf, Keys, Zero, None
<1> QED BY <1>1, <1>2, SqlEvictInv, TimePassesInv, LoadRowsInv, NoRowsInv DEF SqlNext

\* NeverOvercounts: no row that compute_derivative_rows returns exceeds what was
\* executed since the call before, however rows are evicted and whatever the window
\* leaves out, for every key that the query adds up as one group; and with any
\* grouping for every key all of whose rows were passed at the call before.
THEOREM StatementsNeverOvercount == SqlSpec => NeverOvercounts
<1>1. SqlInv /\ [SqlNext]_allvars => SqlInv'
  BY SqlStep
<1>2. ASSUME SqlInv, LoadRows, NEW k \in DOMAIN result', Whole(k) \/ k \notin hidden,
             NEW m \in Metrics
      PROVE  result'[k][m] \in 0 .. window[k][m]
  <2> DEFINE diff == Diff(Merge(Selected), k)
  <2>1. SqlTypeOK /\ Accounted /\ WholeIsPassed
    BY <1>2 DEF SqlInv
  <2>2. /\ k \in DOMAIN Merge(Selected) \cap DOMAIN previous /\ ~Discards(diff)
        /\ result'[k] = diff
    BY <1>2 DEF LoadRows, ComputeDerivativeRows, Derivative
  <2>3. k \notin hidden
    BY <1>2, <2>1, <2>2 DEF WholeIsPassed
  <2>4. diff[m] \in Int /\ diff[m] <= window[k][m]
    BY <2>1, <2>2, <2>3, DiffIsExact
  <2>5. ~(diff[m] < 0)
    BY <2>2 DEF Discards
  <2>6. window[k][m] \in Nat
    BY <2>1, <2>2, StatementAssumption, SqlTyped
  <2> HIDE DEF diff
  <2> QED BY <2>2, <2>4, <2>5, <2>6
<1>3. SqlInv /\ [SqlNext]_allvars =>
        [LoadRows => \A k \in DOMAIN result' : Whole(k) \/ k \notin hidden =>
            \A m \in Metrics : result'[k][m] \in 0 .. window[k][m]]_allvars
  BY <1>2
<1> QED BY <1>1, <1>3, SqlInitInv, PTL DEF SqlSpec, NeverOvercounts

\* LoadedIfExecuted: the window of STATEMENT_METRICS_QUERY, which takes the earliest
\* end less the longest run of a group, reaches every row that was executed since.
THEOREM StatementsAreLoaded == SqlSpec => LoadedIfExecuted
<1>1. SqlInv /\ [SqlNext]_allvars => SqlInv'
  BY SqlStep
<1>2. ASSUME SqlInv, query.aggregates, since # None, NEW k \in fresh
      PROVE  k \in {Key[r] : r \in Selected}
  <2>1. SqlTypeOK /\ Witnessed
    BY <1>2 DEF SqlInv
  <2>2. PICK r \in RowsOf(k) : table[r] # Zero /\ ended[r] < since
    BY <1>2, <2>1 DEF Witnessed
  <2> DEFINE group == {q \in Present : query.group[q] = query.group[r]}
             ends == {ended[q] + took[q] : q \in group}
             times == {took[q] : q \in group}
  <2>3. r \in Rows /\ Key[r] = k /\ r \in Present /\ r \in group
    BY <2>2 DEF RowsOf, Present
  <2>4. \A q \in group : ended[q] \in Nat /\ took[q] \in Nat /\ took[q] <= LongAgo
    BY <2>1, WindowAssumption, SqlTyped DEF Present
  <2>5. /\ ends \subseteq Nat /\ ended[r] + took[r] \in ends
        /\ times \subseteq Nat /\ took[r] \in times
        /\ \A d \in times : d <= LongAgo
    BY <2>3, <2>4
  <2>6. Min(ends) \in Nat /\ Min(ends) <= ended[r] + took[r]
    <3> HIDE DEF ends
    <3>1. ends # {}
      BY <2>5
    <3> QED BY <2>5, <3>1, MinIsLeast
  <2>7. Max(times) \in Nat /\ took[r] <= Max(times)
    <3> HIDE DEF times
    <3>1. times # {}
      BY <2>5
    <3> QED BY <2>5, <3>1, WindowAssumption, MaxIsGreatest
  <2>8. GroupInWindow(r) <=> Min(ends) - Max(times) < QueryInterval
    BY DEF GroupInWindow
  <2>9. since \in Nat /\ QueryInterval \in Nat /\ since <= QueryInterval
    BY <1>2, <2>1, WindowAssumption DEF SqlTypeOK, QueryInterval, TwoIntervals
  <2>10. ended[r] \in Nat /\ took[r] \in Nat
    BY <2>3, <2>4
  <2> HIDE DEF ends, times
  <2>11. GroupInWindow(r)
    BY <2>2, <2>6, <2>7, <2>8, <2>9, <2>10
  <2>12. r \in Selected
    BY <1>2, <2>3, <2>11 DEF Selected
  <2> QED BY <2>3, <2>12
<1>3. SqlInv /\ [SqlNext]_allvars =>
        [(LoadRows \/ LoadNothing) /\ query.aggregates /\ since # None =>
            fresh \subseteq {Key[r] : r \in Selected}]_allvars
  BY <1>2
<1> QED BY <1>1, <1>3, SqlInitInv, PTL DEF SqlSpec, LoadedIfExecuted

\* ExactInWindow: of a key that lost no row, and all of whose rows were passed to
\* this call and the one before, compute_derivative_rows reports exactly what was
\* executed; a key of one group need only be among the rows of both.
THEOREM StatementsAreExact == SqlSpec => ExactInWindow
<1>1. SqlInv /\ [SqlNext]_allvars => SqlInv'
  BY SqlStep
<1>2. ASSUME SqlInv, LoadRows,
             NEW k \in (DOMAIN previous \cap DOMAIN previous') \ lost,
             Whole(k) \/ k \notin hidden \cup hidden'
      PROVE  IF k \in DOMAIN result' THEN result'[k] = window[k] ELSE window[k] = Zero
  <2> DEFINE merged == Merge(Selected)
             diff == Diff(merged, k)
  <2>1. SqlTypeOK /\ Accounted /\ WholeIsPassed
    BY <1>2 DEF SqlInv
  <2>2. /\ previous' = merged /\ result' = Derivative(merged)
        /\ hidden' = {Key[r] : r \in Present \ Selected}
    BY <1>2 DEF LoadRows, ComputeDerivativeRows
  <2>3. k \in DOMAIN merged \cap DOMAIN previous /\ k \notin lost /\ k \in Keys
    BY <2>1, <2>2, SqlTyped
  <2>4. k \notin hidden /\ k \notin {Key[r] : r \in Present \ Selected}
    <3>1. k \in {Key[r] : r \in Selected}
      BY <2>1, <2>3, LoadedTotals
    <3> QED BY <1>2, <2>1, <2>2, <2>3, <3>1, WholeGroups DEF WholeIsPassed
  <2>5. \A m \in Metrics : diff[m] = window[k][m]
    BY <2>1, <2>3, <2>4, DiffIsExact
  <2>6. window[k] \in [Metrics -> Nat]
    BY <2>1, <2>3, StatementAssumption DEF SqlTypeOK, StatementTypeOK
  <2>7. diff = window[k]
    <3>1. diff = [m \in Metrics |-> merged[k][m] - previous[k][m]]
      BY DEF Diff
    <3> HIDE DEF diff, merged
    <3> QED BY <2>5, <2>6, <3>1
  <2>8. /\ DOMAIN result' = {j \in DOMAIN merged \cap DOMAIN previous :
                              ~Discards(Diff(merged, j)) /\ ~Unchanged(Diff(merged, j))}
        /\ \A j \in DOMAIN result' : result'[j] = Diff(merged, j)
    BY <2>2 DEF Derivative
  <2>9. ~Discards(diff)
    <3> HIDE DEF diff
    <3> QED BY <2>6, <2>7 DEF Discards
  <2>10. CASE k \in DOMAIN result'
    BY <2>7, <2>8, <2>10
  <2>11. CASE k \notin DOMAIN result'
    <3>1. Unchanged(diff)
      BY <2>3, <2>8, <2>9, <2>11
    <3>2. \A m \in Metrics : window[k][m] = 0
      BY <2>5, <3>1 DEF Unchanged
    <3>3. window[k] = Zero
      BY <2>6, <3>2 DEF Zero
    <3> QED BY <2>11, <3>3
  <2> QED BY <2>10, <2>11
<1>3. SqlInv /\ [SqlNext]_allvars =>
        [LoadRows =>
            \A k \in (DOMAIN previous \cap DOMAIN previous') \ lost :
                Whole(k) \/ k \notin hidden \cup hidden' =>
                    IF k \in DOMAIN result' THEN result'[k] = window[k] ELSE window[k] = Zero]_allvars
  BY <1>2
<1> QED BY <1>1, <1>3, SqlInitInv, PTL DEF SqlSpec, ExactInWindow
=============================================================================
