# TLA+ models of the concurrent core of integrations-core

The repository holds some two hundred Datadog Agent integrations. Most of them query a
service and submit metrics, in sequence and with no state between runs. What is hard to get
right, and hard to test, is the small amount of code that several threads share or that
outlives a check run: the Postgres connection pool, the background jobs of database
monitoring (DBM), caches shared by check instances, persisted cursors. This project models
that code in TLA+, checks it with TLC on small instances, and proves the main safety
properties with TLAPS for every value of the constants.

Paths below are relative to the repository. `PROJECT.json` lists, for each definition, the
lines it stands for.

## 1. Inventory

### 1.1 Components, their state and how they interact

| Component | State | Operations | Shared with |
|---|---|---|---|
| Postgres connection pool, `postgres/.../connections.py` | `_conns` (one `ConnectionInfo` per database), the reentrant lock `_mu` | `get_connection` (a context manager), `prune_connections`, `evict_lru`, `close_all_connections` | the check thread and three jobs of one Postgres instance |
| DBM job, `datadog_checks_base/.../utils/db/utils.py` (`DBMAsyncJob`, `ConstantRateLimiter`) | cancel event, future of the loop, time of the last check run, last event of the limiter | `run_job_loop`, `cancel`, `_job_loop`, `_set_rate_limit`, `_run_sync_job_rate_limited` | check thread, loop thread, executor |
| Process list cache, `process/.../cache.py`, `process/.../lock.py` | `elements`, `last_ts`; condition variable and count of readers | `refresh`, `reset`, the read and write blocks | every process check instance |
| Postgres check, `postgres/.../postgres.py` | the pool, the jobs | `check`, `cancel`, `_close_db_pool` as the jobs' shutdown callback | composes the first two |
| Condition limiter, `.../utils/concurrency/limiter.py` | set of identifiers, lock | `check_condition`, `remove` | the IBM MQ check's instances |
| Log crawler, `.../checks/logs/crawler`, `send_log` | cursor on disk | `process_streams`, `send_log`, `get_log_cursor` | the Agent, across restarts |
| `AgentCheck.run`, `.../checks/base.py`, and `utils/limiter.py` | queue of initializations, metric limiter | `run` | the Agent's runner |
| `timeout` decorator, `.../utils/timeout.py` | table of worker threads | the wrapper | callers of one function, its worker |
| `StatementMetrics`, `.../utils/db/statement_metrics.py` | rows of the previous run | `compute_derivative_rows` | none: one job |
| SQL Server statement metrics, `sqlserver/.../statements.py` | time of the last query | the window of a query, late and failing runs | uses `StatementMetrics` |
| SNMP discovery, `snmp/.../discovery.py`, `snmp.py` | `discovered_instances`, failing counts, list on disk | the discovery thread, check runs, callbacks | thread, check, worker pool, the Agent across restarts |
| OpenMetrics scraper, `.../checks/openmetrics/v2` | `flush_first_value`, shared labels | `scrape` and its chain of generators | the endpoint, the Agent's monotonic counts |
| Kafka consumer, vSphere caches, `TailFile`, WMI sampler, Windows event log, query call cache, HTTP tokens | see `PROJECT.json` | | |

The Agent calls `run` on a check every `min_collection_interval`; a DBM check calls
`run_job_loop` on each of its jobs, whose loops run in a process-wide `ThreadPoolExecutor`;
each loop's `run_job` opens `get_connection` blocks on the pool that the check owns; and a
loop that ends calls the check's `_close_db_pool`.

### 1.2 Hard behaviours

* Interleavings: blocks of several threads on one pool entry; a check run against a loop that
  is being started, stopping or queued; `reset()` against `refresh()`.
* Blocking: a loop that sleeps with the pool's lock held; waiting for readers.
* Time: deadlines, inactivity, rate limits, a sleep that a cancellation cannot interrupt.
* Failure: exceptions between taking an entry out of the pool and putting one back, `close()`
  that raises, a connection that the server drops, a `run_job` that raises, `psutil` that raises.
* Crash and restart: a log sent before its cursor is saved; a list of devices on disk that is
  older than the one in memory.
* Counters that others reset: a statistics table that evicts rows, an endpoint that restarts.

The `hazards` of `PROJECT.json` give each of them at its line, with the property that covers
it or the reason why none does.

### 1.3 What makes each component correct

* Pool: no connection is leaked, the limit holds for connections really open, no entry stays
  active without a user, the loop for room ends; eviction should spare what is in use or was
  asked to be persistent (it does not: section 4).
* DBM job: one loop at a time, rate limit, a cancelled or abandoned job stops, a scheduled job recurs.
* Process cache: the lock is a readers-writer lock and loses no wakeup; a reset is not lost
  (it can be: section 4).
* Condition limiter: never more identifiers than the limit, removal of what is held succeeds.
* Log crawler: at-least-once delivery, order, no log skipped after a restart.
* `AgentCheck.run`: each initialization succeeds once and in order before the first `check`; the
  metric limiter lets its contexts through in every run exactly up to its limit.
* `timeout`: one worker per key, no `KeyError`, no result of an older call.
* Postgres check: after `cancel()` all loops end, and no connection that a job opened stays open.
* `StatementMetrics` and SQL Server: a difference never exceeds what was executed since the last
  run, is exact for a query seen whole at both, and what was executed is looked at, however late the run.
* SNMP: a device is removed after its allowed failures in a row, one that is gone is forgotten,
  one that answers is found, again and again if its checks fail, and kept if it stays well.
* OpenMetrics: what was counted before the Agent started is not counted again, what a younger
  process counted is; shared labels reach every sample (all with exceptions: section 4).

## 2. Modules

| Module | Stands for |
|---|---|
| `ConnectionPool` | the pool: `connections.py` |
| `ConnectionPoolProofs` | its theorems |
| `MCConnectionPool` | instances for TLC, symmetry sets |
| `DBMAsyncJob` | the job and its rate limiter: `utils/db/utils.py` |
| `DatabaseMonitoringProofs` | its theorems, and those of the statement metrics |
| `MCDBMAsyncJob` | instances for TLC |
| `ReadWriteLock` | abstract specification of a readers-writer lock |
| `ProcessListCache` | `lock.py` and `cache.py` with the threads that use them |
| `ProcessListCacheProofs` | its theorems, the refinement of `ReadWriteLock` among them |
| `MCProcessListCache` | instances for TLC |
| `PostgresCheck`, `PostgresCheckProofs` | the check, its three jobs and `cancel()`: `postgres.py` over the first two; theorems |
| `AtLeastOnce` | abstract specification of in-order delivery at least once |
| `LogCrawler`, `LogCrawlerProofs` | the log crawler: `crawler/base.py`, `send_log`, `get_log_cursor`; theorems, the refinement of `AtLeastOnce` among them |
| `ConditionLimiter`, `ConditionLimiterProofs` | `utils/concurrency/limiter.py` and the check of its docstring; theorems |
| `AgentCheckRun` | `AgentCheck.run`, `_submit_metric`, `utils/limiter.py` |
| `StatementMetrics` | `compute_derivative_rows` and the table it is fed from |
| `SqlServerStatements` | the window of SQL Server's query; extends `StatementMetrics` (theorems: `DatabaseMonitoringProofs`) |
| `SnmpDiscovery` | `discovery.py` and the autodiscovery part of `snmp.py` |
| `CheckRunProofs` | theorems of `AgentCheckRun` and `SnmpDiscovery` |
| `OpenMetricsScraper`, `OpenMetricsScraperProofs` | `scraper.py`, `first_scrape_handler.py`, `labels.py`, counters; theorems |
| `MC...` of each of these | instances for TLC |

### 2.1 ConnectionPool

`conns` is `_conns`; `Absent` is a missing key. A connection object is an identity from
`Conns`; `open` are those whose `closed` is false. The times are abstracted to what the code
asks of them: `expired` is `deadline < now`, and `lru` is the order of `last_accessed`.
A *client* is one activation of the `get_connection` block (a thread that nests two blocks is
two clients); `pc`, `req`, `held` are its position, its arguments and the object it was given.

Every method holds the lock `_mu`, so each is one step, with one exception: a call that has to
make a connection may sleep in its loop with the lock held. That call is `Miss`, then any
number of `Iterate`, then `Connect`, `ConnectFails` or `TimeOut`; in between only what needs
no lock can happen (`Expire`, `Break`). `Reuse` and `RollbackFails` are the calls that find an
open connection. `Leave` is the `finally` clause, reached from the block (`using`) and from
every exception (`leaving`); it clears the flag of the *database's* entry, whoever made it.
Every step that terminates entries chooses which `close()` calls raise, up to
`MaxCloseFailures`; the connections concerned go to `failed`.

Left out: the statistics counters, the `thread` field that nothing reads, `max_conns = None`
(the loop is then skipped), `startup_fn` beyond success or exception. A connection whose
`startup_fn` raised is unreachable and closed by psycopg2 when it is deallocated.

### 2.2 DBMAsyncJob

A timestamp is its age in ticks, cut off where the code can no longer tell ages apart
(`MaxAge` for the limiter, `Stale + 1` for the check run). `Loops` are activations of
`_job_loop`; one that ended can be used again. A check run is `Submit`, `KeepAlive` or
`RunSyncJob`, according to `run_job_loop`'s tests. A loop goes through `top` (cancelled?),
`ready` (inactive?), `job`, `sleep` and `stop` (the `finally` clause); `run_job` may raise at
its end, and the exception leaves the loop only after the sleep, because the sleep is in a
`finally` clause. `SetRateLimit` replaces the limiter during `run_job`.
Instructions that neither work nor sleep take no time (`Quiescent`).

`mode` is chosen once: `"sync"` (`run_sync`), `"prompt"` or `"slow"`. A prompt executor starts a
submitted loop before the next check run. The executor has 100000 threads so that jobs are not
"artificially limited", and check runs are seconds apart, so this is how the program runs; but
`future.running()` is false for a queued loop, so the code depends on it: with a slow executor
two loops may run. `OneLoop`, `RateLimited` and `JobRecurs` say "if the executor is prompt"; the
other properties hold for all modes.

The history variables `startAge` and `runs` serve the rate limit: the time since `run_job` was
last started, and the number of starts of a loop under its limiter.

Left out: hostname and tags, metrics, logging, memory profiling, a job that is not enabled
(nothing happens then), and a rate of zero (no limit at all). The period of a replaced limiter
is the same constant, since the properties speak of starts under one limiter.

### 2.3 ProcessListCache and ReadWriteLock

A thread repeats what `find_pids` does: `refresh()` under the write lock, then a walk under
the read lock; between two rounds it may `reset()`. `lock` is the holder of the condition's
lock across steps, `waiting` the threads inside `wait()`. The two assignments of a refresh,
`elements` (`ListElements`) and `last_ts` (`Stamp`), are separate steps because `reset()` takes
no lock. `fresh` is the negation of `_should_refresh`; the history variable `outdated` says
that `reset()` was called since the elements were listed. `ReadWriteLock` is what `lock.py`
promises: many threads reading or one writing; the mapping takes the threads inside each kind
of block. `list(psutil.process_iter(...))` succeeds or raises; what it lists is left out.

### 2.4 PostgresCheck

The composition: one pool, reduced to the main database (`pooled`, and `mu` held while a job
connects), the loops of the three jobs, reduced to their control, the check's own connection
`_db`, and `cancel()` as a thread that signals one job after the other, closes the pool and then
`_db`, with everything else going on in between. With `autodiscovery` the check thread is a client
of the pool too (`_collect_metric_autodiscovery` and the dynamic queries): `CheckGetsConnection`,
`CheckConnects`, `CheckLeavesBlock`. `Shutdown` is the callback that closes the pool
for all jobs; a job in the middle of a query then is `broken`, and its query raises, or its block
ends without having noticed. Two of `cancel()`'s steps meet the check run: it may be starting
jobs, which then start although they are signalled, and it may be using the pool or `_db`, which it
opens again (`overlap` remembers which of them was closed during a run). The rate limit and eviction are left to 2.1 and 2.2.

### 2.5 LogCrawler and AtLeastOnce

A stream is a growing number of records, a cursor the number of its record; only `Marked`
records carry one. `SendLog` and `WritePersistentCache` are the two halves of `send_log`, and
`Abort` may come between them: an exception or a crash, which lose the same state. That a stream
yields the records after the cursor is what `stream.py` says of `records(cursor)`; that it yields
them in one order, the same in every run, is an assumption on the streams: the docstring only says
"as they are received". `AtLeastOnce` says that a record is
delivered for the first time only after its predecessor.

### 2.6 ConditionLimiter

One run of a check, as in the class docstring: `check_condition`, the work, `remove` if the work
fails; `cancel()` removes the identifier from another thread. The two quick tests outside the
lock are steps of their own, as is the test under the lock, so that removals come in between. The
one client in the repository, the IBM MQ check (`ibm_mq.py` 59-101, 163-177), frees its slot only when
its connection fails; the model's work may fail or not and so allows that and more.

### 2.7 AgentCheckRun

`run` with its deque of initializations: `PopLeft`, then the initialization returns or raises,
which puts it back at the front; `CheckAppends` is the check of Windows performance counters
that appends one which always raises. `Submit` is `_submit_metric` with `Limiter.is_reached`; a
context has a uid or, for the types that have none, is new at each call. The limiter comes before
the conversion of the value: one that is no float is counted and then not submitted, which the
histories `wasted` (contexts without a uid) and `spoilt` (uids without a float so far) keep apart. Debug
metrics, warnings and the formatting of errors are left out, as is `process_isolation`
(`base.py` 1276-1279), with which `run` hands the check over to another process.

### 2.8 StatementMetrics and SqlServerStatements

`table` is the database's statistics, which are counted up, evicted and reset. A call passes
some rows; `Merge`, `Diff`, `Discards`, `Unchanged` are the stages of `compute_derivative_rows`. Of a call
the histories keep what was executed since (`window`), the keys that lost a row since (`lost`), and the
keys of which it was not passed all rows (`hidden`).
`SqlServerStatements` adds the ages of last executions and the query's window, which is two
collection intervals or the time since the last query; `LoadFails` is a query that raises after
`_last_stats_query_time` was set, `LoadNothing` one without rows, after which
`compute_derivative_rows` is not called. `query` is the query and its grouping: with aggregates the
plans of a group are added up before the group is compared with the window, and the group has the
stored procedure in it, which the key (`_row_key`) has not. The module assumes that the rows of a
group have one key (`QueriesAssumption`); `Whole(k)` says that those of a key have one group.
The row limits, rows that the obfuscator cannot parse (which are dropped) and payloads are left out.

### 2.9 SnmpDiscovery

The discovery thread scans the network host by host, adds those that answer, writes the list
to disk after each and at the end of a scan; a check run submits the discovered hosts to the
worker pool, and the callbacks count failures and remove hosts. A device is gone, well, or answers
in part: then the scan finds it, and its check reports an error (an OID batch that times out, a profile or
tags that cannot be had), which counts as a failure. `Prompt` says that callbacks
have run before the next check run. `BadProfile` are hosts for which building the configuration
raises, which ends the thread. A restart keeps only what is on disk. The thread's test of
`check._running` (`discovery.py` 33), by which it ends with the check, is left out.

### 2.10 OpenMetricsScraper

A scrape pulls the metrics of a payload one by one through `first_scrape_handler`, which holds
counters back until the process start time is known, and `LabelAggregator`, which holds all back
until the shared label is known (or lets them pass, with cached labels), into the counter transformer.
Metrics that were kept go on one by one (`YieldKept`). `conf` chooses the payload's order and the
options. A response may be empty, which ends a scrape in the normal way; with
`ignore_connection_errors` it may be cut off anywhere, which the scraper does not notice (`ErrorIgnored`);
any other error leaves `scrape` from any point of it, also out of a transformer while the buffers are
drained (`ScrapeRaises`). `payload.whole` says that the response being read is neither empty nor cut off, and
the history `missed` that one that was not kept something from the scraper: before the first
scrape had ended, or labels that are computed for every payload. The Agent's monotonic count
is external: the difference to the context's last value, and the first value only if
`flush_first_value` was set. Parsing, other metric types, matching labels and a payload that lacks
single metrics are left out.

## 3. Runs that pass

| Run | Instance | States | What it shows |
|---|---|---|---|
| `pool_safety` | 3 databases, 2 blocks, `max_conns` 2, 4 identities, 1 failing close | 62636 up to symmetry | `TypeOK`, `NoOrphan`, `ConnectionLimit`, `ActiveHasUser` |
| `pool_loop_ends` | 2 databases, 2 blocks, `max_conns` 1 | 29889 | `LoopEnds` |
| `job` | 2 loops, period 3, interval 2, the three modes | 177294 | `TypeOK`, `OneLoop`, `RateLimited`, `SyncRateLimited`, `CancelStops`, `AbandonedStops`, `JobRecurs` |
| `cache_lock` | 3 threads | 1180 | `TypeOK`, `WaiterHasReader`, `ImplementsLock`, `WaitingEnds` |
| `postgres` | 3 jobs, with and without autodiscovery, faults at any time | 53614 | `TypeOK` with the lock's holder, `NothingLeaks`, `CancelQuiets` |
| `crawler` | 2 streams of 4 records, 2 with cursors, 2 aborts | 12028 | `SavedIsSent`, `CursorKeepsUp`, `NoStaleResend`, `DeliversAtLeastOnce`, `EverythingSent` |
| `limiter_slots` | 3 checks, limit 2 | 5387 | `LimitHolds`, `WorkersHoldSlots`, `HolderAdmitted`, `CallEnds` |
| `check_run` | 3 initializations, 3 uids, limit 3, 8 metrics | 6040 | `InitializedInOrder`, `LimitExact` |
| `sqlserver_window` | 2 plans of one key, in one group, in two, and without aggregates, interval 1, ages to 4 | 315056 | `NeverOvercounts`, `LoadedIfExecuted`, `ExactInWindow` |
| `snmp` | 3 hosts, one without profile, 2 failures, 4 changes, 1 restart | 258573 | `RemovedAfterFailures`, `GoneIsForgotten`, `FoundLater` |
| `openmetrics` | 2 counters, 2 orders, all options, values to 2, 1 restart | 7843753 | `TypeOK`, `NoInflation`, `CountsFromBirth`, `AllLabelled` |

**Bounds.** Pool: with three databases and two places eviction has a choice, and a third
request finds the pool full; two blocks can be on one database or on two; identities are as
many as can be referred to at once, so `Connect` is not blocked by their number. One failing
close shows what a leaked connection does and every further one is alike. Job: the period and
twice the interval are different, so that a loop can become inactive during a sleep and
between two sleeps; two loops suffice to see one start while another ends. Cache: three threads give two
readers with a waiter, and two waiters with a reader. Crawler: records with and without a cursor
alternate, so that an abort can come after either; two streams would show a cursor that is
shared. Limiter: one check more than the limit. Check run: more calls than the limit, and uids
that repeat, with floats and without. SQL Server: a run can be late by more than the window, and one plan in the window
while the other is not; two counts show a counter that falls and rises. SNMP: two changes make a
host come and go, four make it come back and stay, or fall ill and recover; with two allowed failures the count is reset
in between. OpenMetrics: the shared label comes ahead of both counters where it would be late
otherwise, and stands with the start time between them elsewhere; counters of an old process show 1, so that their past is
not 0, and can grow once; one restart makes them fall.

**Configurations.** `openmetrics` runs all combinations of shared and cached labels, start time and age of
the process, with errors that are ignored and errors that are raised; the properties themselves say, of a state,
when they hold, and section 4 what happens otherwise. So do those of `sqlserver_window`, of its three
queries, and `NothingLeaks`. `snmp` has prompt callbacks.

`TypeOK` of `LogCrawler`, `ConditionLimiter` and `AgentCheckRun`, `DiscoveryTypeOK` and `SqlTypeOK` are
parts of the inductive invariants of section 5 and no run repeats them.

**Symmetry** is used for the invariants of the pool and not with liveness.

**Fairness.** `LoopEnds`: only the thread that loops (it sleeps 10 ms at a time) and the passing
of deadlines; nothing is assumed of the other threads, which cannot enter the pool.
DBM job: loop threads run and `run_job` ends in some way (queries have a statement timeout);
time diverges, which is strong fairness of `Tick` because a loop between two instructions
holds the clock for an instant. Check runs are not fair: `JobRecurs` supposes that they go on.
Cache: a thread inside `find_pids` keeps running. Postgres: threads are scheduled, queries end, and
neither `run_job` nor a check run goes from query to query for ever. Crawler and SNMP: the Agent keeps running the
check and the discovery thread is scheduled; aborts and changes are bounded. Limiter: a thread
that wants the lock gets it in the end; the Agent may stop running a check.
`CHECK_DEADLOCK FALSE` where all may be over: after the cancellation of all checks.

## 4. Disagreements with comments and documentation

The run `pool_evicts_in_use` shows one: two blocks on one database; the first to leave makes the
shared entry inactive, and `evict_lru` may close the connection that the second uses. Its
docstring says that it closes an inactive connection. Section 5 has a theorem that says when it does.

Others that the models have, with what to change to see them:

* A request with `persistent=True` for a database that is already pooled keeps the old status, so
  the main connection can be evicted if a job opened its database first; `_connect`'s docstring
  says that it will not be. Check `PersistentIsKept` instead of `EvictionSparesUsers`.
* A new limiter's `last_event` is 0, so the first sleep is zero and the second run follows the
  first at once; the same after a pause of the loop and after a change of rate. The limiter's
  docstring says that the rate limit is not exceeded. `RateLimited` is what does hold, from the
  third start on; drop `runs[l] = 2` from it.
* `reset()` between the two assignments of a refresh is overwritten, and a list known to be stale
  is used for `cache_duration`; the caller's comment says that the caches are reset "now". Check
  `ResetTakesEffect`.
* `ConditionLimiter`: `cancel()` frees the slot of a check that still works, so two work at a time
  with a limit of 1; the docstring says "only run one check instance at a time". Check `OneAtATime`.
* `PostgresCheck`: a job that was not signalled yet sees its connection closed by the callback of
  one that was, and reports a crash where the comment in `_job_loop` wants a cancellation; and
  `cancel()` waits for the lock that a connecting job holds (a step of `CancelClosesPool` that is
  not enabled), though `AgentCheck.cancel`'s docstring says that it won't block.
* `PostgresCheck`: a check run that `cancel()` overtakes may open `_db` again and, with
  autodiscovery, a pooled connection, and nobody closes them; `AgentCheck.cancel`'s docstring says that it
  "can be called while the check is running". Drop `autodiscovery /\ "pool" \in overlap` or
  `"db" \in overlap` from `NothingLeaks`.
* SQL Server: `compute_derivative_rows` promises "the total counts in the time elapsed between check
  runs". A statement in two procedures is two groups with one key, and a group that comes back into the window
  brings its past with it: drop `k \notin hidden` (leaving the conclusion to every key) from
  `NeverOvercounts`. The query without aggregates selects every plan by itself, with the same effect; it also looks at the
  start of the last execution, so a long one is missed: drop `query.aggregates` from
  `LoadedIfExecuted`.
* SNMP: `futures.wait` returns before the callbacks have run; a late one counts against a host that
  was removed and found again. Set `Prompt = FALSE` for `RemovedAfterFailures`. And one host whose
  profile cannot be loaded ends discovery for all: drop `thread = "dead"` from `FoundLater`. A device that answers the
  scan and fails its check is removed and found for ever, so only one that is well is kept.
* OpenMetrics: an empty response, or with `ignore_connection_errors` a failing request, counts as
  the first scrape and sets `flush_first_value`; the next one counts the whole past of an old process.
  Drop `~missed` from `NoInflation`. It also sets `shared_labels_cached`, after which no label is ever
  learnt: drop `~missed` from `AllLabelled`.
* OpenMetrics: with cached labels, the default, the counters ahead of the shared metric are submitted
  without the label in the first scrape, as `test_options.py` 597-628 asserts; the option's description says that the
  labels apply "to all other metrics" (drop `flush \/ Timely` from `AllLabelled`). In the second scrape they
  have the label, which makes a new context, and as `flush_first_value` is set by then their past is counted
  (drop `conf.cache => Timely` from `OneContext`, for `NoInflation`).

## 5. Theorems

The theorems are about the specifications (`Spec`, `SqlSpec`, `DiscoverySpec`) without fairness, for
every value of the constants allowed by the assumptions. Every invariant and every action property of
section 3, and both refinements, is stated by one; what only TLC checks is liveness, of which the
theorems on progress below prove the part that is safety. The inductive invariants `IInv`, `JInv`,
`LInv`, `CInv`, `PInv`, `RInv`, `SqlInv`, `DiscoveryInv` and those of the scraper also hold in TLC on instances
like those of section 3.

**ConnectionPoolProofs** (`TypeCorrect`, `OrphanFreedom`, `LimitRespected`, `ActiveIsUsed`,
`EvictionSparesLoneUsers`, `PersistentIfAllAsk`).
Assumptions: finitely many databases, `MaxConns > 0`. `ConnectionLimit` and `ActiveHasUser` are
not inductive. The invariant `IInv` adds: the lock is held across steps exactly by the client
that is acquiring, whose database then has no entry (`LoopHoldsLock`), so its insertion adds one
entry to a pool that is not full (`PoolBound`) and overwrites none; two databases never share a
connection, and the pool has forgotten those that failed to close, so terminating one entry
leaves the others alone; a client's connection, while pooled, is pooled under the client's
database (`HeldUnderItsName`), so the exit of a block can only deactivate the entry it was given or
one that replaced it. The limit on open connections follows from `NoOrphan` and `PoolBound`: they
are images of pooled databases, and the image of a finite set is not larger than the set.
Two more theorems say when the sentences that section 4 contradicts are true.
`EvictionSparesLoneUsers`: as long as no two blocks on one database overlap, which makes the entry of a
connection in use active (`UsedIsActive`; only `Leave` by another block on the database disturbs it).
`PersistentIfAllAsk`: if all calls for a database ask for the same.
`WaitingMakesRoom` is what `LoopEnds` needs besides fairness: while a call loops, nobody can add an
entry or extend a deadline, because all that could need the lock; each turn drops what has expired;
and when everything has, there is room.

**DatabaseMonitoringProofs, the job** (`JobTypeCorrect`, `SingleLoop`, `RateLimitKept`, `SyncRateLimitKept`,
`StoppedForGood`, `CancelledWindsDown`, `AbandonedWindsDown`).
Assumptions: a positive period and interval. Types hold in every mode; the invariant `JInv` is
proved for the synchronous and the prompt mode.
The invariant says that only the loop of the last submission is alive, which makes `running()`
tell the truth about all loops; and it relates, at each place of a loop, the age of the last
start, the age of the limiter's event and what remains of the sleep: from the second start on,
the limiter's event is not older than the start, so a sleep of the rest of the period counted from
the event covers a period counted from the start. `RateLimited` is then a property of each step.
With `run_sync` the limiter's event is the start of the last run (`SyncAges`), so that the test
before a run is the rate limit.
The last three theorems hold in every mode, the slow executor included, and are what `CancelStops` and
`AbandonedStops` need besides fairness. After a cancellation the number `UntilTested` of a loop falls
with its every step until it is zero and never rises, so that a loop starts `run_job` at most once more, and once it is zero for all
loops it is for ever, although check runs go on queueing loops (`StoppedForGood`). While the check is
inactive `UntilEnd` falls with every step of a loop.

**DatabaseMonitoringProofs, statement metrics** (`StatementsNeverOvercount`, `StatementsAreLoaded`,
`StatementsAreExact`). Assumptions: finitely many rows; any grouping of them into keys, any metrics, any
collection interval, bounds and order of executions, evictions, resets, late and failing runs.
There is no hypothesis on the query: the properties say of a key when they hold, and section 4 what
happens otherwise. Two things have to be proved first.

* The sum. `Merge` adds up the rows of a key with a fold of the community modules, which is a
  `CHOOSE` of a recursive function on sets. The library's induction theorems take an operator as a parameter, which
  the provers cannot instantiate; `SubsetInduction` says the same of a *set* of subsets of a finite
  set, and follows from the well-foundedness of the subset ordering. With it the recursive function is shown to exist
  (`SolutionExists`) and to be unique (`SolutionsAgree`), whence the fold unfolds (`SumUnfolds`), any row
  can be taken out first (`SumTakesAny`), and the sum is monotone (`SumIsMonotone`), grows by what its
  rows grow by (`SumGains`), does not see rows that are zero (`SumSkipsZeros`), and is no larger over a part
  of them (`SumOfPart`).
* The invariant `SqlInv`. `NeverOvercounts` speaks of one step only. `Accounted` says, of each key all of whose rows were
  remembered, that the table's sum is at most what was remembered plus what was executed since, and equal to it if
  no row was evicted: eviction can only take away, execution adds the same to both sides. The difference
  that the next run computes is then bounded by, or equal to, what was executed. `Witnessed` says that
  a key executed since the last query has a row whose last execution is younger than that query, and
  the window is never shorter than the time since that query: the key is selected. `WholeIsPassed` says that a
  key of one group is always remembered with all its rows, because a group is selected as a whole; for the other keys
  the properties ask it of the history.

**ProcessListCacheProofs** (`CacheTypeCorrect`, `NoLostWakeup`, `Implementation`,
`LockedResetTakesEffect`). Assumption: finitely many threads. The invariant: the count is the number of threads inside a read block;
a writer, and only a writer, holds the condition's lock across steps; then there are no
readers; and who waits has a reader. Each step then is a step of `ReadWriteLock` or changes
neither kind of block. `LockedResetTakesEffect`: a reset is not lost if it does not come inside a write
block, since what is about to be stamped was then listed after it (`StampedIsCurrent`); so the
write lock is all that `reset()` lacks.

**ConditionLimiterProofs** (`LimiterInvariant`, `LimitAlwaysHolds`, `WorkersAlwaysHoldSlots`,
`BoundedWorkers`, `HolderAlwaysAdmitted`, `CallsMoveOn`). Assumption: finitely many checks. `LimitHolds` is not inductive:
the set grows in `TakeSlot`, some steps after the test for room. The invariant adds that the lock is
held by the check between the second test and its answer (`LockHeld`), that while its condition is
evaluated there is room, because others only remove (`RoomUnderLock`), and that who passed the quick
tests is not in the set, because nobody else adds it (`NewToTheSet`). `BoundedWorkers` puts
`LimitHolds` and `WorkersHoldSlots` together: apart from cancelled ones, no more checks work than
the limit says, which is what is left of the docstring's promise (section 4). `CallsMoveOn` is what
`CallEnds` needs besides fairness: no step sends a call back to a test it has passed, and the holder of
the lock is always one answer away from releasing it.

**LogCrawlerProofs** (`CrawlerInvariant`, `SavedAlwaysSent`, `CursorAlwaysKeepsUp`, `NeverStaleResend`,
`CrawlerDelivers`). Any streams, any choice of marked records, any bounds. The invariant ties the
position of the reader to the two things it lies between: it is at or after the saved cursor and all
it passed was sent (`PassedIsSent`), and of the marked records it passed only the one read last can
be without its cursor (`OneBehind`). A step that sends then sends the successor of a gapless
beginning, which is the step of `AtLeastOnce`, or sends again what was sent, which is a stutter.

**PostgresCheckProofs** (`PostgresInvariant`, `PostgresTypes`, `NothingEverLeaks`). The
three jobs are part of the module; what ranges over everything is the interleaving. `NothingLeaks`
speaks of the end only. The invariant says it of every state after `cancel()` closed the pool: a
connection in the pool then has a loop that has not ended and will close the pool again, or was opened by the
check run, with autodiscovery, that was going on as the pool was closed (`PoolHasLoop`); and unless one was going on
as the pool or `_db` was closed, none is any more, and nobody opens `_db` again (`NoLateRun`).

**CheckRunProofs, `AgentCheck.run`** (`RunInvariant`, `RunTypes`, `AlwaysInitializedInOrder`, `LimitAlwaysExact`).
Any sequence of initializations, any limit and any uids. The invariant has two independent parts. Initialization: at most one is in flight and only in a run
that initializes, and the one that always raises never returned, so taking and putting back moves a
boundary within one sequence. Metrics: while `check` runs the limiter's count is the number of
contexts of this run and `reached` says exactly that there were more than the limit; between two
runs the limiter is reset (`CountsThisRun`); the contexts that were let through are the submitted ones, the
`wasted` ones and the `spoilt` uids, which are among those the limiter has seen.

**CheckRunProofs, SNMP discovery** (`DiscoveryTypes`, `RemovedByItsFailures`). Any hosts, any allowed number of
failures, any changes and restarts. Hypothesis: `Prompt`, callbacks have run before the next check run
(section 4 has what happens otherwise). `RemovedAfterFailures` relates the code's count to the true number of failures in a row,
which a host that was removed and found again could have left behind. The invariant `DiscoveryInv` says that they are equal for a
discovered host, that the others have no count (`FailuresCounted`), and that a host is submitted, or
has a callback to come, only while it is discovered, and never both (`Outstanding`): so the one callback
that can remove a host is the one of its last failure.

**OpenMetricsScraperProofs** (`ScraperTypes`, `AlwaysLabelled`, `NeverInflates`, `AlwaysCountsFromBirth`).
Assumption: a payload that is neither empty nor cut off holds every metric once (`ScraperAssumption`); any
counters, orders, options, values, pasts and restarts. There is no hypothesis on the configurations: the
properties say of a state when they hold. Five invariants build on each other:

* `PlacesInv`: a metric is in one place (to come, held by the handler, kept by the aggregator); the
  handler holds counters only, and the aggregator keeps metrics only if it does not cache labels.
* `LearnInv`: where the label can be learnt (`Learnable`: the response is whole or, with cached labels,
  none missed anything), it is known, or awaited and still to come. If Info is also in time (`OnTime`) a
  counter is submitted with the label, and so in one context only (`Takes`), which the other proofs need of
  the Agent's monotonic counts.
* `CompleteInv` and `FlushInv`: a scrape of a whole response leaves out no counter, so after the first
  every counter has a last value, and a first value is flushed only after that or of a process younger than
  the Agent.
* `AmountInv`: `NoInflation` is far from inductive, because what the Agent adds now stems from a response
  made earlier, since when the endpoint may have counted on, restarted, or both. The account of one
  counter (`Balance`) says that what may still be added, for the response being read (`Seen`) and for the
  next one, whether or not the counter has fallen, is covered by what the endpoint has counted. Each
  operation is one arithmetic fact about it (`BalanceKept`, `BalanceCounted`). It is kept as long as the premise of
  `NoInflation` holds (`Scope`), which only ever becomes false: nothing takes `missed` back.
* `YoungInv`: with the handler no counter gets on before the start time was seen, so that the first
  value of a young process is flushed; until it restarts what was shown is what is counted.

**Only model-checked**: the liveness properties (`LoopEnds`, `CancelStops`, `AbandonedStops`,
`JobRecurs`, `WaitingEnds`, `CancelQuiets`, `EverythingSent`, `CallEnds`, `GoneIsForgotten`,
`FoundLater`), since this prover reasons neither about `ENABLED` nor about fairness; and the
disagreements of section 4. Of these, `StoppedForGood`, `CancelledWindsDown`, `AbandonedWindsDown`,
`WaitingMakesRoom`, `CallsMoveOn` and `NoLostWakeup` prove what no step may undo; that the steps
are taken is what TLC adds.

## 6. Plan

1. `ConnectionPool`, `DBMAsyncJob`, `ProcessListCache` with their proofs: done.
2. `PostgresCheck`, `LogCrawler`, `ConditionLimiter`, `AgentCheckRun`, `StatementMetrics` with
   `SqlServerStatements`, `SnmpDiscovery`, `OpenMetricsScraper`, modelled and checked: done.
3. Proofs about `ConditionLimiter`, `LogCrawler`, `PostgresCheck`, `AgentCheckRun`,
   `OpenMetricsScraper`, `StatementMetrics` with `SqlServerStatements`, `SnmpDiscovery`; the safety parts of
   the liveness properties of the pool, the job and the limiter: done.
4. Left: rank arguments for `EverythingSent` and `FoundLater`; models of the components that
   section 7 leaves out because one thread keeps their state.

## 7. Not modelled

Parsing and mapping of metrics (OpenMetrics text, SNMP profiles), TLS and proxies, configuration
models (generated), the queries of each database, long tables that name metrics (most of the
repository's lines), the developer tooling, assets and vendored libraries: pure input and output,
or no state between two calls. Some components do have state and are left out, because it is kept
by one thread (Kafka consumer lag, vSphere caches, query call cache), because what matters is the
behaviour of Windows or of a file system, of which the repository shows only a part (WMI sampler,
event log, `TailFile`), or because no caller shares it (`timeout`). `PROJECT.json`
gives the reason for each component.
