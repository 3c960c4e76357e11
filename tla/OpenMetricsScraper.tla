------------------------- MODULE OpenMetricsScraper -------------------------
(***************************************************************************)
(* One scraper of an OpenMetrics check (checks/openmetrics/v2/scraper.py)  *)
(* and the chain of generators it pulls metrics through: the parser of the *)
(* response, first_scrape_handler (first_scrape_handler.py), the           *)
(* LabelAggregator (labels.py), and the counter transformer that submits   *)
(* monotonic counts to the Agent.                                          *)
(*                                                                         *)
(* The endpoint exposes counters, one metric Info whose label is shared    *)
(* with all others, and process_start_time_seconds (Pst).  Its process may *)
(* be older than the Agent, so its counters have a past, and may restart.  *)
(* A response is a snapshot of all metrics, or it is empty; it can break   *)
(* off after any metric, with a ConnectionError, which the option          *)
(* ignore_connection_errors swallows, or with another error.  The Agent's  *)
(* monotonic count is external: it adds the difference to the previous     *)
(* value of the same context (name and tags), and the first value only if  *)
(* flush_first_value was set.                                              *)
(***************************************************************************)
EXTENDS Integers, Sequences, SequencesExt

CONSTANTS Counters, Info, Pst,
          Configs,      \* records [order, share, cache, start, ignore, newer]
          Past,         \* what a counter may show when the Agent starts
          MaxValue,     \* bound on a counter of the endpoint
          MaxRestarts   \* bound on the restarts of the endpoint's process

Families == Counters \cup {Info, Pst}

\* A payload that is neither empty nor cut off holds every metric once.
ASSUME ScraperAssumption ==
  /\ Info # Pst /\ Info \notin Counters /\ Pst \notin Counters
  /\ MaxValue \in Nat \ {0} /\ MaxRestarts \in Nat
  /\ Past \subseteq 0 .. MaxValue
  /\ \A f \in Configs :
        /\ f.order \in Seq(Families) /\ IsInjective(f.order) /\ ToSet(f.order) = Families
        /\ {f.share, f.cache, f.start, f.ignore, f.newer} \subseteq BOOLEAN

VARIABLES conf,      \* the payload's order; is share_labels set; the options
                     \* cache_shared_labels, use_process_start_time and
                     \* ignore_connection_errors; the age of the process
          value,     \* the endpoint's counters
          since,     \* how much each has counted since the Agent started
          newer,     \* did the endpoint's process start after the Agent?
          restarts,
          flush,     \* self.flush_first_value
          cached,    \* shared_labels_cached
          labels,    \* is the shared label in unconditional_labels?
          pc,        \* "idle", "parse", or "drain" (the handler's buffer)
          rest,      \* the metrics still to come
          payload,   \* the values of this response, its start time, and whether
                     \* it is whole: neither empty nor cut off unnoticed
          held,      \* metrics_buffer of the handler
          kept,      \* cached_metrics of the aggregator
          wanted,    \* is metric_config nonempty: Info still awaited?
          recent,    \* process_start_time > agent_start_time, once seen
          rtFlush,   \* runtime_data['flush_first_value']
          last,      \* the Agent: the last value of each context, or None
          counted,   \* the Agent: what each counter has been counted
          missed     \* has a response that was not whole kept anything from the
                     \* scraper: first values, or labels that are not cached?

endpoint == <<value, since, newer, restarts>>
scraper == <<flush, cached, labels>>
inScrape == <<pc, rest, payload, held, kept, wanted, recent, rtFlush>>
agent == <<last, counted>>
vars == <<conf, endpoint, scraper, inScrape, agent, missed>>

None == -1
NoResponse == [value |-> [c \in Counters |-> 0], newer |-> FALSE, whole |-> TRUE]

\* The counters of a process older than the Agent have a past.
Init ==
  /\ conf \in Configs
  /\ newer = conf.newer
  /\ value \in [Counters -> IF newer THEN {0} ELSE Past]
  /\ since = [c \in Counters |-> 0]
  /\ restarts = 0
  /\ flush = FALSE /\ cached = FALSE /\ labels = FALSE
  /\ pc = "idle" /\ rest = <<>>
  /\ payload = NoResponse
  /\ held = <<>> /\ kept = <<>> /\ wanted = FALSE
  /\ recent = FALSE /\ rtFlush = FALSE
  /\ last = [x \in Counters \X BOOLEAN |-> None]
  /\ counted = [c \in Counters |-> 0]
  /\ missed = FALSE

Increment(c) ==
  /\ value[c] < MaxValue
  /\ value' = [value EXCEPT ![c] = @ + 1]
  /\ since' = [since EXCEPT ![c] = @ + 1]
  /\ UNCHANGED <<conf, newer, restarts, scraper, inScrape, agent, missed>>

ProcessRestarts ==
  /\ restarts < MaxRestarts
  /\ restarts' = restarts + 1
  /\ value' = [c \in Counters |-> 0]
  /\ newer' = TRUE
  /\ UNCHANGED <<conf, since, scraper, inScrape, agent, missed>>

----------------------------------------------------------------------------
\* A response that is not whole has come.
CutOff == missed' = (missed \/ ~flush \/ (conf.share /\ ~conf.cache))

\* scrape: the request is answered, maybe with nothing; runtime_data takes
\* flush_first_value.
Scrape ==
  /\ pc = "idle"
  /\ pc' = "parse"
  /\ \/ rest' = conf.order /\ UNCHANGED missed
     \/ rest' = <<>> /\ CutOff
  /\ payload' = [value |-> value, newer |-> newer, whole |-> rest' # <<>>]
  /\ held' = <<>> /\ kept' = <<>>
  /\ wanted' = (conf.share /\ (~conf.cache \/ ~cached))
  /\ recent' = FALSE
  /\ rtFlush' = flush
  /\ UNCHANGED <<conf, endpoint, scraper, agent>>

\* consume_metrics: is the parser wrapped in first_scrape_handler?
HandlerUsed == ~flush /\ conf.start

\* The Agent: a monotonic count of a counter with these tags.
Count(c, tagged, first) ==
  LET old == last[<<c, tagged>>]
      new == payload.value[c]
      gain == IF old # None /\ old <= new THEN new - old ELSE IF first THEN new ELSE 0
  IN  /\ counted' = [counted EXCEPT ![c] = @ + gain]
      /\ last' = [last EXCEPT ![<<c, tagged>>] = new]

\* The counter transformer submits a counter, with the label that populate adds
\* when it is consumed.
Transform(m, tagged) ==
  IF m \in Counters THEN Count(m, tagged, rtFlush) ELSE UNCHANGED agent

\* LabelAggregator.__call__: with cached labels a metric goes on at once; without,
\* all are kept until Info has come, and go on before the next one is pulled.
MutKeeps == FALSE
Keeps == wanted /\ ~conf.cache
Pulls == wanted \/ kept = <<>>

Aggregate(m) ==
  /\ labels' = (labels \/ (wanted /\ m = Info))
  /\ wanted' = (wanted /\ m # Info)
  /\ IF Keeps THEN kept' = Append(kept, m) /\ UNCHANGED agent
              ELSE Transform(m, labels') /\ UNCHANGED kept

\* The handler holds back what has counters and looks at the start time.
ParseHeld ==
  /\ pc = "parse" /\ rest # <<>> /\ Pulls
  /\ HandlerUsed /\ Head(rest) \in Counters
  /\ held' = Append(held, Head(rest))
  /\ rest' = Tail(rest)
  /\ UNCHANGED <<conf, endpoint, scraper, agent, missed, pc, payload, kept,
                 wanted, recent, rtFlush>>

ParseMetric ==
  /\ rest # <<>> /\ Pulls
  /\ pc = "drain" \/ (pc = "parse" /\ ~(HandlerUsed /\ Head(rest) \in Counters))
  /\ recent' = (recent \/ (Head(rest) = Pst /\ payload.newer))
  /\ Aggregate(Head(rest))
  /\ rest' = Tail(rest)
  /\ UNCHANGED <<conf, endpoint, flush, cached, missed, pc, payload, held, rtFlush>>

\* All metrics are pulled, those of the handler's buffer too.
Exhausted == rest = <<>> /\ (pc = "drain" \/ (pc = "parse" /\ ~HandlerUsed))

\* The aggregator lets go of what it kept: Info has come, or it never will.
YieldKept ==
  /\ kept # <<>> /\ (~wanted \/ Exhausted)
  /\ Transform(Head(kept), labels)
  /\ kept' = Tail(kept)
  /\ UNCHANGED <<conf, endpoint, scraper, missed, pc, rest, payload, held, wanted,
                 recent, rtFlush>>

\* The end of the payload lets the handler decide and release its buffer.
MutDecided == rtFlush
Decided == rtFlush \/ recent
MutReleased == held
Released == <<>>

HandlerDrains ==
  /\ pc = "parse" /\ rest = <<>> /\ HandlerUsed /\ Pulls
  /\ pc' = "drain"
  /\ rtFlush' = Decided
  /\ rest' = held
  /\ held' = Released
  /\ UNCHANGED <<conf, endpoint, scraper, agent, missed, payload, kept, wanted, recent>>

\* The generators are exhausted: the aggregator marks its labels as cached or
\* clears them, and the scrape has happened.
ScrapeEnds ==
  /\ Exhausted /\ kept = <<>>
  /\ pc' = "idle" /\ payload' = NoResponse
  /\ flush' = TRUE
  /\ cached' = (conf.share /\ conf.cache)
  /\ labels' = (labels /\ conf.cache)
  /\ wanted' = FALSE /\ recent' = FALSE /\ rtFlush' = FALSE
  /\ UNCHANGED <<conf, endpoint, agent, missed, rest, held, kept>>

\* stream_connection_lines: a ConnectionError, at the request or between two
\* lines, that is ignored: for the parser the payload just ends.
ErrorIgnored ==
  /\ pc = "parse" /\ conf.ignore /\ rest # <<>> /\ Pulls
  /\ rest' = <<>>
  /\ payload' = [payload EXCEPT !.whole = FALSE]
  /\ CutOff
  /\ UNCHANGED <<conf, endpoint, scraper, agent, pc, held, kept, wanted, recent, rtFlush>>

\* Any other error, of the request, the parser or a transformer, leaves scrape:
\* what is buffered is dropped, and only the aggregator without a cache has a
\* finally clause.
MutAfterError == TRUE
FlushAfterError == flush

ScrapeRaises ==
  /\ pc # "idle"
  /\ pc' = "idle" /\ payload' = NoResponse
  /\ rest' = <<>> /\ held' = <<>> /\ kept' = <<>>
  /\ wanted' = FALSE /\ recent' = FALSE /\ rtFlush' = FALSE
  /\ flush' = FlushAfterError
  /\ labels' = (labels /\ conf.cache)
  /\ UNCHANGED <<conf, endpoint, agent, missed, cached>>

Next ==
  \/ \E c \in Counters : Increment(c)
  \/ ProcessRestarts
  \/ Scrape \/ ParseHeld \/ ParseMetric \/ YieldKept \/ HandlerDrains
  \/ ScrapeEnds \/ ErrorIgnored \/ ScrapeRaises

Spec == Init /\ [][Next]_vars

----------------------------------------------------------------------------
\* Every metric of a payload is in one place of the chain of generators, and
\* nothing is left there between two scrapes.
TypeOK ==
  /\ conf \in Configs
  /\ value \in [Counters -> 0 .. MaxValue] /\ since \in [Counters -> Nat]
  /\ newer \in BOOLEAN /\ restarts \in 0 .. MaxRestarts
  /\ flush \in BOOLEAN /\ cached \in BOOLEAN /\ labels \in BOOLEAN
  /\ pc \in {"idle", "parse", "drain"}
  /\ wanted \in BOOLEAN /\ recent \in BOOLEAN /\ rtFlush \in BOOLEAN
  /\ ToSet(rest \o held \o kept) \subseteq Families
  /\ IsInjective(rest \o held \o kept)
  /\ pc = "idle" => rest \o held \o kept = <<>>
  /\ last \in [Counters \X BOOLEAN -> {None} \cup 0 .. MaxValue]
  /\ counted \in [Counters -> Nat]
  /\ missed \in BOOLEAN

\* Info stands ahead of every counter, in the payload or behind the handler.
InfoAhead(s) == \A i, j \in DOMAIN s : s[i] = Info /\ s[j] \in Counters => i < j
Timely == conf.start \/ InfoAhead(conf.order)

\* Is every counter submitted in one context only?
OneContext == conf.share => ~missed /\ (conf.cache => Timely)

\* "decide whether zero initial value can be assumed for counters": what a
\* counter had before the Agent started is never counted, through failed scrapes,
\* restarts of the process and later responses that are empty or cut off; of an
\* old process the responses must be whole until the first scrape has ended.
NoInflation ==
  OneContext /\ (conf.newer \/ ~missed) => \A c \in Counters : counted[c] <= since[c]

\* The other half of the heuristic: of a process younger than the Agent every
\* scrape that went through leaves the whole value counted, even if the scrapes
\* before it failed.
CountsFromBirth ==
  conf.start /\ OneContext /\ ~missed /\ newer /\ restarts = 0 /\ pc = "idle" /\ flush =>
    \A c \in Counters : counted[c] = last[<<c, conf.share>>]

\* share_labels applies the labels of a metric "to all other metrics".  Labels that
\* are not cached are on every counter of a whole response, wherever Info stands.
\* Cached labels are on every counter from the second scrape on, if the first saw
\* whole responses, and on those of the first too if Info comes ahead of them.
AllLabelled ==
  [][ conf.share /\ (IF conf.cache THEN ~missed /\ (flush \/ Timely) ELSE payload.whole)
        => \A c \in Counters : last'[<<c, FALSE>>] = last[<<c, FALSE>>] ]_vars
=============================================================================
