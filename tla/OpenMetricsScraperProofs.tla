---------------------- MODULE OpenMetricsScraperProofs ----------------------
(***************************************************************************)
(* The scraper for every set of counters, every order of the payload, every*)
(* bound on values and restarts.                                           *)
(***************************************************************************)
EXTENDS OpenMetricsScraper, SequenceTheorems, TLAPS

Values == 0 .. MaxValue
Responses == [value : [Counters -> Values], newer : BOOLEAN, whole : BOOLEAN]

StateOK ==
    /\ conf \in Configs
    /\ value \in [Counters -> Values] /\ since \in [Counters -> Nat]
    /\ newer \in BOOLEAN /\ restarts \in 0 .. MaxRestarts
    /\ flush \in BOOLEAN /\ cached \in BOOLEAN /\ labels \in BOOLEAN
    /\ pc \in {"idle", "parse", "drain"}
    /\ wanted \in BOOLEAN /\ recent \in BOOLEAN /\ rtFlush \in BOOLEAN
    /\ payload \in Responses /\ missed \in BOOLEAN

AgentOK ==
    /\ last \in [Counters \X BOOLEAN -> {None} \cup Values]
    /\ counted \in [Counters -> Nat]

\* The metrics on their way are in one place each.  The handler holds counters
\* only, and only while it is in use; the aggregator keeps metrics only if it does
\* not cache the labels.
ChainOK ==
    /\ rest \in Seq(Families) /\ held \in Seq(Families) /\ kept \in Seq(Families)
    /\ IsInjective(rest) /\ IsInjective(held) /\ IsInjective(kept)
    /\ ToSet(rest) \cap ToSet(held) = {}
    /\ ToSet(rest) \cap ToSet(kept) = {}
    /\ ToSet(held) \cap ToSet(kept) = {}
    /\ pc = "idle" => rest = <<>> /\ held = <<>> /\ kept = <<>>
    /\ held # <<>> => pc = "parse" /\ HandlerUsed
    /\ ToSet(held) \subseteq Counters
    /\ kept # <<>> => ~conf.cache

PlacesInv == StateOK /\ AgentOK /\ ChainOK

\* Can the label be learnt in this scrape, or has it been?
Learnable == IF conf.cache THEN ~missed ELSE payload.whole

\* Does a counter that is submitted now have the label, if labels are shared?
OnTime == conf.share => Learnable /\ (conf.cache => flush \/ Timely)

\* What is missed by a response that is not whole; and as long as the label is not
\* known Info is awaited and still to come.
LearnInv ==
    /\ ~payload.whole => missed \/ (flush /\ ~(conf.share /\ ~conf.cache))
    /\ ~conf.share => ~labels /\ ~wanted
    /\ conf.share =>
          /\ Learnable /\ pc # "idle" => labels \/ (wanted /\ Info \in ToSet(rest))
          /\ Learnable /\ pc = "drain" => labels
          /\ ~missed /\ cached => labels
          /\ flush /\ conf.cache => cached
          /\ cached => conf.cache
          /\ pc = "parse" /\ conf.cache /\ ~conf.start /\ Timely => InfoAhead(rest)

\* The last value of a counter in the context in which it should be.
Shown(c) == last[<<c, conf.share>>]

\* A metric on its way: to come, held by the handler or kept by the aggregator.
OnTheWay == ToSet(rest) \cup ToSet(held) \cup ToSet(kept)

Clean == OneContext /\ ~missed

\* A scrape of a whole response leaves out no counter, and the first that goes
\* through has one.
CompleteInv ==
    Clean =>
        /\ pc # "idle" /\ payload.whole =>
              \A c \in Counters : c \in OnTheWay \/ Shown(c) = payload.value[c]
        /\ flush => \A c \in Counters : Shown(c) # None

\* The first value is flushed after a first scrape, or of a young process.
FlushInv ==
    /\ recent => payload.newer
    /\ rtFlush => flush \/ payload.newer
    /\ conf.newer => newer /\ (pc # "idle" => payload.newer)

\* The response being read, and between two scrapes the one that would be.
Seen == IF pc = "idle" THEN value ELSE payload.value
SeenNewer == IF pc = "idle" THEN newer ELSE payload.newer

\* What an endpoint that shows v has counted at least since it showed p: all of v,
\* if that is less and it has restarted.
Spare(v, p) == IF v < p THEN v ELSE v - p

\* The account of one counter, of which the endpoint shows v and has counted s since
\* the Agent started, the response being read shows p, and the Agent has seen w (or
\* None) and counted k; n and pn are the ages of process and response.  What the
\* Agent may still add, for this response and for the next one, is covered by s.
Balance(v, p, s, k, w, n, pn) ==
    /\ {v, p, s, k} \subseteq Nat /\ w \in Nat \cup {None}
    /\ k + Spare(v, p) <= s
    /\ w = None => k = 0
    /\ w # None =>
          /\ k + p - w + Spare(v, p) <= s
          /\ p < w => k + p + Spare(v, p) <= s
          /\ k + v - w <= s
          /\ v < w => k + v <= s
    /\ n => v <= s
    /\ pn => p + Spare(v, p) <= s

Covered(c) == Balance(value[c], Seen[c], since[c], counted[c], Shown(c), newer, SeenNewer)

Scope == OneContext /\ (conf.newer \/ ~missed)

AmountInv == Scope => \A c \in Counters : Covered(c)

\* The handler decides before it lets a counter go: of a young process it sees the
\* start time in the payload, and no counter is kept behind it.
DecideInv ==
    /\ newer /\ restarts = 0 /\ pc # "idle" => payload.newer
    /\ pc = "parse" /\ HandlerUsed /\ payload.newer => Pst \in ToSet(rest) \/ recent
    /\ pc = "parse" /\ HandlerUsed => ToSet(kept) \cap Counters = {}
    /\ pc = "drain" /\ payload.newer => rtFlush
    /\ pc # "idle" /\ flush => rtFlush

\* Until the process restarts its counters only grow, and of a young one everything
\* that was shown is counted.
BirthInv ==
    restarts = 0 =>
        \A c \in Counters :
            /\ Shown(c) <= Seen[c] /\ Seen[c] <= value[c]
            /\ newer => counted[c] = IF Shown(c) = None THEN 0 ELSE Shown(c)

YoungInv == conf.start /\ Clean => DecideInv /\ BirthInv

-----------------------------------------------------------------------------
(* Sequences of metrics *)

LEMMA ToSetByIndex ==
    ASSUME NEW S, NEW s \in Seq(S)
    PROVE  /\ \A x : x \in ToSet(s) <=> \E i \in 1 .. Len(s) : x = s[i]
           /\ ToSet(s) \subseteq S
           /\ IsInjective(s) <=> \A i, j \in 1 .. Len(s) : s[i] = s[j] => i = j
  BY DEF ToSet, IsInjective

LEMMA EmptyAndOne ==
    ASSUME NEW S, NEW m \in S
    PROVE  /\ <<>> \in Seq(S) /\ ToSet(<<>>) = {} /\ IsInjective(<<>>)
           /\ <<m>> \in Seq(S) /\ ToSet(<<m>>) = {m} /\ IsInjective(<<m>>)
           /\ <<m>> # <<>>
  BY DEF ToSet, IsInjective

LEMMA ConcatApart ==
    ASSUME NEW S, NEW s \in Seq(S), NEW t \in Seq(S),
           IsInjective(s), IsInjective(t), ToSet(s) \cap ToSet(t) = {}
    PROVE  /\ s \o t \in Seq(S)
           /\ IsInjective(s \o t)
           /\ ToSet(s \o t) = ToSet(s) \cup ToSet(t)
  <1>1. /\ s \o t \in Seq(S)
        /\ Len(s \o t) = Len(s) + Len(t) /\ Len(s) \in Nat /\ Len(t) \in Nat
        /\ \A i \in 1 .. Len(s) + Len(t) :
              (s \o t)[i] = IF i <= Len(s) THEN s[i] ELSE t[i - Len(s)]
    BY ConcatProperties, LenProperties
  <1>2. ToSet(s \o t) = ToSet(s) \cup ToSet(t)
    <2>1. Range(s \o t) = Range(s) \cup Range(t)
      BY RangeConcatenation
    <2>2. \A u : Range(u) = ToSet(u)
      BY DEF Range, ToSet
    <2> QED
      BY <2>1, <2>2
  <1>3. ASSUME NEW i \in 1 .. Len(s \o t), NEW j \in 1 .. Len(s \o t), (s \o t)[i] = (s \o t)[j]
        PROVE  i = j
    <2>1. CASE i <= Len(s) /\ j <= Len(s)
      <3>1. i \in 1 .. Len(s) /\ j \in 1 .. Len(s) /\ s[i] = s[j]
        BY <1>1, <1>3, <2>1
      <3> QED
        BY <3>1, ToSetByIndex
    <2>2. CASE ~(i <= Len(s)) /\ ~(j <= Len(s))
      <3>1. i - Len(s) \in 1 .. Len(t) /\ j - Len(s) \in 1 .. Len(t)
        BY <1>1, <2>2
      <3>2. t[i - Len(s)] = t[j - Len(s)]
        BY <1>1, <1>3, <2>2
      <3>3. i - Len(s) = j - Len(s)
        BY <3>1, <3>2, ToSetByIndex
      <3> QED
        BY <1>1, <3>3
    <2>3. ASSUME NEW a \in 1 .. Len(s), NEW b \in 1 .. Len(t) PROVE s[a] # t[b]
      <3>1. s[a] \in ToSet(s) /\ t[b] \in ToSet(t)
        BY ToSetByIndex
      <3> QED
        BY <3>1
    <2>4. CASE i <= Len(s) /\ ~(j <= Len(s))
      <3>1. i \in 1 .. Len(s) /\ j - Len(s) \in 1 .. Len(t) /\ s[i] = t[j - Len(s)]
        BY <1>1, <1>3, <2>4
      <3> QED
        BY <2>3, <3>1
    <2>5. CASE ~(i <= Len(s)) /\ j <= Len(s)
      <3>1. j \in 1 .. Len(s) /\ i - Len(s) \in 1 .. Len(t) /\ s[j] = t[i - Len(s)]
        BY <1>1, <1>3, <2>5
      <3> QED
        BY <2>3, <3>1
    <2> QED
      BY <2>1, <2>2, <2>4, <2>5
  <1>4. IsInjective(s \o t)
    BY <1>1, <1>3, ToSetByIndex
  <1> QED
    BY <1>1, <1>2, <1>4

LEMMA HeadTailApart ==
    ASSUME NEW S, NEW s \in Seq(S), s # <<>>, IsInjective(s)
    PROVE  /\ Head(s) \in S /\ Head(s) \in ToSet(s)
           /\ Tail(s) \in Seq(S) /\ IsInjective(Tail(s))
           /\ ToSet(Tail(s)) = ToSet(s) \ {Head(s)}
  <1>1. /\ Head(s) \in S /\ Tail(s) \in Seq(S)
        /\ Len(s) \in Nat /\ Len(s) >= 1 /\ Len(Tail(s)) = Len(s) - 1
        /\ Head(s) = s[1]
        /\ \A i \in 1 .. Len(s) - 1 : Tail(s)[i] = s[i + 1]
    BY HeadTailProperties, LenProperties, EmptySeq
  <1>2. \A i, j \in 1 .. Len(s) : s[i] = s[j] => i = j
    BY ToSetByIndex
  <1>3. IsInjective(Tail(s))
    <2>1. ASSUME NEW i \in 1 .. Len(s) - 1, NEW j \in 1 .. Len(s) - 1, Tail(s)[i] = Tail(s)[j]
          PROVE  i = j
      <3>1. i + 1 \in 1 .. Len(s) /\ j + 1 \in 1 .. Len(s) /\ s[i + 1] = s[j + 1]
        BY <1>1, <2>1
      <3>2. i + 1 = j + 1
        BY <1>2, <3>1
      <3> QED
        BY <3>2
    <2> QED
      BY <1>1, <2>1, ToSetByIndex
  <1>4. Head(s) \in ToSet(s)
    BY <1>1, ToSetByIndex
  <1>5. ToSet(Tail(s)) \subseteq ToSet(s) \ {Head(s)}
    <2>1. ASSUME NEW i \in 1 .. Len(s) - 1 PROVE s[i + 1] \in ToSet(s) \ {s[1]}
      <3>1. i + 1 \in 1 .. Len(s) /\ 1 \in 1 .. Len(s) /\ i + 1 # 1
        BY <1>1
      <3> QED
        BY <1>2, <3>1, ToSetByIndex
    <2>2. ASSUME NEW x \in ToSet(Tail(s)) PROVE x \in ToSet(s) \ {s[1]}
      <3>1. PICK i \in 1 .. Len(Tail(s)) : x = Tail(s)[i]
        <4>1. Tail(s) \in Seq(S)
          BY <1>1
        <4> QED
          BY <4>1, ToSetByIndex, Zenon
      <3> QED
        BY <1>1, <2>1, <3>1
    <2> QED
      BY <1>1, <2>2
  <1>6. ToSet(s) \ {Head(s)} \subseteq ToSet(Tail(s))
    <2> SUFFICES ASSUME NEW i \in 1 .. Len(s), s[i] # s[1] PROVE s[i] \in ToSet(Tail(s))
      BY <1>1, ToSetByIndex
    <2>1. i - 1 \in 1 .. Len(s) - 1 /\ (i - 1) + 1 = i
      BY <1>1
    <2>2. Tail(s)[i - 1] = s[i]
      BY <1>1, <2>1
    <2>3. Tail(s) \in Seq(S) /\ i - 1 \in 1 .. Len(Tail(s))
      BY <1>1, <2>1
    <2>4. Tail(s)[i - 1] \in ToSet(Tail(s))
      BY <2>3, ToSetByIndex
    <2> QED
      BY <2>2, <2>4
  <1> QED
    BY <1>1, <1>3, <1>4, <1>5, <1>6

LEMMA AppendApart ==
    ASSUME NEW S, NEW s \in Seq(S), NEW m \in S, IsInjective(s), m \notin ToSet(s)
    PROVE  /\ Append(s, m) \in Seq(S) /\ Append(s, m) # <<>>
           /\ IsInjective(Append(s, m))
           /\ ToSet(Append(s, m)) = ToSet(s) \cup {m}
  <1>1. PICK t \in Seq(S) : t = <<m>> /\ ToSet(t) = {m} /\ IsInjective(t)
    BY EmptyAndOne
  <1>2. Append(s, m) = s \o t /\ Append(s, m) # <<>>
    BY <1>1, AppendIsConcat, AppendProperties
  <1>3. IsInjective(t) /\ ToSet(s) \cap ToSet(t) = {}
    BY <1>1
  <1>4. /\ s \o t \in Seq(S)
        /\ IsInjective(s \o t)
        /\ ToSet(s \o t) = ToSet(s) \cup ToSet(t)
    BY <1>3, ConcatApart, Zenon
  <1> QED
    BY <1>1, <1>2, <1>4

-----------------------------------------------------------------------------
(* Types, and where the metrics of a payload are *)

LEMMA ConfType ==
    ASSUME NEW f \in Configs
    PROVE  /\ f.order \in Seq(Families) /\ IsInjective(f.order) /\ ToSet(f.order) = Families
           /\ f.share \in BOOLEAN /\ f.cache \in BOOLEAN /\ f.start \in BOOLEAN
           /\ f.ignore \in BOOLEAN /\ f.newer \in BOOLEAN
  BY ScraperAssumption

LEMMA ValuesType == Values \subseteq Nat /\ 0 \in Values /\ Past \subseteq Values /\ None \notin Values
  BY ScraperAssumption DEF Values, None

LEMMA NoResponseType ==
    /\ NoResponse \in Responses /\ NoResponse.whole = TRUE /\ NoResponse.newer = FALSE
    /\ \A c \in Counters : NoResponse.value[c] = 0
  BY ValuesType DEF NoResponse, Responses

\* No step changes the options, and what is missed stays missed.
LEMMA SameConf ==
    ASSUME PlacesInv, [Next]_vars
    PROVE  conf' = conf /\ (missed => missed')
  <1>1. conf' = conf
    BY DEF Next, vars, Increment, ProcessRestarts, Scrape, ParseHeld, ParseMetric, YieldKept,
       HandlerDrains, ScrapeEnds, ErrorIgnored, ScrapeRaises
  <1>2. missed' = missed \/ CutOff
    BY DEF Next, vars, Increment, ProcessRestarts, Scrape, ParseHeld, ParseMetric, YieldKept,
       HandlerDrains, ScrapeEnds, ErrorIgnored, ScrapeRaises
  <1>3. missed \in BOOLEAN
    BY DEF PlacesInv, StateOK
  <1> QED
    BY <1>1, <1>2, <1>3 DEF CutOff

\* The difference that a monotonic count adds is not negative.
LEMMA TransformType ==
    ASSUME AgentOK, payload \in Responses, rtFlush \in BOOLEAN,
           NEW m, NEW tagged \in BOOLEAN, Transform(m, tagged)
    PROVE  AgentOK'
  <1>1. CASE m \notin Counters
    BY <1>1 DEF Transform, agent, AgentOK
  <1>2. CASE m \in Counters
    <2>1. payload.value[m] \in Values
      BY <1>2 DEF Responses
    <2>2. last' = [last EXCEPT ![<<m, tagged>>] = payload.value[m]]
      BY <1>2 DEF Transform, Count
    <2>3. last' \in [Counters \X BOOLEAN -> {None} \cup Values]
      BY <1>2, <2>1, <2>2 DEF AgentOK
    <2>4. /\ payload.value[m] \in Nat /\ counted[m] \in Nat
          /\ last[<<m, tagged>>] \in {None} \cup Nat
      BY <1>2, <2>1, ValuesType DEF AgentOK
    <2>5. PICK gain \in Nat : counted' = [counted EXCEPT ![m] = counted[m] + gain]
      <3>1. counted' = [counted EXCEPT ![m] = counted[m] +
                          (IF last[<<m, tagged>>] # None /\ last[<<m, tagged>>] <= payload.value[m]
                           THEN payload.value[m] - last[<<m, tagged>>]
                           ELSE IF rtFlush THEN payload.value[m] ELSE 0)]
        BY <1>2 DEF Transform, Count
      <3>2. (IF last[<<m, tagged>>] # None /\ last[<<m, tagged>>] <= payload.value[m]
             THEN payload.value[m] - last[<<m, tagged>>]
             ELSE IF rtFlush THEN payload.value[m] ELSE 0) \in Nat
        BY <2>4 DEF None
      <3> QED
        BY <3>1, <3>2
    <2> QED
      BY <1>2, <2>3, <2>4, <2>5 DEF AgentOK
  <1> QED
    BY <1>1, <1>2

LEMMA PlacesInit == Init => PlacesInv
  <1> SUFFICES ASSUME Init PROVE PlacesInv
    OBVIOUS
  <1>1. conf \in Configs /\ newer = conf.newer /\ newer \in BOOLEAN
    BY ConfType DEF Init
  <1>2. value \in [Counters -> Values]
    <2>1. \A c \in Counters : value[c] \in Values
      BY <1>1, ValuesType DEF Init
    <2> QED
      BY <2>1 DEF Init
  <1>3. StateOK
    <2>1. since \in [Counters -> Nat] /\ restarts \in 0 .. MaxRestarts
      BY ScraperAssumption DEF Init
    <2> QED
      BY <1>1, <1>2, <2>1, NoResponseType DEF Init, StateOK
  <1>4. AgentOK
    BY DEF Init, AgentOK
  <1>5. ChainOK
    BY EmptyAndOne DEF Init, ChainOK, Families
  <1> QED
    BY <1>3, <1>4, <1>5 DEF PlacesInv

LEMMA EndpointPlaces ==
    ASSUME PlacesInv, (\E c \in Counters : Increment(c)) \/ ProcessRestarts
    PROVE  PlacesInv'
  <1>1. UNCHANGED <<conf, scraper, inScrape, agent, missed>>
    BY DEF Increment, ProcessRestarts
  <1>2. /\ value' \in [Counters -> Values] /\ since' \in [Counters -> Nat]
        /\ newer' \in BOOLEAN /\ restarts' \in 0 .. MaxRestarts
    <2>1. ASSUME NEW c \in Counters, Increment(c) PROVE value' \in [Counters -> Values]
      <3>1. value[c] + 1 \in Values
        BY <2>1, ScraperAssumption DEF PlacesInv, StateOK, Increment, Values
      <3> QED
        BY <2>1, <3>1 DEF PlacesInv, StateOK, Increment
    <2>2. ASSUME NEW c \in Counters, Increment(c)
          PROVE  /\ since' \in [Counters -> Nat]
                 /\ newer' \in BOOLEAN /\ restarts' \in 0 .. MaxRestarts
      BY <2>2 DEF PlacesInv, StateOK, Increment
    <2>3. CASE ProcessRestarts
      <3>1. restarts' \in 0 .. MaxRestarts
        BY <2>3, ScraperAssumption DEF PlacesInv, StateOK, ProcessRestarts
      <3>2. value' \in [Counters -> Values]
        BY <2>3, ValuesType DEF ProcessRestarts
      <3> QED
        BY <2>3, <3>1, <3>2 DEF PlacesInv, StateOK, ProcessRestarts
    <2> QED
      BY <2>1, <2>2, <2>3
  <1>3. StateOK' /\ AgentOK'
    BY <1>1, <1>2 DEF PlacesInv, StateOK, AgentOK, scraper, inScrape, agent
  <1>4. ChainOK'
    BY <1>1 DEF PlacesInv, ChainOK, scraper, inScrape, HandlerUsed
  <1> QED
    BY <1>3, <1>4 DEF PlacesInv

LEMMA ScrapePlaces ==
    ASSUME PlacesInv, Scrape
    PROVE  PlacesInv'
  <1>1. payload' \in Responses
    BY DEF PlacesInv, StateOK, Scrape, Responses
  <1>2. missed' \in BOOLEAN
    BY DEF PlacesInv, StateOK, Scrape, CutOff
  <1>3. StateOK' /\ AgentOK'
    BY <1>1, <1>2, ConfType DEF PlacesInv, StateOK, AgentOK, Scrape, endpoint, scraper, agent
  <1>4. rest' \in {conf.order, <<>>} /\ held' = <<>> /\ kept' = <<>> /\ pc' = "parse"
    BY DEF Scrape
  <1>5. conf.order \in Seq(Families) /\ IsInjective(conf.order)
    BY ConfType DEF PlacesInv, StateOK
  <1>6. <<>> \in Seq(Families) /\ ToSet(<<>>) = {} /\ IsInjective(<<>>)
    BY EmptyAndOne DEF Families
  <1>7. ChainOK'
    BY <1>4, <1>5, <1>6 DEF ChainOK
  <1> QED
    BY <1>3, <1>7 DEF PlacesInv

LEMMA ParseHeldPlaces ==
    ASSUME PlacesInv, ParseHeld
    PROVE  PlacesInv'
  <1>1. /\ pc = "parse" /\ rest # <<>> /\ HandlerUsed /\ Head(rest) \in Counters
        /\ held' = Append(held, Head(rest)) /\ rest' = Tail(rest)
        /\ UNCHANGED <<conf, endpoint, scraper, agent, missed, pc, payload, kept, wanted, recent,
                       rtFlush>>
    BY DEF ParseHeld
  <1>2. StateOK' /\ AgentOK'
    BY <1>1 DEF PlacesInv, StateOK, AgentOK, endpoint, scraper, agent
  <1>3. /\ rest \in Seq(Families) /\ IsInjective(rest)
        /\ held \in Seq(Families) /\ IsInjective(held)
    BY DEF PlacesInv, ChainOK
  <1>4. /\ Head(rest) \in Families /\ Head(rest) \in ToSet(rest)
        /\ rest' \in Seq(Families) /\ IsInjective(rest')
        /\ ToSet(rest') = ToSet(rest) \ {Head(rest)}
    BY <1>1, <1>3, HeadTailApart
  <1>5. Head(rest) \notin ToSet(held) /\ Head(rest) \notin ToSet(kept)
    BY <1>4 DEF PlacesInv, ChainOK
  <1>6. /\ held' \in Seq(Families) /\ IsInjective(held')
        /\ ToSet(held') = ToSet(held) \cup {Head(rest)}
    BY <1>1, <1>3, <1>4, <1>5, AppendApart
  <1>7. HandlerUsed'
    BY <1>1 DEF HandlerUsed, scraper
  <1>8. ChainOK'
    BY <1>1, <1>4, <1>5, <1>6, <1>7 DEF PlacesInv, ChainOK
  <1> QED
    BY <1>2, <1>8 DEF PlacesInv

\* The aggregator keeps the next metric, or it goes on.
LEMMA AggregatorPlaces ==
    ASSUME PlacesInv, ParseMetric
    PROVE  /\ Head(rest) \in Families /\ Head(rest) \in ToSet(rest)
           /\ Head(rest) \notin ToSet(held) /\ Head(rest) \notin ToSet(kept)
           /\ rest' \in Seq(Families) /\ IsInjective(rest')
           /\ ToSet(rest') = ToSet(rest) \ {Head(rest)}
           /\ kept' \in Seq(Families) /\ IsInjective(kept')
           /\ ToSet(kept') = IF Keeps THEN ToSet(kept) \cup {Head(rest)} ELSE ToSet(kept)
           /\ kept' # kept => ~conf.cache
  <1>1. /\ rest # <<>> /\ rest' = Tail(rest)
        /\ kept' = IF Keeps THEN Append(kept, Head(rest)) ELSE kept
        /\ Keeps => ~conf.cache
    BY DEF ParseMetric, Aggregate, Keeps
  <1>2. /\ rest \in Seq(Families) /\ IsInjective(rest)
        /\ kept \in Seq(Families) /\ IsInjective(kept)
    BY DEF PlacesInv, ChainOK
  <1>3. /\ Head(rest) \in Families /\ Head(rest) \in ToSet(rest)
        /\ rest' \in Seq(Families) /\ IsInjective(rest')
        /\ ToSet(rest') = ToSet(rest) \ {Head(rest)}
    BY <1>1, <1>2, HeadTailApart
  <1>4. Head(rest) \notin ToSet(held) /\ Head(rest) \notin ToSet(kept)
    BY <1>3 DEF PlacesInv, ChainOK
  <1>5. /\ Append(kept, Head(rest)) \in Seq(Families) /\ IsInjective(Append(kept, Head(rest)))
        /\ ToSet(Append(kept, Head(rest))) = ToSet(kept) \cup {Head(rest)}
    BY <1>2, <1>3, <1>4, AppendApart
  <1> QED
    BY <1>1, <1>2, <1>3, <1>4, <1>5

LEMMA ParseMetricPlaces ==
    ASSUME PlacesInv, ParseMetric
    PROVE  PlacesInv'
  <1>1. /\ pc \in {"parse", "drain"}
        /\ recent' = (recent \/ (Head(rest) = Pst /\ payload.newer))
        /\ labels' = (labels \/ (wanted /\ Head(rest) = Info))
        /\ wanted' = (wanted /\ Head(rest) # Info)
        /\ UNCHANGED agent \/ Transform(Head(rest), labels')
        /\ UNCHANGED <<conf, endpoint, flush, cached, missed, pc, payload, held, rtFlush>>
    BY DEF ParseMetric, Aggregate
  <1>2. recent' \in BOOLEAN /\ labels' \in BOOLEAN /\ wanted' \in BOOLEAN
    BY <1>1
  <1>3. StateOK'
    BY <1>1, <1>2 DEF PlacesInv, StateOK, endpoint
  <1>4. AgentOK'
    <2>1. CASE UNCHANGED agent
      BY <2>1 DEF PlacesInv, AgentOK, agent
    <2>2. CASE Transform(Head(rest), labels')
      BY <1>2, <2>2, TransformType DEF PlacesInv, StateOK
    <2> QED
      BY <1>1, <2>1, <2>2
  <1>5. HandlerUsed' <=> HandlerUsed
    BY <1>1 DEF HandlerUsed
  <1>6. ChainOK'
    BY <1>1, <1>5, AggregatorPlaces DEF PlacesInv, ChainOK
  <1> QED
    BY <1>3, <1>4, <1>6 DEF PlacesInv

LEMMA YieldKeptPlaces ==
    ASSUME PlacesInv, YieldKept
    PROVE  /\ PlacesInv'
           /\ pc # "idle" /\ ~conf.cache
           /\ Head(kept) \in ToSet(kept) /\ ToSet(kept') = ToSet(kept) \ {Head(kept)}
  <1>1. /\ kept # <<>> /\ kept' = Tail(kept) /\ Transform(Head(kept), labels)
        /\ UNCHANGED <<conf, endpoint, scraper, missed, pc, rest, payload, held, wanted, recent,
                       rtFlush>>
    BY DEF YieldKept
  <1>2. pc # "idle" /\ ~conf.cache /\ kept \in Seq(Families) /\ IsInjective(kept)
    BY <1>1 DEF PlacesInv, ChainOK
  <1>3. /\ Head(kept) \in ToSet(kept) /\ ToSet(kept') = ToSet(kept) \ {Head(kept)}
        /\ kept' \in Seq(Families) /\ IsInjective(kept')
    BY <1>1, <1>2, HeadTailApart
  <1>4. StateOK'
    BY <1>1 DEF PlacesInv, StateOK, endpoint, scraper
  <1>5. AgentOK'
    BY <1>1, TransformType DEF PlacesInv, StateOK
  <1>6. ChainOK'
    <2>1. HandlerUsed' <=> HandlerUsed
      BY <1>1 DEF HandlerUsed, scraper
    <2> QED
      BY <1>1, <1>2, <1>3, <2>1 DEF PlacesInv, ChainOK
  <1> QED
    BY <1>2, <1>3, <1>4, <1>5, <1>6 DEF PlacesInv

LEMMA HandlerDrainsPlaces ==
    ASSUME PlacesInv, HandlerDrains
    PROVE  PlacesInv'
  <1>1. /\ pc' = "drain" /\ rest = <<>> /\ rest' = held /\ held' = <<>>
        /\ rtFlush' = (rtFlush \/ recent)
        /\ UNCHANGED <<conf, endpoint, scraper, agent, missed, payload, kept, wanted, recent>>
    BY DEF HandlerDrains, Decided, Released
  <1>2. StateOK' /\ AgentOK'
    BY <1>1 DEF PlacesInv, StateOK, AgentOK, endpoint, scraper, agent
  <1>3. <<>> \in Seq(Families) /\ ToSet(<<>>) = {} /\ IsInjective(<<>>)
    BY EmptyAndOne DEF Families
  <1>4. ChainOK'
    BY <1>1, <1>3 DEF PlacesInv, ChainOK
  <1> QED
    BY <1>2, <1>4 DEF PlacesInv

\* A scrape ends, in either way, with nothing left on the way.
LEMMA ScrapeEndsPlaces ==
    ASSUME PlacesInv, ScrapeEnds \/ ScrapeRaises \/ ErrorIgnored
    PROVE  PlacesInv'
  <1>1. <<>> \in Seq(Families) /\ ToSet(<<>>) = {} /\ IsInjective(<<>>)
    BY EmptyAndOne DEF Families
  <1>2. conf.cache \in BOOLEAN /\ conf.share \in BOOLEAN /\ NoResponse \in Responses
    BY ConfType, NoResponseType DEF PlacesInv, StateOK
  <1>3. CASE ScrapeEnds
    <2>1. held = <<>> /\ rest = <<>> /\ kept = <<>>
      BY <1>3 DEF ScrapeEnds, Exhausted, PlacesInv, ChainOK
    <2>2. StateOK' /\ AgentOK'
      BY <1>2, <1>3 DEF ScrapeEnds, PlacesInv, StateOK, AgentOK, endpoint, agent
    <2>3. ChainOK'
      BY <1>1, <1>3, <2>1 DEF ScrapeEnds, PlacesInv, ChainOK
    <2> QED
      BY <2>2, <2>3 DEF PlacesInv
  <1>4. CASE ScrapeRaises
    <2>1. StateOK' /\ AgentOK'
      BY <1>2, <1>4 DEF ScrapeRaises, FlushAfterError, PlacesInv, StateOK, AgentOK, endpoint, agent
    <2>2. ChainOK'
      BY <1>1, <1>4 DEF ScrapeRaises, PlacesInv, ChainOK
    <2> QED
      BY <2>1, <2>2 DEF PlacesInv
  <1>5. CASE ErrorIgnored
    <2>1. payload' \in Responses /\ missed' \in BOOLEAN
      BY <1>5 DEF ErrorIgnored, CutOff, PlacesInv, StateOK, Responses
    <2>2. StateOK' /\ AgentOK'
      BY <1>5, <2>1 DEF ErrorIgnored, PlacesInv, StateOK, AgentOK, endpoint, scraper, agent
    <2>3. HandlerUsed' <=> HandlerUsed
      BY <1>5 DEF ErrorIgnored, HandlerUsed, scraper
    <2>4. ChainOK'
      BY <1>1, <1>5, <2>3 DEF ErrorIgnored, PlacesInv, ChainOK
    <2> QED
      BY <2>2, <2>4 DEF PlacesInv
  <1> QED
    BY <1>3, <1>4, <1>5

LEMMA PlacesStep ==
    ASSUME PlacesInv, [Next]_vars
    PROVE  PlacesInv'
  <1>1. CASE Next
    BY <1>1, EndpointPlaces, ScrapePlaces, ParseHeldPlaces, ParseMetricPlaces, YieldKeptPlaces,
       HandlerDrainsPlaces, ScrapeEndsPlaces DEF Next
  <1>2. CASE UNCHANGED vars
    BY <1>2 DEF vars, endpoint, scraper, inScrape, agent, PlacesInv, StateOK, AgentOK, ChainOK,
       HandlerUsed
  <1> QED
    BY <1>1, <1>2

\* Every metric of a payload is in one place of the chain of generators, and
\* nothing is left there between two scrapes.
THEOREM ScraperTypes == Spec => []TypeOK
  <1>1. PlacesInv => TypeOK
    <2> SUFFICES ASSUME PlacesInv PROVE TypeOK
      OBVIOUS
    <2>1. /\ rest \o held \in Seq(Families) /\ IsInjective(rest \o held)
          /\ ToSet(rest \o held) = ToSet(rest) \cup ToSet(held)
      BY ConcatApart DEF PlacesInv, ChainOK
    <2>2. /\ kept \in Seq(Families) /\ IsInjective(kept)
          /\ ToSet(rest \o held) \cap ToSet(kept) = {}
      BY <2>1 DEF PlacesInv, ChainOK
    <2>3. /\ rest \o held \o kept \in Seq(Families) /\ IsInjective(rest \o held \o kept)
      BY <2>1, <2>2, ConcatApart
    <2>4. ToSet(rest \o held \o kept) \subseteq Families
      BY <2>3, ToSetByIndex
    <2>5. pc = "idle" => rest \o held \o kept = <<>>
      BY DEF PlacesInv, ChainOK
    <2> QED
      BY <2>3, <2>4, <2>5 DEF PlacesInv, StateOK, AgentOK, TypeOK, Values
  <1> QED
    BY <1>1, PlacesInit, PlacesStep, PTL DEF Spec

-----------------------------------------------------------------------------
(* The shared label *)

LEMMA InfoAheadTail ==
    ASSUME NEW s \in Seq(Families), s # <<>>, InfoAhead(s)
    PROVE  /\ InfoAhead(Tail(s))
           /\ Head(s) \in Counters => Info \notin ToSet(s)
  <1>1. /\ Tail(s) \in Seq(Families)
        /\ Len(s) \in Nat /\ Len(s) >= 1 /\ Len(Tail(s)) = Len(s) - 1
        /\ Head(s) = s[1]
        /\ \A i \in 1 .. Len(s) - 1 : Tail(s)[i] = s[i + 1]
        /\ DOMAIN s = 1 .. Len(s) /\ DOMAIN Tail(s) = 1 .. Len(s) - 1
    BY HeadTailProperties, LenProperties, EmptySeq
  <1>2. InfoAhead(Tail(s))
    <2> SUFFICES ASSUME NEW i \in 1 .. Len(s) - 1, NEW j \in 1 .. Len(s) - 1,
                        s[i + 1] = Info, s[j + 1] \in Counters
                 PROVE  i < j
      BY <1>1 DEF InfoAhead
    <2>1. i + 1 \in DOMAIN s /\ j + 1 \in DOMAIN s
      BY <1>1
    <2>2. i + 1 < j + 1
      BY <2>1 DEF InfoAhead
    <2> QED
      BY <2>2
  <1>3. ASSUME s[1] \in Counters, NEW i \in 1 .. Len(s) PROVE s[i] # Info
    <2>1. 1 \in DOMAIN s /\ i \in DOMAIN s /\ ~(i < 1)
      BY <1>1
    <2> QED
      BY <1>3, <2>1 DEF InfoAhead
  <1>4. Head(s) \in Counters => Info \notin ToSet(s)
    BY <1>1, <1>3, ToSetByIndex
  <1> QED
    BY <1>2, <1>4

LEMMA LearnInit == Init => LearnInv
  BY NoResponseType DEF Init, LearnInv

LEMMA LearnStep ==
    ASSUME PlacesInv, LearnInv, [Next]_vars
    PROVE  LearnInv'
  <1>1. /\ conf.share \in BOOLEAN /\ conf.cache \in BOOLEAN /\ missed \in BOOLEAN
        /\ flush \in BOOLEAN /\ ToSet(conf.order) = Families /\ ToSet(<<>>) = {}
        /\ NoResponse.whole = TRUE
    <2>1. ToSet(<<>>) = {}
      BY EmptyAndOne DEF Families
    <2> QED
      BY <2>1, ConfType, NoResponseType DEF PlacesInv, StateOK
  <1>2. CASE (\E c \in Counters : Increment(c)) \/ ProcessRestarts
    <2>1. UNCHANGED <<conf, scraper, inScrape, missed>>
      BY <1>2 DEF Increment, ProcessRestarts
    <2> QED
      BY <2>1 DEF LearnInv, Learnable, Timely, scraper, inScrape
  <1>3. CASE Scrape
    <2>1. /\ pc = "idle" /\ pc' = "parse"
          /\ wanted' = (conf.share /\ (~conf.cache \/ ~cached))
          /\ payload'.whole = (rest' # <<>>)
          /\ UNCHANGED <<conf, flush, cached, labels>>
      BY <1>3 DEF Scrape, scraper
    <2>2. InfoAhead(<<>>)
      BY DEF InfoAhead
    <2>3. CASE rest' = conf.order /\ missed' = missed
      <3>1. Info \in ToSet(rest') /\ rest' # <<>>
        BY <1>1, <2>3 DEF Families
      <3>2. Timely /\ ~conf.start => InfoAhead(rest')
        BY <2>3 DEF Timely
      <3> QED
        BY <1>1, <2>1, <2>3, <3>1, <3>2 DEF LearnInv, Learnable, Timely
    <2>4. CASE rest' = <<>> /\ CutOff
      <3>1. /\ missed' = (missed \/ ~flush \/ (conf.share /\ ~conf.cache))
            /\ ~payload'.whole
        BY <2>1, <2>4 DEF CutOff
      <3>2. Timely' = Timely
        BY <2>1 DEF Timely
      <3>3. InfoAhead(rest')
        BY <2>2, <2>4
      <3>4. ~conf.share => ~labels
        BY DEF LearnInv
      <3>5. CASE conf.share /\ conf.cache
        <4>1. ~missed' => ~missed /\ flush
          BY <1>1, <3>1
        <4>2. ~missed' => cached /\ labels
          BY <3>5, <4>1 DEF LearnInv
        <4> QED
          BY <1>1, <2>1, <3>1, <3>3, <3>5, <4>1, <4>2 DEF LearnInv, Learnable
      <3>6. CASE ~(conf.share /\ conf.cache)
        BY <1>1, <2>1, <3>1, <3>3, <3>4, <3>6 DEF LearnInv, Learnable
      <3> QED
        BY <3>5, <3>6
    <2> QED
      BY <1>3, <2>3, <2>4 DEF Scrape
  <1>4. CASE ParseHeld
    <2>1. /\ rest # <<>> /\ rest \in Seq(Families) /\ IsInjective(rest) /\ rest' = Tail(rest)
          /\ Head(rest) \in Counters
          /\ UNCHANGED <<conf, flush, cached, labels, pc, wanted, missed, payload>>
      BY <1>4 DEF ParseHeld, scraper, PlacesInv, ChainOK
    <2>2. ToSet(rest') = ToSet(rest) \ {Head(rest)} /\ Head(rest) # Info
      BY <2>1, HeadTailApart, ScraperAssumption
    <2>3. InfoAhead(rest) => InfoAhead(rest')
      BY <2>1, InfoAheadTail
    <2> QED
      BY <2>1, <2>2, <2>3 DEF LearnInv, Learnable, Timely
  <1>5. CASE ParseMetric
    <2>1. /\ rest # <<>> /\ rest \in Seq(Families) /\ IsInjective(rest) /\ rest' = Tail(rest)
          /\ labels' = (labels \/ (wanted /\ Head(rest) = Info))
          /\ wanted' = (wanted /\ Head(rest) # Info)
          /\ UNCHANGED <<conf, flush, cached, pc, missed, payload>>
      BY <1>5 DEF ParseMetric, Aggregate, PlacesInv, ChainOK
    <2>2. ToSet(rest') = ToSet(rest) \ {Head(rest)}
      BY <2>1, HeadTailApart
    <2>3. InfoAhead(rest) => InfoAhead(rest')
      BY <2>1, InfoAheadTail
    <2>4. Timely' = Timely /\ Learnable' = Learnable
      BY <2>1 DEF Timely, Learnable
    <2> QED
      BY <2>1, <2>2, <2>3, <2>4 DEF LearnInv
  <1>6. CASE YieldKept
    <2>1. UNCHANGED <<conf, flush, cached, labels, pc, wanted, missed, payload, rest>>
      BY <1>6 DEF YieldKept, scraper
    <2> QED
      BY <2>1 DEF LearnInv, Learnable, Timely
  <1>7. CASE HandlerDrains
    <2>1. /\ pc = "parse" /\ pc' = "drain" /\ ToSet(rest) = {}
          /\ UNCHANGED <<conf, flush, cached, labels, wanted, missed, payload>>
      BY <1>1, <1>7 DEF HandlerDrains, scraper
    <2> QED
      BY <2>1 DEF LearnInv, Learnable
  <1>8. CASE ScrapeEnds
    <2>1. /\ pc # "idle" /\ ToSet(rest) = {} /\ pc' = "idle"
          /\ flush' = TRUE /\ cached' = (conf.share /\ conf.cache) /\ labels' = (labels /\ conf.cache)
          /\ wanted' = FALSE /\ payload' = NoResponse
          /\ UNCHANGED <<conf, missed>>
      BY <1>1, <1>8 DEF ScrapeEnds, Exhausted
    <2>2. conf.share /\ conf.cache /\ ~missed => labels
      BY <2>1 DEF LearnInv, Learnable
    <2> QED
      BY <1>1, <2>1, <2>2 DEF LearnInv
  <1>9. CASE ErrorIgnored
    <2>1. /\ pc = "parse" /\ rest' = <<>>
          /\ missed' = (missed \/ ~flush \/ (conf.share /\ ~conf.cache))
          /\ payload' = [payload EXCEPT !.whole = FALSE]
          /\ UNCHANGED <<conf, pc, flush, cached, labels, wanted>>
      BY <1>9 DEF ErrorIgnored, CutOff, scraper
    <2>2. ~payload'.whole /\ InfoAhead(rest')
      BY <2>1 DEF PlacesInv, StateOK, Responses, InfoAhead
    <2>3. conf.share /\ conf.cache /\ ~missed' => ~missed /\ cached /\ labels
      BY <1>1, <2>1 DEF LearnInv
    <2> QED
      BY <1>1, <2>1, <2>2, <2>3 DEF LearnInv, Learnable
  <1>10. CASE ScrapeRaises
    <2>1. /\ pc' = "idle" /\ wanted' = FALSE /\ labels' = (labels /\ conf.cache)
          /\ payload' = NoResponse
          /\ UNCHANGED <<conf, flush, cached, missed>>
      BY <1>10 DEF ScrapeRaises, FlushAfterError
    <2> QED
      BY <1>1, <2>1 DEF LearnInv
  <1>11. CASE UNCHANGED vars
    BY <1>11 DEF vars, scraper, inScrape, LearnInv, Learnable, Timely
  <1> QED
    BY <1>2, <1>3, <1>4, <1>5, <1>6, <1>7, <1>8, <1>9, <1>10, <1>11 DEF Next

\* The effect of a step that submits the counters in S: they are counted in their
\* only context.
Takes(S) ==
    \A c \in Counters :
        IF c \in S
        THEN /\ Shown(c)' = payload.value[c]
             /\ counted'[c] = counted[c] +
                   (IF Shown(c) # None /\ Shown(c) <= payload.value[c]
                    THEN payload.value[c] - Shown(c)
                    ELSE IF rtFlush THEN payload.value[c] ELSE 0)
        ELSE Shown(c)' = Shown(c) /\ counted'[c] = counted[c]

\* No counter is submitted in another context than its own.
SameElsewhere ==
    \A c \in Counters : \A t \in BOOLEAN : t # conf.share => last'[<<c, t>>] = last[<<c, t>>]

LEMMA NothingTaken ==
    ASSUME UNCHANGED <<conf, agent>>
    PROVE  Takes({}) /\ SameElsewhere
  BY DEF Takes, SameElsewhere, Shown, agent

LEMMA TransformTakes ==
    ASSUME PlacesInv, conf' = conf, NEW m, NEW tagged \in BOOLEAN, Transform(m, tagged),
           m \in Counters => tagged = conf.share
    PROVE  Takes({m} \cap Counters) /\ SameElsewhere
  <1>1. CASE m \notin Counters
    <2>1. {m} \cap Counters = {} /\ UNCHANGED agent
      BY <1>1 DEF Transform
    <2> QED
      BY <2>1, NothingTaken
  <1>2. CASE m \in Counters
    <2>1. /\ tagged = conf.share /\ {m} \cap Counters = {m}
          /\ last \in [Counters \X BOOLEAN -> {None} \cup Values] /\ counted \in [Counters -> Nat]
      BY <1>2 DEF PlacesInv, AgentOK
    <2>2. /\ last' = [last EXCEPT ![<<m, tagged>>] = payload.value[m]]
          /\ counted' = [counted EXCEPT ![m] = counted[m] +
                           (IF last[<<m, tagged>>] # None /\ last[<<m, tagged>>] <= payload.value[m]
                            THEN payload.value[m] - last[<<m, tagged>>]
                            ELSE IF rtFlush THEN payload.value[m] ELSE 0)]
      BY <1>2 DEF Transform, Count
    <2>3. \A c \in Counters : \A t \in BOOLEAN :
             last'[<<c, t>>] = IF c = m /\ t = tagged THEN payload.value[m] ELSE last[<<c, t>>]
      BY <2>1, <2>2
    <2>4. \A c \in Counters : c # m => counted'[c] = counted[c]
      BY <2>1, <2>2
    <2>5. counted'[m] = counted[m] +
             (IF Shown(m) # None /\ Shown(m) <= payload.value[m]
              THEN payload.value[m] - Shown(m)
              ELSE IF rtFlush THEN payload.value[m] ELSE 0)
      BY <1>2, <2>1, <2>2 DEF Shown
    <2>6. \A c \in Counters : Shown(c)' = IF c = m THEN payload.value[m] ELSE Shown(c)
      BY <2>1, <2>3 DEF Shown
    <2>7. SameElsewhere
      BY <2>1, <2>3 DEF SameElsewhere
    <2> QED
      BY <2>1, <2>4, <2>5, <2>6, <2>7 DEF Takes
  <1> QED
    BY <1>1, <1>2

\* A counter that goes on has the label, if labels are shared and known in time.
LEMMA GoesOnTagged ==
    ASSUME PlacesInv, LearnInv, OnTime, ParseMetric, ~Keeps, Head(rest) \in Counters
    PROVE  labels' = conf.share
  <1>1. /\ rest # <<>> /\ rest \in Seq(Families)
        /\ pc = "drain" \/ (pc = "parse" /\ ~HandlerUsed)
        /\ labels' = (labels \/ (wanted /\ Head(rest) = Info))
        /\ conf.share \in BOOLEAN /\ labels \in BOOLEAN /\ wanted \in BOOLEAN
        /\ Head(rest) # Info
    BY ConfType, ScraperAssumption DEF ParseMetric, Aggregate, PlacesInv, StateOK, ChainOK
  <1>2. CASE ~conf.share
    BY <1>1, <1>2 DEF LearnInv
  <1>3. CASE conf.share
    <2> SUFFICES ASSUME ~labels PROVE FALSE
      BY <1>1, <1>3
    <2>1. Learnable /\ (conf.cache => flush \/ Timely)
      BY <1>3 DEF OnTime
    <2>2. wanted /\ Info \in ToSet(rest) /\ pc = "parse"
      BY <1>1, <1>3, <2>1 DEF LearnInv
    <2>3. conf.cache /\ ~missed
      BY <2>1, <2>2 DEF Keeps, Learnable
    <2>4. ~flush
      BY <1>3, <2>3 DEF LearnInv
    <2>5. ~conf.start /\ Timely
      BY <1>1, <2>1, <2>2, <2>3, <2>4 DEF HandlerUsed
    <2>6. InfoAhead(rest)
      BY <1>3, <2>2, <2>3, <2>5 DEF LearnInv
    <2> QED
      BY <1>1, <2>2, <2>6, InfoAheadTail
  <1> QED
    BY <1>2, <1>3

LEMMA ParseMetricTakes ==
    ASSUME PlacesInv, LearnInv, OnTime, ParseMetric
    PROVE  Takes(IF Keeps THEN {} ELSE {Head(rest)} \cap Counters) /\ SameElsewhere
  <1>1. conf' = conf /\ labels' \in BOOLEAN
    BY DEF ParseMetric, Aggregate
  <1>2. CASE Keeps
    <2>1. UNCHANGED agent
      BY <1>2 DEF ParseMetric, Aggregate
    <2> QED
      BY <1>1, <1>2, <2>1, NothingTaken
  <1>3. CASE ~Keeps
    <2>1. Transform(Head(rest), labels')
      BY <1>3 DEF ParseMetric, Aggregate
    <2>2. Head(rest) \in Counters => labels' = conf.share
      BY <1>3, GoesOnTagged
    <2>3. Takes({Head(rest)} \cap Counters) /\ SameElsewhere
      BY <1>1, <2>1, <2>2, TransformTakes
    <2> QED
      BY <1>3, <2>3
  <1> QED
    BY <1>2, <1>3

LEMMA YieldKeptTakes ==
    ASSUME PlacesInv, LearnInv, OnTime, YieldKept
    PROVE  Takes({Head(kept)} \cap Counters) /\ SameElsewhere
  <1>1. /\ conf' = conf /\ labels \in BOOLEAN /\ conf.share \in BOOLEAN
        /\ Transform(Head(kept), labels) /\ (~wanted \/ rest = <<>>)
    BY ConfType DEF YieldKept, Exhausted, PlacesInv, StateOK
  <1>2. pc # "idle" /\ ~conf.cache
    BY YieldKeptPlaces
  <1>3. labels = conf.share
    <2>1. ToSet(<<>>) = {}
      BY EmptyAndOne DEF Families
    <2> QED
      BY <1>1, <1>2, <2>1 DEF LearnInv, OnTime
  <1> QED
    BY <1>1, <1>3, TransformTakes

\* What the other steps leave alone.
LEMMA NothingSubmitted ==
    ASSUME [Next]_vars, ~ParseMetric, ~YieldKept
    PROVE  UNCHANGED agent
  BY DEF Next, vars, Increment, ProcessRestarts, Scrape, ParseHeld, HandlerDrains, ScrapeEnds,
     ErrorIgnored, ScrapeRaises

\* Shared labels that are not cached are on every counter of a whole response, wherever
\* Info stands; cached ones on every counter from the second scrape on, if the first
\* saw whole responses, and on those of the first if Info comes ahead of them.
THEOREM AlwaysLabelled == Spec => AllLabelled
  <1> DEFINE Inv == PlacesInv /\ LearnInv
             Labelled == conf.share /\ (IF conf.cache THEN ~missed /\ (flush \/ Timely)
                                                      ELSE payload.whole)
                            => \A c \in Counters : last'[<<c, FALSE>>] = last[<<c, FALSE>>]
  <1>1. Init => Inv
    BY PlacesInit, LearnInit
  <1>2. Inv /\ [Next]_vars => Inv'
    BY PlacesStep, LearnStep
  <1>3. Inv /\ [Next]_vars => [Labelled]_vars
    <2> SUFFICES ASSUME Inv, [Next]_vars, conf.share,
                        IF conf.cache THEN ~missed /\ (flush \/ Timely) ELSE payload.whole,
                        NEW c \in Counters
                 PROVE  last'[<<c, FALSE>>] = last[<<c, FALSE>>]
      OBVIOUS
    <2>1. OnTime
      BY DEF OnTime, Learnable
    <2>2. CASE ~ParseMetric /\ ~YieldKept
      BY <2>2, NothingSubmitted DEF agent
    <2>3. CASE ParseMetric \/ YieldKept
      <3>1. SameElsewhere /\ conf.share \in BOOLEAN
        BY <2>1, <2>3, ParseMetricTakes, YieldKeptTakes, ConfType DEF PlacesInv, StateOK
      <3> QED
        BY <3>1 DEF SameElsewhere
    <2> QED
      BY <2>2, <2>3
  <1> QED
    BY <1>1, <1>2, <1>3, PTL DEF Spec, AllLabelled

-----------------------------------------------------------------------------
(* What a scrape leaves counted *)

\* What the theorems below assume of the past held before each step too, and then
\* counters are submitted with the label.
LEMMA ScopeShrinks ==
    ASSUME PlacesInv, [Next]_vars
    PROVE  (Clean' => Clean) /\ (Scope' => Scope)
  BY SameConf DEF Clean, Scope, OneContext, Timely

LEMMA ScopeOnTime == ASSUME LearnInv, OneContext PROVE OnTime
  BY DEF LearnInv, OneContext, OnTime, Learnable

LEMMA CompleteInit == Init => CompleteInv
  BY DEF Init, CompleteInv

LEMMA CompleteStep ==
    ASSUME PlacesInv, LearnInv, CompleteInv, [Next]_vars
    PROVE  CompleteInv'
  <1> SUFFICES ASSUME Clean'
               PROVE  /\ pc' # "idle" /\ payload'.whole =>
                            \A c \in Counters : c \in OnTheWay' \/ Shown(c)' = payload'.value[c]
                      /\ flush' => \A c \in Counters : Shown(c)' # None
    BY DEF CompleteInv
  <1>1. /\ pc # "idle" /\ payload.whole =>
              \A c \in Counters : c \in OnTheWay \/ Shown(c) = payload.value[c]
        /\ flush => \A c \in Counters : Shown(c) # None
        /\ OnTime /\ ~missed
    BY ScopeShrinks, ScopeOnTime DEF CompleteInv, Clean
  <1>2. /\ \A c \in Counters : payload.value[c] # None
        /\ ToSet(<<>>) = {}
    <2>1. \A c \in Counters : payload.value[c] \in Values
      BY DEF PlacesInv, StateOK, Responses
    <2>2. ToSet(<<>>) = {}
      BY EmptyAndOne DEF Families
    <2> QED
      BY <2>1, <2>2, ValuesType
  <1>3. CASE (\E c \in Counters : Increment(c)) \/ ProcessRestarts
    <2>1. UNCHANGED <<conf, scraper, inScrape, agent>>
      BY <1>3 DEF Increment, ProcessRestarts
    <2> QED
      BY <1>1, <2>1 DEF OnTheWay, Shown, scraper, inScrape, agent
  <1>4. CASE Scrape
    <2>1. /\ payload'.whole => rest' = conf.order
          /\ UNCHANGED <<conf, flush, last>>
      BY <1>4 DEF Scrape, scraper, agent
    <2>2. payload'.whole => \A c \in Counters : c \in OnTheWay'
      BY <2>1, ConfType DEF OnTheWay, PlacesInv, StateOK, Families
    <2> QED
      BY <1>1, <2>1, <2>2 DEF Shown
  <1>5. CASE ParseHeld
    <2>1. /\ rest # <<>> /\ pc = "parse" /\ rest' = Tail(rest) /\ held' = Append(held, Head(rest))
          /\ UNCHANGED <<conf, flush, last, payload, kept>>
      BY <1>5 DEF ParseHeld, scraper, agent
    <2>2. /\ Head(rest) \in Families /\ Head(rest) \in ToSet(rest)
          /\ ToSet(rest') = ToSet(rest) \ {Head(rest)}
      BY <2>1, HeadTailApart DEF PlacesInv, ChainOK
    <2>3. ToSet(held') = ToSet(held) \cup {Head(rest)}
      <3>1. held \in Seq(Families) /\ IsInjective(held) /\ Head(rest) \notin ToSet(held)
        BY <2>2 DEF PlacesInv, ChainOK
      <3> QED
        BY <2>1, <2>2, <3>1, AppendApart
    <2>4. OnTheWay' = OnTheWay
      BY <2>1, <2>2, <2>3 DEF OnTheWay
    <2> QED
      BY <1>1, <2>1, <2>4 DEF Shown
  <1>6. ASSUME NEW S, Takes(S), pc # "idle", UNCHANGED <<flush, payload>>,
               \A c \in Counters \ S : c \in OnTheWay => c \in OnTheWay'
        PROVE  /\ pc' # "idle" /\ payload'.whole =>
                     \A c \in Counters : c \in OnTheWay' \/ Shown(c)' = payload'.value[c]
               /\ flush' => \A c \in Counters : Shown(c)' # None
    <2>1. ASSUME NEW c \in Counters, c \in S
          PROVE  Shown(c)' = payload'.value[c] /\ Shown(c)' # None
      BY <1>2, <1>6, <2>1 DEF Takes
    <2>2. ASSUME NEW c \in Counters, c \notin S
          PROVE  Shown(c)' = Shown(c)
      BY <1>6, <2>2 DEF Takes
    <2> QED
      BY <1>1, <1>6, <2>1, <2>2
  <1>7. CASE ParseMetric
    <2> DEFINE S == IF Keeps THEN {} ELSE {Head(rest)} \cap Counters
    <2>1. Takes(S) /\ pc # "idle" /\ UNCHANGED <<flush, payload, held>>
      BY <1>1, <1>7, ParseMetricTakes DEF ParseMetric
    <2>2. \A c \in Counters \ S : c \in OnTheWay => c \in OnTheWay'
      BY <1>7, <2>1, AggregatorPlaces DEF OnTheWay
    <2> HIDE DEF S
    <2> QED
      BY <1>6, <2>1, <2>2
  <1>8. CASE YieldKept
    <2>1. Takes({Head(kept)} \cap Counters) /\ UNCHANGED <<flush, payload, rest, held>>
      BY <1>1, <1>8, YieldKeptTakes DEF YieldKept, scraper
    <2>2. pc # "idle" /\ ToSet(kept') = ToSet(kept) \ {Head(kept)}
      BY <1>8, YieldKeptPlaces
    <2>3. \A c \in Counters \ ({Head(kept)} \cap Counters) : c \in OnTheWay => c \in OnTheWay'
      BY <2>1, <2>2 DEF OnTheWay
    <2> QED
      BY <1>6, <2>1, <2>2, <2>3
  <1>9. CASE HandlerDrains
    <2>1. /\ rest = <<>> /\ rest' = held /\ pc = "parse" /\ UNCHANGED <<conf, flush, last, payload, kept>>
          /\ held' = <<>>
      BY <1>9 DEF HandlerDrains, Released, scraper, agent
    <2>2. OnTheWay' = OnTheWay
      BY <1>2, <2>1 DEF OnTheWay
    <2> QED
      BY <1>1, <2>1, <2>2 DEF Shown
  <1>10. CASE ScrapeEnds
    <2>1. /\ pc # "idle" /\ pc' = "idle" /\ rest = <<>> /\ held = <<>> /\ kept = <<>>
          /\ UNCHANGED <<conf, last>>
      BY <1>10 DEF ScrapeEnds, Exhausted, agent, PlacesInv, ChainOK
    <2>2. ASSUME NEW c \in Counters PROVE Shown(c) # None
      <3>1. CASE payload.whole
        BY <1>1, <1>2, <2>1, <3>1 DEF OnTheWay
      <3>2. CASE ~payload.whole
        BY <1>1, <3>2 DEF LearnInv
      <3> QED
        BY <3>1, <3>2
    <2> QED
      BY <2>1, <2>2 DEF Shown
  <1>11. CASE ErrorIgnored
    <2>1. ~payload'.whole /\ UNCHANGED <<conf, flush, last>>
      BY <1>11 DEF ErrorIgnored, scraper, agent, PlacesInv, StateOK, Responses
    <2> QED
      BY <1>1, <2>1 DEF Shown
  <1>12. CASE ScrapeRaises
    <2>1. pc' = "idle" /\ flush' = flush /\ UNCHANGED <<conf, last>>
      BY <1>12 DEF ScrapeRaises, FlushAfterError, agent
    <2> QED
      BY <1>1, <2>1 DEF Shown
  <1>13. CASE UNCHANGED vars
    BY <1>1, <1>13 DEF OnTheWay, Shown, vars, scraper, inScrape, agent
  <1> QED
    BY <1>3, <1>4, <1>5, <1>7, <1>8, <1>9, <1>10, <1>11, <1>12, <1>13 DEF Next

LEMMA FlushInit == Init => FlushInv
  BY DEF Init, FlushInv

LEMMA FlushStep ==
    ASSUME PlacesInv, FlushInv, [Next]_vars
    PROVE  FlushInv'
  <1>1. CASE (\E c \in Counters : Increment(c)) \/ ProcessRestarts
    <2>1. UNCHANGED <<conf, scraper, inScrape, agent>> /\ (newer => newer')
      BY <1>1 DEF Increment, ProcessRestarts
    <2> QED
      BY <2>1 DEF FlushInv, scraper, inScrape
  <1>2. CASE Scrape
    BY <1>2 DEF Scrape, endpoint, scraper, FlushInv
  <1>3. CASE ParseHeld
    BY <1>3 DEF ParseHeld, endpoint, scraper, FlushInv
  <1>4. CASE ParseMetric
    BY <1>4 DEF ParseMetric, endpoint, FlushInv
  <1>5. CASE YieldKept
    BY <1>5 DEF YieldKept, endpoint, scraper, FlushInv
  <1>6. CASE HandlerDrains
    BY <1>6 DEF HandlerDrains, Decided, endpoint, scraper, FlushInv
  <1>7. CASE ScrapeEnds
    BY <1>7 DEF ScrapeEnds, endpoint, FlushInv
  <1>8. CASE ErrorIgnored
    <2>1. payload'.newer = payload.newer
      BY <1>8 DEF ErrorIgnored, PlacesInv, StateOK, Responses
    <2> QED
      BY <1>8, <2>1 DEF ErrorIgnored, endpoint, scraper, FlushInv
  <1>9. CASE ScrapeRaises
    BY <1>9 DEF ScrapeRaises, endpoint, FlushInv
  <1>10. CASE UNCHANGED vars
    BY <1>10 DEF vars, endpoint, scraper, inScrape, FlushInv
  <1> QED
    BY <1>1, <1>2, <1>3, <1>4, <1>5, <1>6, <1>7, <1>8, <1>9, <1>10 DEF Next

-----------------------------------------------------------------------------
(* No more is counted than there was *)

LEMMA BalanceKept ==
    ASSUME NEW v, NEW p, NEW s, NEW k, NEW w, NEW n, NEW pn, Balance(v, p, s, k, w, n, pn)
    PROVE  /\ k <= s
           /\ Balance(v + 1, p, s + 1, k, w, n, pn)
           /\ Balance(0, p, s, k, w, TRUE, pn)
           /\ Balance(v, v, s, k, w, n, n)
  <1>1. k <= s
    BY DEF Balance, Spare
  <1>2. Balance(v + 1, p, s + 1, k, w, n, pn)
    BY DEF Balance, Spare, None
  <1>3. Balance(0, p, s, k, w, TRUE, pn)
    BY DEF Balance, Spare, None
  <1>4. Balance(v, v, s, k, w, n, n)
    BY DEF Balance, Spare, None
  <1> QED
    BY <1>1, <1>2, <1>3, <1>4

\* The response is counted: by the difference, or as a first value, which may be
\* flushed only of a process younger than the Agent.
LEMMA BalanceCounted ==
    ASSUME NEW v, NEW p, NEW s, NEW k, NEW w, NEW n, NEW pn, NEW r,
           Balance(v, p, s, k, w, n, pn), r /\ w = None => pn
    PROVE  Balance(v, p, s, k + (IF w # None /\ w <= p THEN p - w ELSE IF r THEN p ELSE 0),
                   p, n, pn)
  <1>1. CASE w # None /\ w <= p
    BY <1>1 DEF Balance, Spare, None
  <1>2. CASE w # None /\ ~(w <= p)
    BY <1>2 DEF Balance, Spare, None
  <1>3. CASE w = None
    BY <1>3 DEF Balance, Spare, None
  <1> QED
    BY <1>1, <1>2, <1>3

LEMMA AmountInit == Init => AmountInv
  <1> SUFFICES ASSUME Init, NEW c \in Counters PROVE Covered(c)
    BY DEF AmountInv
  <1>1. /\ value[c] \in Nat /\ (newer => value[c] = 0) /\ Seen[c] = value[c]
        /\ SeenNewer = newer /\ since[c] = 0 /\ counted[c] = 0
    BY ValuesType DEF Init, Seen, SeenNewer
  <1>2. Shown(c) = None
    BY ConfType DEF Init, Shown
  <1> QED
    BY <1>1, <1>2 DEF Covered, Balance, Spare, None

\* A first value is flushed of a process younger than the Agent only.
LEMMA FirstIsYoung ==
    ASSUME CompleteInv, FlushInv, Scope, pc # "idle",
           NEW c \in Counters, rtFlush, Shown(c) = None
    PROVE  payload.newer
  BY DEF CompleteInv, FlushInv, Scope, Clean

LEMMA TakesAmount ==
    ASSUME CompleteInv, FlushInv, Scope, AmountInv, pc # "idle",
           NEW S, Takes(S), UNCHANGED <<conf, endpoint, payload, pc>>
    PROVE  AmountInv'
  <1> SUFFICES ASSUME NEW c \in Counters PROVE Covered(c)'
    BY DEF AmountInv
  <1>1. Balance(value[c], payload.value[c], since[c], counted[c], Shown(c), newer, payload.newer)
    BY DEF AmountInv, Covered, Seen, SeenNewer
  <1>2. UNCHANGED <<value, since, newer, payload>>
    BY DEF endpoint
  <1>3. CASE c \in S
    <2>1. rtFlush /\ Shown(c) = None => payload.newer
      BY FirstIsYoung
    <2>2. Balance(value[c], payload.value[c], since[c],
                  counted[c] + (IF Shown(c) # None /\ Shown(c) <= payload.value[c]
                                THEN payload.value[c] - Shown(c)
                                ELSE IF rtFlush THEN payload.value[c] ELSE 0),
                  payload.value[c], newer, payload.newer)
      BY <1>1, <2>1, BalanceCounted, Zenon
    <2> QED
      BY <1>2, <1>3, <2>2 DEF Covered, Takes, Seen, SeenNewer
  <1>4. CASE c \notin S
    BY <1>1, <1>2, <1>4 DEF Covered, Takes, Seen, SeenNewer
  <1> QED
    BY <1>3, <1>4

LEMMA AmountStep ==
    ASSUME PlacesInv, LearnInv, CompleteInv, FlushInv, AmountInv, [Next]_vars
    PROVE  AmountInv'
  <1> SUFFICES ASSUME Scope' PROVE AmountInv'
    BY DEF AmountInv
  <1>1. Scope /\ OnTime
    BY ScopeShrinks, ScopeOnTime DEF Scope
  <1>2. CASE ParseMetric
    <2>1. PICK S : Takes(S)
      BY <1>1, <1>2, ParseMetricTakes
    <2>2. pc # "idle" /\ UNCHANGED <<conf, endpoint, payload, pc>>
      BY <1>2 DEF ParseMetric
    <2> QED
      BY <1>1, <2>1, <2>2, TakesAmount
  <1>3. CASE YieldKept
    <2>1. PICK S : Takes(S)
      BY <1>1, <1>3, YieldKeptTakes
    <2>2. pc # "idle" /\ UNCHANGED <<conf, endpoint, payload, pc>>
      BY <1>3, YieldKeptPlaces DEF YieldKept
    <2> QED
      BY <1>1, <2>1, <2>2, TakesAmount
  <1>4. ASSUME NEW c \in Counters, ~ParseMetric, ~YieldKept PROVE Covered(c)'
    <2>1. Covered(c)
      BY <1>1 DEF AmountInv
    <2>2. /\ Balance(value[c], value[c], since[c], counted[c], Shown(c), newer, newer)
          /\ Balance(value[c] + 1, Seen[c], since[c] + 1, counted[c], Shown(c), newer, SeenNewer)
          /\ Balance(value[c] + 1, value[c] + 1, since[c] + 1, counted[c], Shown(c), newer, newer)
          /\ Balance(0, Seen[c], since[c], counted[c], Shown(c), TRUE, SeenNewer)
          /\ Balance(0, 0, since[c], counted[c], Shown(c), TRUE, TRUE)
      BY <2>1, BalanceKept, Zenon DEF Covered
    <2>3. UNCHANGED <<conf, agent>> /\ counted'[c] = counted[c] /\ Shown(c)' = Shown(c)
      <3>1. UNCHANGED <<conf, agent>>
        BY <1>4, SameConf, NothingSubmitted
      <3> QED
        BY <3>1 DEF agent, Shown
    <2>4. ASSUME NEW d \in Counters, Increment(d) PROVE Covered(c)'
      <3>1. /\ value' = [value EXCEPT ![d] = value[d] + 1]
            /\ since' = [since EXCEPT ![d] = since[d] + 1]
            /\ UNCHANGED <<newer, payload, pc>>
            /\ value \in [Counters -> Values] /\ since \in [Counters -> Nat]
        BY <2>4 DEF Increment, inScrape, PlacesInv, StateOK
      <3>2. CASE c = d
        <4>1. value'[c] = value[c] + 1 /\ since'[c] = since[c] + 1
          BY <3>1, <3>2
        <4>2. CASE pc = "idle"
          BY <2>2, <2>3, <3>1, <4>1, <4>2 DEF Covered, Seen, SeenNewer
        <4>3. CASE pc # "idle"
          BY <2>2, <2>3, <3>1, <4>1, <4>3 DEF Covered, Seen, SeenNewer
        <4> QED
          BY <4>2, <4>3
      <3>3. CASE c # d
        <4>1. value'[c] = value[c] /\ since'[c] = since[c]
          BY <3>1, <3>3
        <4> QED
          BY <2>1, <2>3, <3>1, <4>1 DEF Covered, Seen, SeenNewer
      <3> QED
        BY <3>2, <3>3
    <2>5. CASE ProcessRestarts
      <3>1. value'[c] = 0 /\ newer' = TRUE /\ UNCHANGED <<since, payload, pc>>
        BY <2>5 DEF ProcessRestarts, inScrape
      <3>2. CASE pc = "idle"
        BY <2>2, <2>3, <3>1, <3>2 DEF Covered, Seen, SeenNewer
      <3>3. CASE pc # "idle"
        BY <2>2, <2>3, <3>1, <3>3 DEF Covered, Seen, SeenNewer
      <3> QED
        BY <3>2, <3>3
    <2>6. CASE Scrape
      <3>1. /\ pc = "idle" /\ pc' = "parse"
            /\ payload'.value = value /\ payload'.newer = newer /\ UNCHANGED <<value, since, newer>>
        BY <2>6 DEF Scrape, endpoint
      <3> QED
        BY <2>2, <2>3, <3>1 DEF Covered, Seen, SeenNewer
    <2>7. CASE ScrapeEnds \/ ScrapeRaises
      <3>1. pc' = "idle" /\ UNCHANGED <<value, since, newer>>
        BY <2>7 DEF ScrapeEnds, ScrapeRaises, endpoint
      <3> QED
        BY <2>2, <2>3, <3>1 DEF Covered, Seen, SeenNewer
    <2>8. CASE ParseHeld \/ HandlerDrains \/ ErrorIgnored \/ UNCHANGED vars
      <3>1. /\ UNCHANGED <<value, since, newer>> /\ (pc' = "idle" <=> pc = "idle")
            /\ payload'.value = payload.value /\ payload'.newer = payload.newer
        BY <2>8 DEF ParseHeld, HandlerDrains, ErrorIgnored, vars, endpoint, inScrape, PlacesInv,
           StateOK, Responses
      <3> QED
        BY <2>1, <2>3, <3>1 DEF Covered, Seen, SeenNewer
    <2> QED
      BY <1>4, <2>4, <2>5, <2>6, <2>7, <2>8 DEF Next
  <1> QED
    BY <1>2, <1>3, <1>4 DEF AmountInv

\* "decide whether zero initial value can be assumed for counters": in a context of
\* its own, and if no response that was not whole has hidden the first values of an old
\* process, no counter is counted for more than it has counted since the Agent started,
\* through failed scrapes, later empty responses and restarts of the process.
THEOREM NeverInflates == Spec => []NoInflation
  <1> DEFINE Inv == PlacesInv /\ LearnInv /\ CompleteInv /\ FlushInv /\ AmountInv
  <1>1. Init => Inv
    BY PlacesInit, LearnInit, CompleteInit, FlushInit, AmountInit
  <1>2. Inv /\ [Next]_vars => Inv'
    BY PlacesStep, LearnStep, CompleteStep, FlushStep, AmountStep
  <1>3. Inv => NoInflation
    <2> SUFFICES ASSUME Inv, Scope, NEW c \in Counters PROVE counted[c] <= since[c]
      BY DEF NoInflation, Scope
    <2>1. Covered(c)
      BY DEF AmountInv
    <2> QED
      BY <2>1, BalanceKept, Zenon DEF Covered
  <1> QED
    BY <1>1, <1>2, <1>3, PTL DEF Spec

-----------------------------------------------------------------------------
(* All of a young process is counted *)

LEMMA YoungInit == Init => YoungInv
  <1> SUFFICES ASSUME Init PROVE DecideInv /\ BirthInv
    BY DEF YoungInv
  <1>1. DecideInv
    BY DEF Init, DecideInv
  <1>2. ASSUME NEW c \in Counters
        PROVE  /\ Shown(c) <= Seen[c] /\ Seen[c] <= value[c]
               /\ counted[c] = IF Shown(c) = None THEN 0 ELSE Shown(c)
    <2>1. /\ value[c] \in Nat /\ Seen[c] = value[c] /\ counted[c] = 0
      BY ValuesType DEF Init, Seen
    <2>2. Shown(c) = None
      BY ConfType DEF Init, Shown
    <2> QED
      BY <2>1, <2>2 DEF None
  <1> QED
    BY <1>1, <1>2 DEF BirthInv

LEMMA DecideStep ==
    ASSUME PlacesInv, conf.start, Clean', DecideInv, [Next]_vars
    PROVE  DecideInv'
  <1>1. /\ rtFlush \in BOOLEAN /\ recent \in BOOLEAN /\ flush \in BOOLEAN
        /\ restarts \in Nat /\ ToSet(<<>>) = {} /\ Info # Pst /\ Pst \notin Counters
    <2>1. ToSet(<<>>) = {}
      BY EmptyAndOne DEF Families
    <2> QED
      BY <2>1, ScraperAssumption DEF PlacesInv, StateOK
  <1>2. CASE (\E c \in Counters : Increment(c)) \/ ProcessRestarts
    <2>1. /\ UNCHANGED <<conf, scraper, inScrape>>
          /\ UNCHANGED <<newer, restarts>> \/ restarts' = restarts + 1
      BY <1>2 DEF Increment, ProcessRestarts
    <2> QED
      BY <1>1, <2>1 DEF DecideInv, HandlerUsed, scraper, inScrape
  <1>3. CASE Scrape
    <2>1. /\ pc' = "parse" /\ kept' = <<>> /\ payload'.newer = newer
          /\ rtFlush' = flush /\ UNCHANGED <<flush, newer, restarts>>
      BY <1>3 DEF Scrape, endpoint, scraper
    <2>2. ~flush' => rest' = conf.order
      BY <1>3, <2>1 DEF Scrape, CutOff, Clean
    <2>3. ~flush' => Pst \in ToSet(rest')
      BY <2>2, ConfType DEF PlacesInv, StateOK, Families
    <2> QED
      BY <1>1, <2>1, <2>3 DEF DecideInv, HandlerUsed
  <1>4. CASE ParseHeld
    <2>1. /\ rest # <<>> /\ rest' = Tail(rest) /\ Head(rest) \in Counters
          /\ UNCHANGED <<conf, flush, newer, restarts, pc, payload, kept, recent, rtFlush>>
      BY <1>4 DEF ParseHeld, scraper, endpoint
    <2>2. ToSet(rest') = ToSet(rest) \ {Head(rest)}
      BY <2>1, HeadTailApart DEF PlacesInv, ChainOK
    <2> QED
      BY <1>1, <2>1, <2>2 DEF DecideInv, HandlerUsed
  <1>5. CASE ParseMetric
    <2>1. /\ pc = "drain" \/ (pc = "parse" /\ ~(HandlerUsed /\ Head(rest) \in Counters))
          /\ UNCHANGED <<conf, newer, restarts, flush, pc, payload, rtFlush>>
          /\ recent' = (recent \/ (Head(rest) = Pst /\ payload.newer))
      BY <1>5 DEF ParseMetric, endpoint
    <2>2. /\ ToSet(rest') = ToSet(rest) \ {Head(rest)}
          /\ ToSet(kept') \subseteq ToSet(kept) \cup {Head(rest)}
      BY <1>5, AggregatorPlaces
    <2>3. HandlerUsed' = HandlerUsed
      BY <2>1 DEF HandlerUsed
    <2>4. pc = "parse" /\ HandlerUsed => ToSet(kept') \cap Counters = {}
      <3> SUFFICES ASSUME pc = "parse", HandlerUsed, NEW c \in ToSet(kept') PROVE c \notin Counters
        OBVIOUS
      <3>1. ToSet(kept) \cap Counters = {} /\ Head(rest) \notin Counters
        BY <2>1 DEF DecideInv
      <3> QED
        BY <2>2, <3>1
    <2>5. pc = "parse" /\ HandlerUsed /\ payload.newer => Pst \in ToSet(rest') \/ recent'
      BY <1>1, <2>1, <2>2 DEF DecideInv
    <2> QED
      BY <2>1, <2>3, <2>4, <2>5 DEF DecideInv
  <1>6. CASE YieldKept
    <2>1. UNCHANGED <<conf, newer, restarts, flush, pc, rest, payload, recent, rtFlush>>
      BY <1>6 DEF YieldKept, endpoint, scraper
    <2>2. ToSet(kept') \subseteq ToSet(kept)
      BY <1>6, YieldKeptPlaces
    <2> QED
      BY <2>1, <2>2 DEF DecideInv, HandlerUsed
  <1>7. CASE HandlerDrains
    <2>1. /\ pc = "parse" /\ rest = <<>> /\ HandlerUsed /\ pc' = "drain" /\ rtFlush' = (rtFlush \/ recent)
          /\ UNCHANGED <<flush, newer, restarts, payload>>
      BY <1>7 DEF HandlerDrains, Decided, scraper, endpoint
    <2> QED
      BY <1>1, <2>1 DEF DecideInv, HandlerUsed
  <1>8. CASE ScrapeEnds \/ ScrapeRaises
    <2>1. pc' = "idle"
      BY <1>8 DEF ScrapeEnds, ScrapeRaises
    <2> QED
      BY <2>1 DEF DecideInv
  <1>9. CASE ErrorIgnored
    <2>1. /\ flush /\ UNCHANGED <<conf, newer, restarts, flush, pc, rtFlush>>
          /\ payload'.newer = payload.newer
      BY <1>9 DEF ErrorIgnored, CutOff, Clean, endpoint, scraper, PlacesInv, StateOK, Responses
    <2> QED
      BY <2>1 DEF DecideInv, HandlerUsed
  <1>10. CASE UNCHANGED vars
    BY <1>10 DEF vars, endpoint, scraper, inScrape, DecideInv, HandlerUsed
  <1> QED
    BY <1>2, <1>3, <1>4, <1>5, <1>6, <1>7, <1>8, <1>9, <1>10 DEF Next

\* No counter of a young process is counted before its first value may be flushed.
LEMMA TakesBirth ==
    ASSUME PlacesInv, BirthInv, pc # "idle", NEW S, Takes(S),
           UNCHANGED <<conf, endpoint, payload, pc>>,
           newer /\ restarts = 0 /\ S # {} => rtFlush
    PROVE  BirthInv'
  <1>1. UNCHANGED <<value, newer, restarts, payload, pc>>
    BY DEF endpoint
  <1> SUFFICES ASSUME restarts = 0, NEW c \in Counters
               PROVE  /\ Shown(c)' <= payload.value[c] /\ payload.value[c] <= value[c]
                      /\ newer => counted'[c] = IF Shown(c)' = None THEN 0 ELSE Shown(c)'
    BY <1>1 DEF BirthInv, Seen
  <1>2. /\ Shown(c) <= payload.value[c] /\ payload.value[c] <= value[c]
        /\ newer => counted[c] = IF Shown(c) = None THEN 0 ELSE Shown(c)
    BY DEF BirthInv, Seen
  <1>3. CASE c \in S
    <2>1. payload.value[c] \in Nat
      BY ValuesType DEF PlacesInv, StateOK, Responses
    <2>2. Shown(c) \in Nat \cup {None}
      <3>1. Shown(c) \in {None} \cup Values
        BY ConfType DEF PlacesInv, StateOK, AgentOK, Shown
      <3> QED
        BY <3>1, ValuesType
    <2>3. /\ Shown(c)' = payload.value[c]
          /\ counted'[c] = counted[c] +
                   (IF Shown(c) # None /\ Shown(c) <= payload.value[c]
                    THEN payload.value[c] - Shown(c)
                    ELSE IF rtFlush THEN payload.value[c] ELSE 0)
      BY <1>3 DEF Takes
    <2>4. newer => rtFlush
      BY <1>3
    <2> QED
      BY <1>2, <2>1, <2>2, <2>3, <2>4 DEF None
  <1>4. CASE c \notin S
    BY <1>2, <1>4 DEF Takes
  <1> QED
    BY <1>3, <1>4

LEMMA BirthStep ==
    ASSUME PlacesInv, LearnInv, conf.start, Clean, DecideInv, BirthInv, [Next]_vars
    PROVE  BirthInv'
  <1>1. OnTime
    BY ScopeOnTime DEF Clean
  <1>2. CASE ParseMetric
    <2> DEFINE S == IF Keeps THEN {} ELSE {Head(rest)} \cap Counters
    <2>1. /\ pc = "drain" \/ (pc = "parse" /\ ~(HandlerUsed /\ Head(rest) \in Counters))
          /\ UNCHANGED <<conf, endpoint, payload, pc>>
      BY <1>2 DEF ParseMetric
    <2>2. Takes(S) /\ pc # "idle"
      BY <1>1, <1>2, <2>1, ParseMetricTakes
    <2>3. ASSUME newer, restarts = 0, S # {} PROVE rtFlush
      <3>1. CASE pc = "drain" \/ flush
        BY <2>2, <2>3, <3>1 DEF DecideInv
      <3>2. CASE pc = "parse" /\ ~flush
        BY <2>1, <2>3, <3>2 DEF HandlerUsed
      <3> QED
        BY <2>1, <3>1, <3>2
    <2> HIDE DEF S
    <2> QED
      BY <2>1, <2>2, <2>3, TakesBirth
  <1>3. CASE YieldKept
    <2>1. /\ Takes({Head(kept)} \cap Counters) /\ UNCHANGED <<conf, endpoint, payload, pc>>
      BY <1>1, <1>3, YieldKeptTakes DEF YieldKept
    <2>2. pc # "idle" /\ pc \in {"idle", "parse", "drain"} /\ Head(kept) \in ToSet(kept)
      BY <1>3, YieldKeptPlaces DEF PlacesInv, StateOK
    <2>3. newer /\ restarts = 0 /\ {Head(kept)} \cap Counters # {} => rtFlush
      BY <2>2 DEF DecideInv, HandlerUsed
    <2> QED
      BY <2>1, <2>2, <2>3, TakesBirth
  <1>4. CASE ProcessRestarts
    <2>1. restarts' = restarts + 1 /\ restarts \in Nat
      BY <1>4, ScraperAssumption DEF ProcessRestarts, PlacesInv, StateOK
    <2> QED
      BY <2>1 DEF BirthInv
  <1>5. ASSUME ~ParseMetric, ~YieldKept, ~ProcessRestarts, restarts' = 0, NEW c \in Counters
        PROVE  /\ Shown(c)' <= Seen'[c] /\ Seen'[c] <= value'[c]
               /\ newer' => counted'[c] = IF Shown(c)' = None THEN 0 ELSE Shown(c)'
    <2>1. UNCHANGED <<newer, restarts>> /\ Shown(c)' = Shown(c) /\ counted' = counted
      <3>1. UNCHANGED <<newer, restarts>>
        BY <1>5 DEF Next, vars, Increment, Scrape, ParseHeld, HandlerDrains, ScrapeEnds,
           ErrorIgnored, ScrapeRaises, endpoint
      <3>2. UNCHANGED <<conf, agent>>
        BY <1>5, SameConf, NothingSubmitted
      <3> QED
        BY <3>1, <3>2 DEF agent, Shown
    <2>2. /\ Shown(c) <= Seen[c] /\ Seen[c] <= value[c]
          /\ newer => counted[c] = IF Shown(c) = None THEN 0 ELSE Shown(c)
      BY <1>5, <2>1 DEF BirthInv
    <2>3. value[c] \in Nat /\ Seen[c] \in Nat /\ Shown(c) \in Int
      <3>1. Shown(c) \in {None} \cup Values /\ value[c] \in Values /\ payload.value[c] \in Values
        BY ConfType DEF PlacesInv, StateOK, AgentOK, Shown, Responses
      <3>2. \A v \in Values : v \in Nat
        BY ValuesType
      <3>3. None \in Int
        BY DEF None
      <3> QED
        BY <3>1, <3>2, <3>3 DEF Seen
    <2>4. ASSUME NEW d \in Counters, Increment(d)
          PROVE  Seen[c] <= Seen'[c] /\ Seen'[c] <= value'[c] /\ Seen'[c] \in Nat
      <3>1. value'[c] = value[c] \/ value'[c] = value[c] + 1
        BY <2>4 DEF Increment, PlacesInv, StateOK
      <3>2. UNCHANGED <<pc, payload>>
        BY <2>4 DEF Increment, inScrape
      <3> QED
        BY <2>2, <2>3, <3>1, <3>2 DEF Seen
    <2>5. CASE Scrape \/ ScrapeEnds \/ ScrapeRaises
      <3>1. Seen'[c] = value[c] /\ value' = value
        BY <2>5 DEF Scrape, ScrapeEnds, ScrapeRaises, endpoint, Seen
      <3> QED
        BY <2>1, <2>2, <2>3, <3>1
    <2>6. CASE ParseHeld \/ HandlerDrains \/ ErrorIgnored \/ UNCHANGED vars
      <3>1. /\ value' = value /\ (pc' = "idle" <=> pc = "idle")
            /\ payload'.value = payload.value
        BY <2>6 DEF ParseHeld, HandlerDrains, ErrorIgnored, vars, endpoint, inScrape, PlacesInv,
           StateOK, Responses
      <3> QED
        BY <2>1, <2>2, <3>1 DEF Seen
    <2>7. CASE \E d \in Counters : Increment(d)
      <3>1. Seen[c] <= Seen'[c] /\ Seen'[c] <= value'[c] /\ Seen'[c] \in Nat
        BY <2>4, <2>7
      <3> QED
        BY <2>1, <2>2, <2>3, <3>1
    <2> QED
      BY <1>5, <2>5, <2>6, <2>7 DEF Next
  <1> QED
    BY <1>2, <1>3, <1>4, <1>5 DEF BirthInv

\* The other half of the heuristic: with the handler, and if the responses before the
\* first scrape has ended are whole, every scrape that goes through leaves the whole
\* value of a young process counted, whatever scrapes failed before.
THEOREM AlwaysCountsFromBirth == Spec => []CountsFromBirth
  <1> DEFINE Inv == PlacesInv /\ LearnInv /\ CompleteInv /\ YoungInv
  <1>1. Init => Inv
    BY PlacesInit, LearnInit, CompleteInit, YoungInit
  <1>2. Inv /\ [Next]_vars => Inv'
    <2> SUFFICES ASSUME Inv, [Next]_vars PROVE Inv'
      OBVIOUS
    <2>1. ASSUME conf'.start, Clean' PROVE DecideInv' /\ BirthInv'
      <3>1. conf.start /\ Clean
        BY <2>1, SameConf, ScopeShrinks
      <3> QED
        BY <2>1, <3>1, DecideStep, BirthStep DEF YoungInv
    <2> QED
      BY <2>1, PlacesStep, LearnStep, CompleteStep DEF YoungInv
  <1>3. Inv => CountsFromBirth
    BY DEF CompleteInv, YoungInv, BirthInv, CountsFromBirth, Shown, Clean
  <1> QED
    BY <1>1, <1>2, <1>3, PTL DEF Spec
=============================================================================
