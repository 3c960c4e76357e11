--------------------------- MODULE CheckRunProofs ---------------------------
(***************************************************************************)
(* Check runs.  AgentCheck.run for every sequence of initializations,      *)
(* every limit and every set of contexts: the order of initialization,     *)
(* over the runs that an exception ends, and the exactness of the metric   *)
(* limiter within a run.  Then the runs of the SNMP check, for every       *)
(* network and number of allowed failures, beside its discovery thread.    *)
(***************************************************************************)
EXTENDS AgentCheckRun, SnmpDiscovery, SequenceTheorems, FiniteSetTheorems, TLAPS

\* Only a run that initializes has taken an initialization off the deque, and
\* then a single one.
OneInFlight == current = <<>> \/ (phase = "init" /\ \E i \in Tasks : current = <<i>>)

\* The initialization that always raises has not returned.
NoneRaising == \A i \in 1 .. Len(ran) : ran[i] # Raises

\* The limiter of a run that has not ended counts the contexts of that run, and
\* it is reset between two runs.
CountsThisRun ==
    /\ phase = "idle" => limiter = Reset
    /\ phase = "init" => limiter = Reset /\ total = 0 /\ spoilt = {}
    /\ phase = "check" => /\ limiter.count = total /\ (limiter.reached <=> total > Limit)
                          /\ spoilt \subseteq limiter.seen

\* The part of the invariant about initialization, and the one about metrics.
OrderInv ==
    /\ inits \in Seq(Tasks) /\ current \in Seq(Tasks) /\ ran \in Seq(Tasks)
    /\ OneInFlight /\ NoneRaising /\ InitializedInOrder

MetricsInv ==
    /\ phase \in {"idle", "init", "check", "finally"}
    /\ limiter \in [count : 0 .. MaxCalls, seen : SUBSET Uids, reached : BOOLEAN]
    /\ calls \in 0 .. MaxCalls /\ total \in 0 .. calls
    /\ submitted \in 0 .. total /\ wasted \in 0 .. total
    /\ spoilt \in SUBSET Uids /\ IsFiniteSet(spoilt)
    /\ refused \in BOOLEAN
    /\ CountsThisRun /\ LimitExact

RInv == OrderInv /\ MetricsInv

-----------------------------------------------------------------------------
\* popleft() and appendleft() move the boundary between what has been taken and
\* what is left, and leave the whole as it is.
LEMMA TakenAndLeft ==
    ASSUME NEW s \in Seq(Tasks), NEW t \in Seq(Tasks), t # <<>>
    PROVE  /\ <<Head(t)>> \in Seq(Tasks) /\ Tail(t) \in Seq(Tasks)
           /\ <<Head(t)>> \o Tail(t) = t
           /\ (s \o <<Head(t)>>) \o Tail(t) = s \o t
  <1>1. Head(t) \in Tasks /\ Tail(t) \in Seq(Tasks)
    BY HeadTailProperties
  <1>2. <<Head(t)>> \in Seq(Tasks)
    BY <1>1
  <1>3. <<Head(t)>> \o Tail(t) = t
    BY <1>1
  <1> QED
    BY <1>1, <1>2, <1>3, ConcatAssociative

LEMMA OrderInit == Init => OrderInv
  <1> SUFFICES ASSUME Init PROVE OrderInv
    OBVIOUS
  <1>1. <<>> \in Seq(Tasks) /\ Initializations \in Seq(Tasks)
    BY RunAssumption, EmptySeq
  <1>2. <<>> \o <<>> \o Initializations = Initializations
    BY <1>1, ConcatEmptySeq
  <1> QED
    BY <1>1, <1>2 DEF Init, OrderInv, OneInFlight, NoneRaising, InitializedInOrder

LEMMA PopLeftOrder ==
    ASSUME OrderInv, PopLeft
    PROVE  OrderInv'
  <1>1. /\ phase = "init" /\ phase' = phase /\ ran' = ran
        /\ current = <<>> /\ inits # <<>>
        /\ current' = <<Head(inits)>> /\ inits' = Tail(inits)
    BY DEF PopLeft
  <1>2. /\ current' \in Seq(Tasks) /\ inits' \in Seq(Tasks) /\ Head(inits) \in Tasks
        /\ ran' \o current' \o inits' = ran \o inits
    BY <1>1, TakenAndLeft, HeadTailProperties DEF OrderInv
  <1>3. ran \o current \o inits = ran \o inits
    BY <1>1, ConcatEmptySeq DEF OrderInv
  <1>4. InitializedInOrder'
    BY <1>1, <1>2, <1>3 DEF OrderInv, InitializedInOrder
  <1>5. OneInFlight' /\ NoneRaising'
    BY <1>1, <1>2 DEF OrderInv, OneInFlight, NoneRaising
  <1> QED
    BY <1>1, <1>2, <1>4, <1>5 DEF OrderInv

LEMMA ReturnsOrder ==
    ASSUME OrderInv, InitializationReturns
    PROVE  OrderInv'
  <1>1. /\ current # <<>> /\ current # <<Raises>>
        /\ ran' = ran \o current /\ current' = <<>>
        /\ inits' = inits /\ phase' = phase
    BY DEF InitializationReturns
  <1>2. PICK i \in Tasks : current = <<i>> /\ phase = "init"
    BY <1>1 DEF OrderInv, OneInFlight
  <1>3. ran' \in Seq(Tasks) /\ current' \in Seq(Tasks) /\ inits' \in Seq(Tasks)
    BY <1>1, ConcatProperties, EmptySeq DEF OrderInv
  <1>4. ran' \o current' \o inits' = ran \o current \o inits
    BY <1>1, <1>3, ConcatEmptySeq DEF OrderInv
  <1>5. InitializedInOrder'
    BY <1>1, <1>2, <1>4 DEF OrderInv, InitializedInOrder
  <1>6. NoneRaising'
    <2>1. Len(ran') = Len(ran) + 1 /\ Len(ran) \in Nat
      BY <1>1, <1>2, ConcatProperties DEF OrderInv
    <2>2. \A k \in 1 .. Len(ran) + 1 : ran'[k] = IF k <= Len(ran) THEN ran[k] ELSE i
      BY <1>1, <1>2, ConcatProperties DEF OrderInv
    <2>3. i # Raises
      BY <1>1, <1>2
    <2> SUFFICES ASSUME NEW k \in 1 .. Len(ran') PROVE ran'[k] # Raises
      BY DEF NoneRaising
    <2>4. CASE k <= Len(ran)
      <3>1. k \in 1 .. Len(ran)
        BY <2>1, <2>4
      <3>2. ran'[k] = ran[k]
        BY <2>1, <2>2, <2>4
      <3> QED
        BY <3>1, <3>2 DEF OrderInv, NoneRaising
    <2>5. CASE ~(k <= Len(ran))
      BY <2>1, <2>2, <2>3, <2>5
    <2> QED
      BY <2>4, <2>5
  <1>7. OneInFlight'
    BY <1>1 DEF OneInFlight
  <1> QED
    BY <1>3, <1>5, <1>6, <1>7 DEF OrderInv

\* An initialization that raises goes back to the front of the deque.
LEMMA RaisesOrder ==
    ASSUME OrderInv, InitializationRaises
    PROVE  OrderInv'
  <1>1. /\ inits' = current \o inits /\ current' = <<>>
        /\ ran' = ran /\ phase' = "finally"
    BY DEF InitializationRaises, PutBack
  <1>2. ran' \in Seq(Tasks) /\ current' \in Seq(Tasks) /\ inits' \in Seq(Tasks)
    BY <1>1, ConcatProperties, EmptySeq DEF OrderInv
  <1>3. ran \o <<>> = ran
    BY ConcatEmptySeq DEF OrderInv
  <1>4. ran' \o current' \o inits' = ran \o current \o inits
    <2>1. ran \o (current \o inits) = (ran \o current) \o inits
      BY ConcatAssociative DEF OrderInv
    <2> QED
      BY <1>1, <1>3, <2>1
  <1>5. InitializedInOrder' /\ OneInFlight' /\ NoneRaising'
    BY <1>1, <1>4 DEF OrderInv, InitializedInOrder, OneInFlight, NoneRaising
  <1> QED
    BY <1>2, <1>5 DEF OrderInv

\* check runs when the deque is empty, which the one that always raises prevents.
LEMMA CheckStartsOrder ==
    ASSUME OrderInv, CheckStarts
    PROVE  OrderInv'
  <1>1. /\ phase' = "check" /\ current = <<>> /\ inits = <<>>
        /\ UNCHANGED <<inits, current, ran>>
    BY DEF CheckStarts
  <1>2. ran \o current \o inits = ran
    BY <1>1, ConcatEmptySeq DEF OrderInv
  <1>3. ran # Append(Initializations, Raises)
    <2>1. /\ Len(Append(Initializations, Raises)) = Len(Initializations) + 1
          /\ Append(Initializations, Raises)[Len(Initializations) + 1] = Raises
          /\ Len(Initializations) \in Nat
      BY RunAssumption, AppendProperties, LenProperties DEF Raises
    <2> QED
      BY <2>1 DEF OrderInv, NoneRaising
  <1>4. ran = Initializations
    BY <1>2, <1>3 DEF OrderInv, InitializedInOrder
  <1> QED
    BY <1>1, <1>4 DEF OrderInv, InitializedInOrder, OneInFlight, NoneRaising

LEMMA CheckAppendsOrder ==
    ASSUME OrderInv, CheckAppends
    PROVE  OrderInv'
  <1>1. /\ phase = "check" /\ phase' = "finally"
        /\ inits' = Append(inits, Raises)
        /\ current' = current /\ ran' = ran
    BY DEF CheckAppends
  <1>2. ran = Initializations /\ inits = <<>> /\ current = <<>>
    BY <1>1 DEF OrderInv, InitializedInOrder, OneInFlight
  <1>3. inits' = <<Raises>> /\ inits' \in Seq(Tasks)
    <2>1. Append(<<>>, Raises) = <<Raises>> /\ <<Raises>> \in Seq(Tasks)
      <3>1. Raises \in Tasks
        BY DEF Tasks
      <3>2. ASSUME NEW i \in Tasks PROVE Append(<<>>, i) = <<i>> /\ <<i>> \in Seq(Tasks)
        <4>1. <<>> \in Seq(Tasks) /\ <<i>> \in Seq(Tasks)
          BY EmptySeq
        <4> QED
          BY <4>1, AppendIsConcat, ConcatEmptySeq
      <3> QED
        BY <3>1, <3>2
    <2> QED
      BY <1>1, <1>2, <2>1
  <1>4. ran' \o current' \o inits' = Append(Initializations, Raises)
    BY <1>1, <1>2, <1>3, RunAssumption, ConcatEmptySeq, AppendIsConcat DEF Raises
  <1> QED
    BY <1>1, <1>2, <1>3, <1>4 DEF OrderInv, InitializedInOrder, OneInFlight, NoneRaising

\* Every other step leaves the deque alone and starts no check.
LEMMA QuietOrder ==
    ASSUME OrderInv, UNCHANGED <<inits, current, ran>>,
           phase' = phase \/ (current = <<>> /\ phase' # "check")
    PROVE  OrderInv'
  BY DEF OrderInv, InitializedInOrder, OneInFlight, NoneRaising

-----------------------------------------------------------------------------
LEMMA ResetType ==
    /\ Reset \in [count : 0 .. MaxCalls, seen : SUBSET Uids, reached : BOOLEAN]
    /\ Reset.count = 0 /\ Reset.reached = FALSE
  <1>1. 0 \in 0 .. MaxCalls
    BY RunAssumption
  <1> QED
    BY <1>1 DEF Reset

LEMMA NoneSpoilt == IsFiniteSet({}) /\ Cardinality({}) = 0
  BY FS_EmptySet

LEMMA MetricsInit == Init => MetricsInv
  <1>1. 0 \in 0 .. MaxCalls /\ 0 \in 0 .. 0 /\ 0 <= Limit
    BY RunAssumption
  <1> SUFFICES ASSUME Init PROVE MetricsInv
    OBVIOUS
  <1>2. LimitExact
    BY <1>1, NoneSpoilt DEF Init, LimitExact
  <1>3. CountsThisRun
    BY DEF Init, CountsThisRun
  <1> QED
    BY <1>1, <1>2, <1>3, ResetType, NoneSpoilt DEF Init, MetricsInv

LEMMA RunStartsMetrics ==
    ASSUME MetricsInv, RunStarts
    PROVE  MetricsInv'
  <1>1. /\ submitted' = 0 /\ wasted' = 0 /\ spoilt' = {}
        /\ calls' = 0 /\ refused' = FALSE /\ total' = 0
        /\ limiter' = Reset /\ phase' = "init"
    BY DEF RunStarts, MetricsInv, CountsThisRun
  <1>2. 0 \in 0 .. MaxCalls /\ 0 \in 0 .. 0 /\ 0 <= Limit
    BY RunAssumption
  <1>3. LimitExact'
    BY <1>1, <1>2, NoneSpoilt DEF LimitExact
  <1>4. CountsThisRun'
    BY <1>1 DEF CountsThisRun
  <1> QED
    BY <1>1, <1>2, <1>3, <1>4, ResetType, NoneSpoilt DEF MetricsInv

\* is_reached lets a context through as long as the run has not had more
\* contexts than the limit.
LEMMA LimiterCounts ==
    ASSUME MetricsInv, NEW uids \in SUBSET Uids, NEW isFloat \in BOOLEAN, Submit(uids, isFloat)
    PROVE  /\ limiter' \in [count : 0 .. MaxCalls, seen : SUBSET Uids, reached : BOOLEAN]
           /\ limiter'.seen = limiter.seen \cup uids
           /\ limiter'.count = total' /\ (limiter'.reached <=> total' > Limit)
           /\ Refuses(uids) \in BOOLEAN /\ (Refuses(uids) <=> total' > Limit)
           /\ calls' \in 0 .. MaxCalls /\ total' \in 0 .. calls'
           /\ total' = (IF New(uids) THEN total + 1 ELSE total)
  <1> DEFINE new == IF Counts(uids) THEN 1 ELSE 0
  <1>1. /\ phase = "check" /\ calls < MaxCalls /\ calls' = calls + 1
        /\ limiter' = [Counted(uids) EXCEPT !.reached = Refuses(uids)]
        /\ total' = (IF New(uids) THEN total + 1 ELSE total)
    BY DEF Submit
  <1>2. new \in {0, 1} /\ (new = 1 <=> Counts(uids))
    OBVIOUS
  <1>3. /\ calls \in 0 .. MaxCalls /\ total \in 0 .. calls
        /\ Limit \in Nat /\ MaxCalls \in Nat
        /\ limiter.count = total
        /\ limiter.reached <=> total > Limit
        /\ limiter.seen \in SUBSET Uids
    BY <1>1, RunAssumption DEF MetricsInv, CountsThisRun
  <1>4. Counts(uids) <=> New(uids)
    BY DEF Counts, New
  <1>5. /\ limiter' \in [count : {total + new}, seen : {limiter.seen \cup uids}, reached : {Refuses(uids)}]
        /\ Counted(uids).count = total + new
    <2>1. limiter \in [count : {total}, seen : SUBSET Uids, reached : BOOLEAN]
      BY <1>3 DEF MetricsInv
    <2>2. Counted(uids) \in [count : {total + new}, seen : {limiter.seen \cup uids}, reached : BOOLEAN]
      <3>1. CASE Counts(uids)
        BY <2>1, <3>1 DEF Counted
      <3>2. CASE ~Counts(uids)
        <4>1. total + new = total
          BY <1>3, <3>2
        <4> QED
          BY <2>1, <3>2, <4>1 DEF Counted
      <3> QED
        BY <3>1, <3>2
    <2> QED
      BY <1>1, <2>2
  <1> HIDE DEF new
  <1>6. total' = total + new
    BY <1>1, <1>2, <1>3, <1>4
  <1>7. Refuses(uids) <=> total' > Limit
    BY <1>2, <1>3, <1>5, <1>6 DEF Refuses, Exceeds
  <1>8. Refuses(uids) \in BOOLEAN
    BY DEF Refuses
  <1>9. calls' \in 0 .. MaxCalls /\ total' \in 0 .. calls' /\ total' \in 0 .. MaxCalls
    BY <1>1, <1>2, <1>3, <1>6
  <1>10. limiter'.count = total' /\ limiter'.reached = Refuses(uids)
    BY <1>5, <1>6
  <1>11. limiter' \in [count : 0 .. MaxCalls, seen : SUBSET Uids, reached : BOOLEAN]
    BY <1>3, <1>5, <1>6, <1>8, <1>9
  <1> QED
    BY <1>1, <1>5, <1>7, <1>8, <1>9, <1>10, <1>11

\* A context that is let through is submitted, wasted or spoilt, and counted once.
LEMMA LetThrough ==
    ASSUME MetricsInv, NEW uids \in SUBSET Uids, NEW isFloat \in BOOLEAN, Submit(uids, isFloat),
           uids = {} \/ \E u \in Uids : uids = {u}, ~Refuses(uids)
    PROVE  /\ spoilt' \in SUBSET (spoilt \cup uids) /\ IsFiniteSet(spoilt')
           /\ submitted' \in Nat /\ wasted' \in Nat
           /\ submitted' + wasted' + Cardinality(spoilt')
                = submitted + wasted + Cardinality(spoilt) + (IF New(uids) THEN 1 ELSE 0)
  <1> DEFINE n == Cardinality(spoilt)
  <1>1. IsFiniteSet(spoilt) /\ n \in Nat /\ submitted \in Nat /\ wasted \in Nat
    BY FS_CardinalityType DEF MetricsInv
  <1>2. spoilt \subseteq limiter.seen
    BY DEF MetricsInv, CountsThisRun, Submit
  <1>3. New(uids) => spoilt \cap uids = {}
    BY <1>2 DEF New
  <1>4. CASE isFloat
    <2>1. /\ submitted' = (IF New(uids) \/ Recovers(uids) THEN submitted + 1 ELSE submitted)
          /\ spoilt' = spoilt \ uids /\ wasted' = wasted
      BY <1>4 DEF Submit
    <2>2. CASE Recovers(uids)
      <3>1. PICK u \in spoilt : uids = {u}
        BY <2>2 DEF Recovers
      <3>2. spoilt' = spoilt \ {u} /\ IsFiniteSet(spoilt') /\ Cardinality(spoilt') = n - 1
        BY <1>1, <2>1, <3>1, FS_RemoveElement
      <3>3. ~New(uids)
        BY <1>3, <3>1
      <3>4. submitted' = submitted + 1
        BY <2>1, <2>2
      <3> QED
        BY <1>1, <2>1, <3>2, <3>3, <3>4
    <2>3. CASE ~Recovers(uids)
      <3>1. spoilt' = spoilt
        BY <2>1, <2>3 DEF Recovers
      <3> QED
        BY <1>1, <2>1, <2>3, <3>1
    <2> QED
      BY <2>2, <2>3
  <1>5. CASE ~isFloat
    <2>1. /\ wasted' = (IF uids = {} THEN wasted + 1 ELSE wasted)
          /\ spoilt' = (IF New(uids) THEN spoilt \cup uids ELSE spoilt) /\ submitted' = submitted
      BY <1>5 DEF Submit
    <2>2. CASE uids = {}
      <3>1. New(uids) /\ spoilt' = spoilt
        BY <2>1, <2>2 DEF New
      <3> QED
        BY <1>1, <2>1, <2>2, <3>1
    <2>3. CASE uids # {} /\ New(uids)
      <3>1. PICK u \in Uids : uids = {u}
        BY <2>3
      <3>2. u \notin spoilt
        BY <1>3, <2>3, <3>1
      <3>3. spoilt' = spoilt \cup {u} /\ IsFiniteSet(spoilt') /\ Cardinality(spoilt') = n + 1
        BY <1>1, <2>1, <2>3, <3>1, <3>2, FS_AddElement
      <3>4. wasted' = wasted
        BY <2>1, <2>3
      <3> QED
        BY <1>1, <2>1, <2>3, <3>1, <3>3, <3>4
    <2>4. CASE uids # {} /\ ~New(uids)
      BY <1>1, <2>1, <2>4
    <2> QED
      BY <2>2, <2>3, <2>4
  <1> QED
    BY <1>4, <1>5

LEMMA SubmitMetrics ==
    ASSUME MetricsInv, NEW uids \in SUBSET Uids, NEW isFloat \in BOOLEAN, Submit(uids, isFloat),
           uids = {} \/ \E u \in Uids : uids = {u}
    PROVE  MetricsInv'
  <1> DEFINE n == Cardinality(spoilt)
             m == Cardinality(spoilt')
  <1>1. /\ limiter' \in [count : 0 .. MaxCalls, seen : SUBSET Uids, reached : BOOLEAN]
        /\ limiter'.seen = limiter.seen \cup uids
        /\ limiter'.count = total' /\ (limiter'.reached <=> total' > Limit)
        /\ Refuses(uids) \in BOOLEAN /\ (Refuses(uids) <=> total' > Limit)
        /\ calls' \in 0 .. MaxCalls /\ total' \in 0 .. calls'
        /\ total' = (IF New(uids) THEN total + 1 ELSE total)
    BY LimiterCounts
  <1>2. /\ phase = "check" /\ phase' = phase /\ refused' = (refused \/ Refuses(uids))
        /\ spoilt \subseteq limiter.seen /\ limiter.seen \subseteq Uids
    BY DEF Submit, MetricsInv, CountsThisRun
  <1>3. /\ Limit \in Nat /\ MaxCalls \in Nat /\ calls \in 0 .. MaxCalls /\ total \in 0 .. calls
        /\ submitted \in 0 .. total /\ wasted \in 0 .. total
        /\ IsFiniteSet(spoilt) /\ n \in Nat
        /\ submitted + wasted + n = (IF total <= Limit THEN total ELSE Limit)
        /\ refused \in BOOLEAN /\ (refused => total > Limit)
    BY RunAssumption, FS_CardinalityType DEF MetricsInv, LimitExact
  <1>4. /\ spoilt' \in SUBSET (spoilt \cup uids) /\ IsFiniteSet(spoilt') /\ m \in Nat
        /\ submitted' \in Nat /\ wasted' \in Nat
        /\ submitted' + wasted' + m = (IF total' <= Limit THEN total' ELSE Limit)
    <2>1. CASE Refuses(uids)
      <3>1. submitted' = submitted /\ wasted' = wasted /\ spoilt' = spoilt
        BY <2>1 DEF Submit
      <3> HIDE DEF n, m
      <3>2. n = m
        BY <3>1 DEF n, m
      <3>3. submitted + wasted + n = (IF total' <= Limit THEN total' ELSE Limit)
        BY <1>1, <1>3, <2>1
      <3> QED
        BY <1>3, <3>1, <3>2, <3>3
    <2>2. CASE ~Refuses(uids)
      <3>1. /\ spoilt' \in SUBSET (spoilt \cup uids) /\ IsFiniteSet(spoilt')
            /\ submitted' \in Nat /\ wasted' \in Nat
            /\ submitted' + wasted' + m = submitted + wasted + n + (IF New(uids) THEN 1 ELSE 0)
        BY <2>2, LetThrough
      <3>2. m \in Nat
        BY <3>1, FS_CardinalityType
      <3>3. total' <= Limit /\ total' \in Nat
        BY <1>1, <1>3, <2>2
      <3>4. submitted + wasted + n = total
        <4> HIDE DEF n
        <4> QED
          BY <1>1, <1>3, <3>3
      <3>5. submitted' + wasted' + m = total'
        <4> HIDE DEF n, m
        <4> QED
          BY <1>1, <1>3, <3>1, <3>4
      <3> HIDE DEF n, m
      <3> QED
        BY <3>1, <3>2, <3>3, <3>5
    <2> QED
      BY <2>1, <2>2
  <1>5. submitted' \in 0 .. total' /\ wasted' \in 0 .. total'
    <2> HIDE DEF m
    <2> QED
      BY <1>1, <1>3, <1>4
  <1>6. refused' \in BOOLEAN /\ (refused' <=> refused \/ Refuses(uids))
    BY <1>1, <1>2, <1>3, Zenon
  <1>7. refused' => total' > Limit
    BY <1>1, <1>3, <1>6
  <1>8. spoilt' \subseteq limiter'.seen /\ spoilt' \in SUBSET Uids
    BY <1>1, <1>2, <1>4
  <1> QED
    BY <1>1, <1>2, <1>4, <1>5, <1>6, <1>7, <1>8 DEF MetricsInv, CountsThisRun, LimitExact

LEMMA CheckStartsMetrics ==
    ASSUME MetricsInv, CheckStarts
    PROVE  MetricsInv'
  <1>1. ~(0 > Limit)
    BY RunAssumption
  <1> QED
    BY <1>1 DEF CheckStarts, MetricsInv, CountsThisRun, LimitExact, Reset, metrics, outcome

\* Whatever check and the initializations did, the limiter is reset.
LEMMA FinallyMetrics ==
    ASSUME MetricsInv, Finally
    PROVE  MetricsInv'
  BY RunAssumption DEF Finally, AfterReset, MetricsInv, CountsThisRun, LimitExact, Reset, outcome

\* The other steps leave the metrics alone.
LEMMA QuietMetrics ==
    ASSUME MetricsInv, UNCHANGED metrics, phase' = phase \/ phase' = "finally"
    PROVE  MetricsInv'
  BY DEF metrics, outcome, MetricsInv, CountsThisRun, LimitExact

-----------------------------------------------------------------------------
LEMMA RunStep ==
    ASSUME RInv, [Next]_vars
    PROVE  RInv'
  <1> USE DEF RInv
  <1>1. CASE RunStarts
    <2>1. current = <<>>
      BY <1>1 DEF RunStarts, OrderInv, OneInFlight
    <2> QED
      BY <1>1, <2>1, QuietOrder, RunStartsMetrics DEF RunStarts
  <1>2. CASE PopLeft
    BY <1>2, PopLeftOrder, QuietMetrics DEF PopLeft
  <1>3. CASE InitializationReturns
    BY <1>3, ReturnsOrder, QuietMetrics DEF InitializationReturns
  <1>4. CASE InitializationRaises
    BY <1>4, RaisesOrder, QuietMetrics DEF InitializationRaises
  <1>5. CASE CheckStarts
    BY <1>5, CheckStartsOrder, CheckStartsMetrics
  <1>6. CASE CheckEnds
    <2>1. current = <<>>
      BY <1>6 DEF CheckEnds, OrderInv, OneInFlight
    <2> QED
      BY <1>6, <2>1, QuietOrder, QuietMetrics DEF CheckEnds
  <1>7. CASE CheckAppends
    BY <1>7, CheckAppendsOrder, QuietMetrics DEF CheckAppends
  <1>8. CASE Finally
    <2>1. current = <<>>
      BY <1>8 DEF Finally, OrderInv, OneInFlight
    <2> QED
      BY <1>8, <2>1, QuietOrder, FinallyMetrics DEF Finally
  <1>9. ASSUME NEW isFloat \in BOOLEAN, NEW uids \in SUBSET Uids, Submit(uids, isFloat),
               uids = {} \/ \E u \in Uids : uids = {u}
        PROVE  RInv'
    BY <1>9, QuietOrder, SubmitMetrics DEF Submit
  <1>10. CASE UNCHANGED vars
    BY <1>10, QuietOrder, QuietMetrics DEF vars, metrics, outcome
  <1>11. CASE \E isFloat \in BOOLEAN : Submit({}, isFloat) \/ \E u \in Uids : Submit({u}, isFloat)
    BY <1>9, <1>11
  <1> QED
    BY <1>1, <1>2, <1>3, <1>4, <1>5, <1>6, <1>7, <1>8, <1>10, <1>11 DEF Next

\* The inductive invariant of run.
THEOREM RunInvariant == Spec => []RInv
  <1>1. Init => RInv
    BY OrderInit, MetricsInit DEF RInv
  <1> QED
    BY <1>1, RunStep, PTL DEF Spec

\* Nothing in the state of run leaves its type.
THEOREM RunTypes == Spec => []TypeOK
  <1>1. RInv => TypeOK
    BY DEF RInv, OrderInv, MetricsInv, TypeOK
  <1> QED
    BY <1>1, RunInvariant, PTL

\* However often an initialization raises, each returns once and in the order in
\* which they were added, before check runs; one that a check adds, and that
\* always raises, prevents every later check.
THEOREM AlwaysInitializedInOrder == Spec => []InitializedInOrder
  <1>1. RInv => InitializedInOrder
    BY DEF RInv, OrderInv
  <1> QED
    BY <1>1, RunInvariant, PTL

\* A run lets exactly its first contexts up to the limit through, whatever the runs
\* before it did and however they ended, and submits those that had a float value.
THEOREM LimitAlwaysExact == Spec => []LimitExact
  <1>1. RInv => LimitExact
    BY DEF RInv, MetricsInv
  <1> QED
    BY <1>1, RunInvariant, PTL
-----------------------------------------------------------------------------
(***************************************************************************)
(* SNMP discovery.  With prompt callbacks, a result that is outstanding is *)
(* that of a host that is still in the list.                               *)
(***************************************************************************)

\* A host is submitted, or has a callback to come, only while it is discovered,
\* and never both.
Outstanding ==
    /\ running \subseteq discovered
    /\ \A h \in Hosts : callbacks[h] # <<>> => h \in discovered \ running
    /\ check = "idle" => running = {}

\* The counter of a discovered host is the number of its failures in a row; the
\* others have none.
FailuresCounted ==
    /\ \A h \in discovered : failing[h] = fails[h]
    /\ \A h \in Hosts \ discovered : failing[h] = 0
    /\ thread = "none" => discovered = {} /\ fails = NoHost

DiscoveryInv == DiscoveryTypeOK /\ Outstanding /\ FailuresCounted

LEMMA OneResult ==
  /\ \A b \in BOOLEAN : Append(<<>>, b) \in [1 .. 1 -> BOOLEAN]
  /\ \A s \in [1 .. 1 -> BOOLEAN] : Len(s) = 1 /\ Head(s) \in BOOLEAN /\ Tail(s) = <<>>
<1>1. \A b \in BOOLEAN : Append(<<>>, b) \in [1 .. 1 -> BOOLEAN]
  <2>1. ASSUME NEW b \in BOOLEAN PROVE Append(<<>>, b) \in [1 .. 1 -> BOOLEAN]
    <3>1. <<>> \in Seq(BOOLEAN) /\ Len(<<>>) = 0
      OBVIOUS
    <3>2. Append(<<>>, b) \in Seq(BOOLEAN) /\ Len(Append(<<>>, b)) = 1
      BY <3>1, AppendProperties
    <3> QED BY <3>2, LenProperties
  <2> QED BY <2>1
<1>2. ASSUME NEW s \in [1 .. 1 -> BOOLEAN]
      PROVE  Len(s) = 1 /\ Head(s) \in BOOLEAN /\ Tail(s) = <<>>
  <2>1. s \in Seq(BOOLEAN) /\ Len(s) = 1
    <3>1. 1 \in Nat
      OBVIOUS
    <3>2. s \in Seq(BOOLEAN)
      BY <3>1, SeqDef, Zenon
    <3>3. DOMAIN s = 1 .. 1
      OBVIOUS
    <3>4. Len(s) \in Nat /\ DOMAIN s = 1 .. Len(s)
      BY <3>2, LenProperties
    <3> QED BY <3>2, <3>3, <3>4
  <2>2. Head(s) \in BOOLEAN
    BY <2>1, HeadTailProperties
  <2>3. Tail(s) \in Seq(BOOLEAN) /\ Len(Tail(s)) = 0
    BY <2>1, HeadTailProperties
  <2> QED BY <2>1, <2>2, <2>3, EmptySeq
<1> QED BY <1>1, <1>2

LEMMA DiscoveryInitInv == DiscoveryInit => DiscoveryInv
BY SnmpAssumption
DEF DiscoveryInit, DiscoveryInv, DiscoveryTypeOK, Outstanding, FailuresCounted, NoHost

\* The network and the discovery thread: neither touches a counter, except that a
\* host starts from none when it is added.
LEMMA ScanInv ==
  ASSUME DiscoveryInv, (\E h \in Hosts : HostChanges(h)) \/ Scan
  PROVE  DiscoveryInv'
<1> USE SnmpAssumption DEF DiscoveryInv, DiscoveryTypeOK, Outstanding, FailuresCounted, bounds
<1>1. ASSUME NEW h \in Hosts, HostChanges(h) PROVE DiscoveryInv'
  BY <1>1 DEF HostChanges
<1>2. ASSUME NEW h \in Hosts, SkipHost(h) PROVE DiscoveryInv'
  BY <1>2 DEF SkipHost
<1>3. ASSUME NEW h \in Hosts, AddHost(h) PROVE DiscoveryInv'
  <2>1. /\ thread = "scan" /\ h \notin discovered
        /\ discovered' = discovered \cup {h}
        /\ fails' = [fails EXCEPT ![h] = 0]
        /\ thread' = "persist" /\ todo' = todo \ {h}
        /\ UNCHANGED <<device, failing, persisted, running, callbacks, check, changes, restarts>>
    BY <1>3 DEF AddHost, ToScan
  <2>2. DiscoveryTypeOK'
    BY <2>1
  <2>3. Outstanding'
    BY <2>1
  <2>4. FailuresCounted'
    BY <2>1
  <2> QED BY <2>2, <2>3, <2>4
<1>4. ASSUME NEW h \in Hosts, ThreadDies(h) PROVE DiscoveryInv'
  BY <1>4 DEF ThreadDies
<1>5. CASE WriteCache
  BY <1>5 DEF WriteCache
<1>6. CASE EndOfLoop
  BY <1>6 DEF EndOfLoop, FinalList
<1>7. CASE ScanAgain
  BY <1>7 DEF ScanAgain, NetworkHosts
<1> QED BY <1>1, <1>2, <1>3, <1>4, <1>5, <1>6, <1>7 DEF Scan

\* A check run submits the discovered hosts when no callback is left.
LEMMA CheckInv ==
  ASSUME Prompt, DiscoveryInv,
         StartDiscovery \/ CheckRun \/ CheckDone \/ (\E h \in Hosts : CheckDevice(h))
  PROVE  DiscoveryInv'
<1> USE SnmpAssumption DEF DiscoveryInv, DiscoveryTypeOK, Outstanding, FailuresCounted, bounds
<1>1. CASE StartDiscovery
  BY <1>1 DEF StartDiscovery, NetworkHosts, NoHost
<1>2. CASE CheckRun
  <2>1. /\ check = "idle" /\ thread # "none"
        /\ \A h \in Hosts : Len(callbacks[h]) < 1
        /\ running' = discovered /\ check' = "waiting"
        /\ UNCHANGED <<device, discovered, failing, persisted, thread, todo, callbacks, fails,
                       changes, restarts>>
    BY <1>2 DEF CheckRun
  <2>2. \A h \in Hosts : callbacks[h] = <<>>
    BY <2>1, OneResult
  <2> QED BY <2>1, <2>2
<1>3. CASE CheckDone
  BY <1>3 DEF CheckDone
<1>4. ASSUME NEW h \in Hosts, CheckDevice(h) PROVE DiscoveryInv'
  <2>1. /\ h \in running /\ running' = running \ {h}
        /\ callbacks' = [callbacks EXCEPT ![h] = Append(callbacks[h], device[h] = "well")]
        /\ UNCHANGED <<device, discovered, failing, persisted, thread, todo, check, fails,
                       changes, restarts>>
    BY <1>4 DEF CheckDevice
  <2>2. callbacks[h] = <<>>
    BY <2>1
  <2>3. Append(callbacks[h], device[h] = "well") \in [1 .. 1 -> BOOLEAN]
    <3>1. (device[h] = "well") \in BOOLEAN
      OBVIOUS
    <3>2. Append(<<>>, device[h] = "well") \in [1 .. 1 -> BOOLEAN]
      BY <3>1, OneResult, Zenon
    <3> QED BY <2>2, <3>2, Zenon
  <2>4. DiscoveryTypeOK'
    <3>1. callbacks' \in [Hosts -> {<<>>} \cup [1 .. 1 -> BOOLEAN]]
      BY <2>1, <2>3
    <3> QED BY <2>1, <3>1
  <2>5. Outstanding' /\ FailuresCounted'
    BY <2>1
  <2> QED BY <2>4, <2>5
<1> QED BY <1>1, <1>2, <1>3, <1>4

\* What a callback does: it belongs to a discovered host, and removes it with the
\* failure that makes them too many.
LEMMA CallbackEffect ==
  ASSUME DiscoveryInv, NEW h \in Hosts, Callback(h)
  PROVE  /\ h \in discovered /\ h \notin running
         /\ callbacks' = [callbacks EXCEPT ![h] = <<>>]
         /\ \/ /\ discovered' = discovered
               /\ failing' = [failing EXCEPT ![h] = 0]
               /\ fails' = [fails EXCEPT ![h] = 0]
            \/ /\ fails[h] + 1 < Allowed
               /\ discovered' = discovered
               /\ failing' = [failing EXCEPT ![h] = fails[h] + 1]
               /\ fails' = [fails EXCEPT ![h] = fails[h] + 1]
            \/ /\ fails[h] + 1 = Allowed
               /\ discovered' = discovered \ {h}
               /\ failing' = [failing EXCEPT ![h] = 0]
               /\ fails' = [fails EXCEPT ![h] = fails[h] + 1]
         /\ UNCHANGED <<device, persisted, thread, todo, running, check, changes, restarts>>
<1> USE SnmpAssumption DEF DiscoveryInv, DiscoveryTypeOK, Outstanding, FailuresCounted, bounds
<1> DEFINE ok == Head(callbacks[h])
<1>1. callbacks[h] \in [1 .. 1 -> BOOLEAN] /\ h \in discovered /\ h \notin running
  BY DEF Callback
<1>2. ok \in BOOLEAN /\ Tail(callbacks[h]) = <<>>
  BY <1>1, OneResult
<1>3. failing[h] = fails[h] /\ fails[h] \in 0 .. Allowed - 1
  BY <1>1
<1>4. /\ callbacks' = [callbacks EXCEPT ![h] = <<>>]
      /\ UNCHANGED <<device, persisted, thread, todo, running, check, changes, restarts>>
  BY <1>2 DEF Callback
<1>5. CASE ok
  <2>1. /\ discovered' = discovered
        /\ failing' = [failing EXCEPT ![h] = 0]
        /\ fails' = [fails EXCEPT ![h] = 0]
    BY <1>5 DEF Callback, AfterSuccess
  <2> QED BY <1>1, <1>4, <2>1
<1>6. CASE ~ok
  <2>1. /\ discovered' = IF failing[h] + 1 >= Allowed THEN discovered \ {h} ELSE discovered
        /\ failing' = [failing EXCEPT ![h] =
                          IF failing[h] + 1 >= Allowed THEN 0 ELSE failing[h] + 1]
        /\ fails' = [fails EXCEPT ![h] = fails[h] + 1]
    BY <1>1, <1>6 DEF Callback, TooMany
  <2>2. CASE fails[h] + 1 < Allowed
    <3>1. ~(failing[h] + 1 >= Allowed)
      BY <1>3, <2>2
    <3> QED BY <1>1, <1>3, <1>4, <2>1, <2>2, <3>1
  <2>3. CASE fails[h] + 1 = Allowed
    <3>1. failing[h] + 1 >= Allowed
      BY <1>3, <2>3
    <3> QED BY <1>1, <1>3, <1>4, <2>1, <2>3, <3>1
  <2> QED BY <1>3, <2>2, <2>3
<1> QED BY <1>2, <1>5, <1>6

LEMMA CallbackInv ==
  ASSUME DiscoveryInv, NEW h \in Hosts, Callback(h)
  PROVE  DiscoveryInv'
<1> USE SnmpAssumption DEF DiscoveryInv, DiscoveryTypeOK, Outstanding, FailuresCounted
<1>1. /\ fails[h] \in 0 .. Allowed - 1 /\ h \in discovered /\ h \notin running
      /\ callbacks' = [callbacks EXCEPT ![h] = <<>>]
      /\ UNCHANGED <<device, persisted, thread, todo, running, check, changes, restarts>>
  BY CallbackEffect
<1>2. callbacks' \in [Hosts -> {<<>>} \cup [1 .. 1 -> BOOLEAN]]
  BY <1>1
<1>3. PICK n \in 0 .. Allowed :
        /\ fails' = [fails EXCEPT ![h] = n]
        /\ \/ discovered' = discovered /\ n < Allowed /\ failing' = [failing EXCEPT ![h] = n]
           \/ discovered' = discovered \ {h} /\ failing' = [failing EXCEPT ![h] = 0]
  <2>1. 0 \in 0 .. Allowed /\ fails[h] + 1 \in 0 .. Allowed /\ 0 < Allowed
    BY <1>1
  <2> QED BY <2>1, CallbackEffect
<1>4. DiscoveryTypeOK'
  <2>1. fails' \in [Hosts -> 0 .. Allowed] /\ failing' \in [Hosts -> 0 .. Allowed - 1]
    <3>1. 0 \in 0 .. Allowed - 1 /\ (n < Allowed => n \in 0 .. Allowed - 1)
      OBVIOUS
    <3> QED BY <1>3, <3>1
  <2>2. discovered' \subseteq Hosts
    BY <1>3
  <2> QED BY <1>1, <1>2, <2>1, <2>2
<1>5. Outstanding'
  BY <1>1, <1>3
<1>6. FailuresCounted'
  <2>1. thread # "none"
    BY <1>1
  <2>2. \A g \in Hosts \ {h} :
           /\ fails'[g] = fails[g] /\ failing'[g] = failing[g]
           /\ g \in discovered' <=> g \in discovered
    BY <1>3
  <2>3. \/ h \in discovered' /\ failing'[h] = fails'[h]
        \/ h \notin discovered' /\ failing'[h] = 0
    BY <1>1, <1>3
  <2>4. discovered' \subseteq Hosts
    BY <1>3
  <2>5. /\ \A g \in discovered' : failing'[g] = fails'[g]
        /\ \A g \in Hosts \ discovered' : failing'[g] = 0
    BY <2>2, <2>3, <2>4
  <2>6. thread' # "none"
    BY <1>1, <2>1
  <2> QED BY <2>5, <2>6
<1> QED BY <1>4, <1>5, <1>6

LEMMA RestartInv ==
  ASSUME DiscoveryInv, Restart
  PROVE  DiscoveryInv'
BY SnmpAssumption
DEF DiscoveryInv, DiscoveryTypeOK, Outstanding, FailuresCounted, Restart, NoHost

LEMMA DiscoveryStep ==
  ASSUME Prompt, DiscoveryInv, [DiscoveryNext]_discoveryVars
  PROVE  DiscoveryInv'
<1>1. CASE UNCHANGED discoveryVars
  BY <1>1 DEF discoveryVars, DiscoveryInv, DiscoveryTypeOK, Outstanding, FailuresCounted
<1> QED
  BY <1>1, ScanInv, CheckInv, CallbackInv, RestartInv DEF DiscoveryNext, Check

\* With prompt callbacks of _on_check_device_done at most one is outstanding per
\* host, and no counter of failing_instances reaches discovery_allowed_failures.
THEOREM DiscoveryTypes == Prompt => (DiscoverySpec => []DiscoveryTypeOK)
<1> SUFFICES ASSUME Prompt PROVE DiscoverySpec => []DiscoveryTypeOK
  OBVIOUS
<1>1. DiscoveryInv /\ [DiscoveryNext]_discoveryVars => DiscoveryInv'
  BY DiscoveryStep
<1>2. DiscoveryInv => DiscoveryTypeOK
  BY DEF DiscoveryInv
<1> QED BY <1>1, <1>2, DiscoveryInitInv, PTL DEF DiscoverySpec

\* RemovedAfterFailures: with prompt callbacks a discovered host is removed by the
\* failure that makes discovery_allowed_failures in a row, whatever the discovery
\* thread, the network and the other hosts do.
THEOREM RemovedByItsFailures == Prompt => (DiscoverySpec => RemovedAfterFailures)
<1> SUFFICES ASSUME Prompt PROVE DiscoverySpec => RemovedAfterFailures
  OBVIOUS
<1>1. DiscoveryInv /\ [DiscoveryNext]_discoveryVars => DiscoveryInv'
  BY DiscoveryStep
<1>2. ASSUME DiscoveryInv, DiscoveryNext, restarts' = restarts, NEW h \in discovered
      PROVE  (h \notin discovered') <=> (fails'[h] >= Allowed)
  <2> USE SnmpAssumption DEF DiscoveryInv, DiscoveryTypeOK, Outstanding, FailuresCounted
  <2>1. fails[h] \in 0 .. Allowed - 1 /\ h \in Hosts
    BY <1>2
  <2>2. ASSUME NEW g \in Hosts, Callback(g)
        PROVE  (h \notin discovered') <=> (fails'[h] >= Allowed)
    <3>1. CASE g = h
      BY <1>2, <2>1, <2>2, <3>1, CallbackEffect
    <3>2. CASE g # h
      <4>1. fails'[h] = fails[h] /\ h \in discovered'
        BY <1>2, <2>1, <2>2, <3>2, CallbackEffect
      <4> QED BY <2>1, <4>1
    <3> QED BY <3>1, <3>2
  <2>3. ASSUME NEW g \in Hosts, AddHost(g)
        PROVE  h \in discovered' /\ fails'[h] = fails[h]
    BY <1>2, <2>1, <2>3 DEF AddHost, ToScan
  <2>4. ~Restart
    BY <1>2 DEF Restart
  <2>5. CASE \/ \E g \in Hosts : HostChanges(g) \/ SkipHost(g) \/ ThreadDies(g) \/ CheckDevice(g)
             \/ WriteCache \/ EndOfLoop \/ ScanAgain \/ StartDiscovery \/ CheckRun \/ CheckDone
    <3>1. h \in discovered' /\ fails' = fails
      BY <2>5
      DEF HostChanges, SkipHost, ThreadDies, CheckDevice, WriteCache, EndOfLoop, ScanAgain,
          StartDiscovery, CheckRun, CheckDone
    <3> QED BY <2>1, <3>1
  <2> QED BY <1>2, <2>1, <2>2, <2>3, <2>4, <2>5 DEF DiscoveryNext, Scan, Check
<1>3. DiscoveryInv /\ [DiscoveryNext]_discoveryVars =>
        [restarts' = restarts =>
           \A h \in discovered : (h \notin discovered') <=> (fails'[h] >= Allowed)]_discoveryVars
  BY <1>2
<1> QED BY <1>1, <1>3, DiscoveryInitInv, PTL DEF DiscoverySpec, RemovedAfterFailures
=============================================================================
