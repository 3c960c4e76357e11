-------------------------- MODULE LogCrawlerProofs --------------------------
(***************************************************************************)
(* Delivery by the log crawler, for every set of streams, every choice of  *)
(* the records that carry a cursor and every number of records and of runs *)
(* that are cut short: the saved cursor never runs ahead of what was sent  *)
(* and never falls behind by more than one marked record, and the crawler  *)
(* implements AtLeastOnce.                                                 *)
(***************************************************************************)
EXTENDS LogCrawler, TLAPS

\* The source holds what was sent.
SentExists == \A s \in Streams : sent[s] \subseteq 1 .. records[s]

\* The iteration is at or after the saved cursor, and sent all it passed.
PassedIsSent ==
    stream # NoStream =>
        /\ pos <= records[stream]
        /\ cursor[stream] <= pos
        /\ 1 .. pos \subseteq sent[stream]

\* A cursor to save belongs to the record read last of an open stream.
UnsavedIsLast == unsaved => stream # NoStream

\* Of the marked records it passed, only the last can be without its cursor.
OneBehind ==
    stream # NoStream =>
        \A n \in Marked : n <= pos => n <= cursor[stream] \/ (unsaved /\ n = pos)

CInv ==
    /\ TypeOK
    /\ SentExists
    /\ PassedIsSent
    /\ UnsavedIsLast
    /\ OneBehind
    /\ SavedIsSent
    /\ CursorKeepsUp

-----------------------------------------------------------------------------
LEMMA CrawlerInit == Init => CInv
  <1> SUFFICES ASSUME Init PROVE CInv
    OBVIOUS
  <1>1. TypeOK
    <2>1. 0 \in 0 .. MaxRecords /\ 0 \in 0 .. MaxAborts
      BY CrawlerAssumption
    <2>2. /\ records \in [Streams -> 0 .. MaxRecords]
          /\ cursor \in [Streams -> 0 .. MaxRecords]
          /\ pos \in 0 .. MaxRecords /\ aborts \in 0 .. MaxAborts
      BY <2>1 DEF Init
    <2>3. /\ sent \in [Streams -> SUBSET (1 .. MaxRecords)]
          /\ todo \subseteq Streams /\ stream \in Streams \cup {NoStream}
          /\ unsaved \in BOOLEAN
      BY DEF Init
    <2> QED
      BY <2>2, <2>3 DEF TypeOK
  <1>2. SentExists /\ PassedIsSent /\ UnsavedIsLast /\ OneBehind
    BY CrawlerAssumption DEF Init, SentExists, PassedIsSent, UnsavedIsLast, OneBehind
  <1>3. SavedIsSent /\ CursorKeepsUp
    BY CrawlerAssumption DEF Init, SavedIsSent, CursorKeepsUp
  <1> QED
    BY <1>1, <1>2, <1>3 DEF CInv

\* A saved cursor is the number of a record that exists.
LEMMA CursorExists ==
    ASSUME CInv, NEW s \in Streams
    PROVE  cursor[s] <= records[s]
  <1>1. cursor[s] \in Nat /\ records[s] \in Nat
    BY CrawlerAssumption DEF CInv, TypeOK
  <1>2. CASE cursor[s] = 0
    BY <1>1, <1>2
  <1>3. CASE cursor[s] # 0
    <2>1. cursor[s] \in sent[s]
      BY <1>1, <1>3 DEF CInv, SavedIsSent
    <2> QED
      BY <1>1, <2>1 DEF CInv, SentExists
  <1> QED
    BY <1>2, <1>3

LEMMA LogWrittenStep ==
    ASSUME CInv, NEW s \in Streams, LogWritten(s)
    PROVE  CInv'
  <1> USE CrawlerAssumption DEF LogWritten
  <1>1. TypeOK'
    BY DEF CInv, TypeOK
  <1>2. \A t \in Streams : records[t] \in Nat /\ records'[t] \in Nat /\ records[t] <= records'[t]
    BY DEF CInv, TypeOK
  <1>3. SentExists'
    BY <1>2 DEF CInv, TypeOK, SentExists
  <1>4. PassedIsSent'
    <2> SUFFICES ASSUME stream # NoStream PROVE pos <= records'[stream]
      BY DEF CInv, PassedIsSent
    <2>1. stream \in Streams /\ pos \in Nat /\ pos <= records[stream]
      BY DEF CInv, TypeOK, PassedIsSent
    <2> QED
      BY <1>2, <2>1
  <1>5. UnsavedIsLast' /\ OneBehind' /\ SavedIsSent' /\ CursorKeepsUp'
    BY DEF CInv, UnsavedIsLast, OneBehind, SavedIsSent, CursorKeepsUp
  <1> QED
    BY <1>1, <1>3, <1>4, <1>5 DEF CInv

\* The start of a check run, the end of a stream, a run that is cut short.
LEMMA BetweenStreamsStep ==
    ASSUME CInv, Check \/ StreamEnds \/ Abort
    PROVE  CInv'
  <1>1. /\ UNCHANGED <<records, cursor, pos, sent>>
        /\ stream' = NoStream
        /\ unsaved' = FALSE
        /\ todo' \subseteq Streams
        /\ aborts' \in 0 .. MaxAborts
    BY CrawlerAssumption DEF CInv, TypeOK, UnsavedIsLast, Check, StreamEnds, Abort
  <1>2. TypeOK'
    BY <1>1 DEF CInv, TypeOK
  <1>3. SentExists' /\ PassedIsSent' /\ UnsavedIsLast' /\ OneBehind'
    BY <1>1 DEF CInv, SentExists, PassedIsSent, UnsavedIsLast, OneBehind
  <1>4. SavedIsSent' /\ CursorKeepsUp'
    BY <1>1 DEF CInv, SavedIsSent, CursorKeepsUp
  <1> QED
    BY <1>2, <1>3, <1>4 DEF CInv

LEMMA OpenStreamStep ==
    ASSUME CInv, NEW s \in Streams, OpenStream(s)
    PROVE  CInv'
  <1> USE DEF OpenStream, GetLogCursor
  <1>1. TypeOK'
    BY DEF CInv, TypeOK
  <1>2. SentExists' /\ SavedIsSent' /\ CursorKeepsUp'
    BY DEF CInv, SentExists, SavedIsSent, CursorKeepsUp
  <1>3. UnsavedIsLast'
    BY CrawlerAssumption DEF UnsavedIsLast
  <1>4. stream' = s /\ pos' = cursor[s] /\ cursor[s] \in Nat
    BY CrawlerAssumption DEF CInv, TypeOK
  <1>5. PassedIsSent'
    BY <1>4, CursorExists DEF CInv, PassedIsSent, SavedIsSent
  <1>6. OneBehind'
    BY <1>4 DEF OneBehind
  <1> QED
    BY <1>1, <1>2, <1>3, <1>5, <1>6 DEF CInv

LEMMA SendLogStep ==
    ASSUME CInv, SendLog
    PROVE  CInv'
  <1> USE CrawlerAssumption
  <1>1. /\ stream \in Streams /\ stream' = stream
        /\ pos \in Nat /\ pos' = pos + 1 /\ pos < records[stream]
        /\ ~unsaved /\ unsaved' = (pos + 1 \in Marked)
        /\ sent' = [sent EXCEPT ![stream] = @ \cup {pos + 1}]
        /\ UNCHANGED <<records, cursor, todo, aborts>>
    BY DEF CInv, TypeOK, SendLog, HasNext, CarriesCursor
  <1>2. /\ records[stream] \in 0 .. MaxRecords
        /\ \A s \in Streams : cursor[s] \in Nat /\ records[s] \in Nat
        /\ cursor[stream] <= pos
    BY <1>1 DEF CInv, TypeOK, PassedIsSent
  <1>3. TypeOK'
    <2>1. pos + 1 \in 1 .. MaxRecords
      BY <1>1, <1>2
    <2>2. sent' \in [Streams -> SUBSET (1 .. MaxRecords)]
      BY <1>1, <2>1 DEF CInv, TypeOK
    <2> QED
      BY <1>1, <2>1, <2>2 DEF CInv, TypeOK
  <1>4. \A s \in Streams : sent'[s] = IF s = stream THEN sent[s] \cup {pos + 1} ELSE sent[s]
    BY <1>1 DEF CInv, TypeOK
  <1>5. SentExists'
    <2> SUFFICES ASSUME NEW s \in Streams, NEW k \in sent'[s] PROVE k \in 1 .. records[s]
      BY <1>1 DEF SentExists
    <2>1. CASE k \in sent[s]
      BY <2>1 DEF CInv, SentExists
    <2>2. CASE s = stream /\ k = pos + 1
      BY <1>1, <1>2, <2>2
    <2> QED
      BY <1>4, <2>1, <2>2
  <1>6. PassedIsSent'
    <2>1. pos + 1 <= records[stream] /\ cursor[stream] <= pos + 1
      BY <1>1, <1>2
    <2>2. ASSUME NEW k \in 1 .. pos + 1 PROVE k \in sent'[stream]
      <3>1. CASE k = pos + 1
        BY <1>1, <1>4, <3>1
      <3>2. CASE k # pos + 1
        <4>1. k \in 1 .. pos
          BY <1>1, <3>2
        <4> QED
          BY <1>1, <1>4, <4>1 DEF CInv, PassedIsSent
      <3> QED
        BY <3>1, <3>2
    <2> QED
      BY <1>1, <2>1, <2>2 DEF PassedIsSent
  <1>7. UnsavedIsLast'
    BY <1>1 DEF UnsavedIsLast
  <1>8. OneBehind'
    <2> SUFFICES ASSUME NEW n \in Marked, n <= pos + 1
                 PROVE  n <= cursor[stream] \/ ((pos + 1 \in Marked) /\ n = pos + 1)
      BY <1>1 DEF OneBehind
    <2>1. n \in Nat
      OBVIOUS
    <2>2. CASE n = pos + 1
      BY <2>2
    <2>3. CASE n # pos + 1
      <3>1. n <= pos
        BY <1>1, <2>1, <2>3
      <3> QED
        BY <1>1, <3>1 DEF CInv, OneBehind
    <2> QED
      BY <2>2, <2>3
  <1>9. SavedIsSent'
    BY <1>1, <1>4 DEF CInv, SavedIsSent
  <1>10. CursorKeepsUp'
    <2> SUFFICES ASSUME NEW s \in Streams, NEW n \in Marked, cursor[s] < n, NEW k \in sent'[s]
                 PROVE  k <= n
      BY <1>1 DEF CursorKeepsUp
    <2>1. CASE k \in sent[s]
      BY <2>1 DEF CInv, CursorKeepsUp
    <2>2. CASE s = stream /\ k = pos + 1
      <3>1. ~(n <= pos)
        <4>1. ~(n <= cursor[stream])
          <5>1. n \in Nat /\ cursor[s] \in Nat /\ s = stream
            BY <1>2, <2>2
          <5> QED
            BY <5>1
        <4> QED
          BY <1>1, <4>1 DEF CInv, OneBehind
      <3> QED
        BY <1>1, <2>2, <3>1
    <2> QED
      BY <1>4, <2>1, <2>2
  <1> QED
    BY <1>3, <1>5, <1>6, <1>7, <1>8, <1>9, <1>10 DEF CInv

LEMMA WriteCacheStep ==
    ASSUME CInv, WritePersistentCache
    PROVE  CInv'
  <1> USE CrawlerAssumption
  <1>1. /\ stream \in Streams /\ stream' = stream
        /\ pos \in Nat /\ pos' = pos
        /\ ~unsaved'
        /\ cursor' = [cursor EXCEPT ![stream] = pos]
        /\ cursor[stream] <= pos
        /\ UNCHANGED <<records, todo, sent, aborts>>
    BY DEF CInv, TypeOK, UnsavedIsLast, PassedIsSent, WritePersistentCache, RecordCursor
  <1>2. TypeOK'
    BY <1>1 DEF CInv, TypeOK, WritePersistentCache
  <1>3. \A s \in Streams : /\ cursor[s] \in Nat
                           /\ cursor'[s] = IF s = stream THEN pos ELSE cursor[s]
    BY <1>1 DEF CInv, TypeOK
  <1>4. SentExists' /\ UnsavedIsLast'
    BY <1>1 DEF CInv, SentExists, UnsavedIsLast
  <1>5. PassedIsSent'
    BY <1>1, <1>3 DEF CInv, PassedIsSent
  <1>6. OneBehind'
    BY <1>1, <1>3 DEF OneBehind
  <1>7. SavedIsSent'
    BY <1>1, <1>3 DEF CInv, PassedIsSent, SavedIsSent
  <1>8. CursorKeepsUp'
    <2> SUFFICES ASSUME NEW s \in Streams, NEW n \in Marked, cursor'[s] < n
                 PROVE  \A k \in sent[s] : k <= n
      BY <1>1 DEF CursorKeepsUp
    <2>1. cursor[s] < n
      BY <1>1, <1>3
    <2> QED
      BY <2>1 DEF CInv, CursorKeepsUp
  <1> QED
    BY <1>2, <1>4, <1>5, <1>6, <1>7, <1>8 DEF CInv

\* The crawler's inductive invariant.
THEOREM CrawlerInvariant == Spec => []CInv
  <1>1. CInv /\ [Next]_vars => CInv'
    <2> SUFFICES ASSUME CInv, [Next]_vars PROVE CInv'
      OBVIOUS
    <2>1. CASE Next
      BY <2>1, LogWrittenStep, BetweenStreamsStep, OpenStreamStep, SendLogStep, WriteCacheStep
         DEF Next, Process
    <2>2. CASE UNCHANGED vars
      BY <2>2 DEF vars, CInv, TypeOK, SentExists, PassedIsSent, UnsavedIsLast, OneBehind,
         SavedIsSent, CursorKeepsUp
    <2> QED
      BY <2>1, <2>2
  <1> QED
    BY <1>1, CrawlerInit, PTL DEF Spec

\* Whatever run is cut short, every record up to a saved cursor was sent.
THEOREM SavedAlwaysSent == Spec => []SavedIsSent
  <1>1. CInv => SavedIsSent
    BY DEF CInv
  <1> QED
    BY <1>1, CrawlerInvariant, PTL

\* A marked record is saved before a later record of its stream is sent, so that
\* a cut repeats no more than the records since the last cursor.
THEOREM CursorAlwaysKeepsUp == Spec => []CursorKeepsUp
  <1>1. CInv => CursorKeepsUp
    BY DEF CInv
  <1> QED
    BY <1>1, CrawlerInvariant, PTL

\* A record at or before the saved cursor is not sent again.
THEOREM NeverStaleResend == Spec => NoStaleResend
  <1>1. ASSUME CInv, [Next]_vars PROVE [SendLog => pos' > cursor[stream]]_vars
    <2> SUFFICES ASSUME SendLog PROVE pos' > cursor[stream]
      OBVIOUS
    <2>1. /\ stream \in Streams /\ pos' = pos + 1 /\ pos \in Nat
          /\ cursor[stream] \in Nat /\ cursor[stream] <= pos
      BY <1>1, CrawlerAssumption DEF CInv, TypeOK, PassedIsSent, SendLog
    <2> QED
      BY <2>1
  <1> QED
    BY <1>1, CrawlerInvariant, PTL DEF Spec, NoStaleResend

\* The crawler implements AtLeastOnce: it delivers each stream in order and
\* leaves nothing out.
THEOREM CrawlerDelivers == Spec => DeliversAtLeastOnce
  <1>1. Init => Delivery!Init
    BY DEF Init, Delivery!Init
  <1>2. ASSUME CInv, [Next]_vars PROVE [Delivery!Next]_sent
    <2>1. CASE SendLog
      <3>1. /\ stream \in Streams /\ pos \in Nat
            /\ pos = 0 \/ pos \in sent[stream]
            /\ sent' = [sent EXCEPT ![stream] = @ \cup {pos + 1}]
        BY <1>2, <2>1, CrawlerAssumption DEF CInv, TypeOK, PassedIsSent, SendLog
      <3>2. Delivery!Follows(pos + 1, sent[stream])
        BY <3>1 DEF Delivery!Follows
      <3>3. Delivery!Deliver(stream, pos + 1)
        BY <3>1, <3>2 DEF Delivery!Deliver
      <3>4. pos + 1 \in {1} \cup {k + 1 : k \in sent[stream]}
        BY <3>1
      <3> QED
        BY <3>1, <3>3, <3>4 DEF Delivery!Next
    <2>2. CASE UNCHANGED sent
      BY <2>2
    <2>3. SendLog \/ UNCHANGED sent
      BY <1>2 DEF Next, Process, vars, LogWritten, Check, OpenStream, WritePersistentCache,
         StreamEnds, Abort
    <2> QED
      BY <2>1, <2>2, <2>3
  <1> QED
    BY <1>1, <1>2, CrawlerInvariant, PTL DEF Spec, DeliversAtLeastOnce, Delivery!Spec
=============================================================================
