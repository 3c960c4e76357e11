---------------------------- MODULE LogCrawler -----------------------------
(***************************************************************************)
(* A check that crawls log streams (base/checks/logs/crawler/base.py): for *)
(* each stream it reads the persisted cursor, sends the records after it   *)
(* and, for each record that carries a cursor, saves that cursor once the  *)
(* record is sent.  The records of a stream are numbered from 1; a cursor  *)
(* is the number of its record, 0 for none.  An exception and a crash of   *)
(* the Agent lose the same state, the progress of the iteration.           *)
(***************************************************************************)
EXTENDS Integers, Functions, FiniteSetsExt

CONSTANTS
    Streams,
    NoStream,
    Marked,     \* the records that carry a cursor
    MaxRecords, \* bound on the records of a stream
    MaxAborts   \* bound on the check runs that are cut short

ASSUME CrawlerAssumption ==
    /\ NoStream \notin Streams
    /\ Marked \subseteq Nat \ {0}
    /\ MaxRecords \in Nat
    /\ MaxAborts \in Nat

VARIABLES
    records,  \* per stream, how many records the source holds
    cursor,   \* per stream, the cursor in the persistent cache
    todo,     \* streams the running process_streams has not opened yet
    stream,   \* the stream it is reading
    pos,      \* the record of it that was read last
    unsaved,  \* that record is sent and its cursor is not saved yet
    sent,     \* per stream, the records the Agent received
    aborts

vars == <<records, cursor, todo, stream, pos, unsaved, sent, aborts>>

Init ==
    /\ records = [s \in Streams |-> 0]
    /\ cursor = [s \in Streams |-> 0]
    /\ todo = {}
    /\ stream = NoStream
    /\ pos = 0
    /\ unsaved = FALSE
    /\ sent = [s \in Streams |-> {}]
    /\ aborts = 0

LogWritten(s) ==
    /\ records[s] < MaxRecords
    /\ records' = [records EXCEPT ![s] = @ + 1]
    /\ UNCHANGED <<cursor, todo, stream, pos, unsaved, sent, aborts>>

Check ==
    /\ stream = NoStream /\ todo = {}
    /\ todo' = Streams
    /\ UNCHANGED <<records, cursor, stream, pos, unsaved, sent, aborts>>

\* Mutants: the cursor is ignored; it is shared by all streams; it is read as
\* the next record to send.
MutIgnored(s) == 0
MutShared(s) == Max(Range(cursor))
MutNext(s) == IF cursor[s] = 0 THEN 0 ELSE cursor[s] + 1

\* The record that stream.records(cursor=...) starts after.
GetLogCursor(s) == cursor[s]

OpenStream(s) ==
    /\ stream = NoStream /\ s \in todo
    /\ todo' = todo \ {s}
    /\ stream' = s
    /\ pos' = GetLogCursor(s)
    /\ UNCHANGED <<records, cursor, unsaved, sent, aborts>>

\* Mutant: a cursor that is falsy counts as None.
MutTruthy(n) == n \in Marked \ {1}

CarriesCursor(n) == n \in Marked

HasNext == pos < records[stream]

SendLog ==
    /\ stream # NoStream /\ ~unsaved
    /\ HasNext
    /\ pos' = pos + 1
    /\ sent' = [sent EXCEPT ![stream] = @ \cup {pos + 1}]
    /\ unsaved' = CarriesCursor(pos + 1)
    /\ UNCHANGED <<records, cursor, todo, stream, aborts>>

\* Mutant: the cursor of the record that comes next.
MutRecordCursor == pos + 1

RecordCursor == pos

WritePersistentCache ==
    /\ unsaved
    /\ unsaved' = FALSE
    /\ cursor' = [cursor EXCEPT ![stream] = RecordCursor]
    /\ UNCHANGED <<records, todo, stream, pos, sent, aborts>>

StreamEnds ==
    /\ stream # NoStream /\ ~unsaved
    /\ pos = records[stream]
    /\ stream' = NoStream
    /\ UNCHANGED <<records, cursor, todo, pos, unsaved, sent, aborts>>

\* records(), send_log or the cache raises, or the Agent dies.
Abort ==
    /\ aborts < MaxAborts
    /\ stream # NoStream
    /\ aborts' = aborts + 1
    /\ todo' = {} /\ stream' = NoStream /\ unsaved' = FALSE
    /\ UNCHANGED <<records, cursor, pos, sent>>

Process ==
    \/ Check
    \/ \E s \in Streams : OpenStream(s)
    \/ SendLog
    \/ WritePersistentCache
    \/ StreamEnds

Next ==
    \/ \E s \in Streams : LogWritten(s)
    \/ Process
    \/ Abort

Spec == Init /\ [][Next]_vars

\* The Agent keeps running the check; aborts are bounded by MaxAborts.
FairSpec == Spec /\ WF_vars(Process)
-----------------------------------------------------------------------------
TypeOK ==
    /\ records \in [Streams -> 0 .. MaxRecords]
    /\ cursor \in [Streams -> 0 .. MaxRecords]
    /\ todo \subseteq Streams
    /\ stream \in Streams \cup {NoStream}
    /\ pos \in 0 .. MaxRecords
    /\ unsaved \in BOOLEAN
    /\ sent \in [Streams -> SUBSET (1 .. MaxRecords)]
    /\ aborts \in 0 .. MaxAborts

\* Saving after sending loses nothing: whatever run is cut short, and wherever,
\* every record up to a saved cursor has been sent (send_log, in this order).
SavedIsSent == \A s \in Streams : 1 .. cursor[s] \subseteq sent[s]

\* A cut costs no more than the records since the last cursor: a record that
\* carries one is saved before any later record of its stream is sent.
CursorKeepsUp ==
    \A s \in Streams, n \in Marked :
        cursor[s] < n => \A k \in sent[s] : k <= n

\* A record at or before the saved cursor is never sent again.
NoStaleResend ==
    [][SendLog => pos' > cursor[stream]]_vars

\* The crawler delivers every stream in order, without gaps, at least once.
Delivery == INSTANCE AtLeastOnce
DeliversAtLeastOnce == Delivery!Spec

\* Every record is eventually sent, across the runs that are cut short.
EverythingSent ==
    \A s \in Streams, n \in 1 .. MaxRecords :
        records[s] >= n ~> n \in sent[s]
=============================================================================
