---------------------------- MODULE AtLeastOnce ----------------------------
(***************************************************************************)
(* What a log crawler promises of every stream: a record is delivered for  *)
(* the first time only after its predecessor has been, so that nothing is  *)
(* skipped; delivering it again changes nothing.  That the records of a    *)
(* stream have an order, the same in every run, is an assumption on it.    *)
(***************************************************************************)
EXTENDS Integers

CONSTANT Streams

VARIABLE sent  \* per stream, the numbers of the records delivered

Init == sent = [s \in Streams |-> {}]

Follows(n, delivered) == n = 1 \/ n - 1 \in delivered

Deliver(s, n) ==
    /\ Follows(n, sent[s])
    /\ sent' = [sent EXCEPT ![s] = @ \cup {n}]

Next == \E s \in Streams : \E n \in {1} \cup {k + 1 : k \in sent[s]} : Deliver(s, n)

Spec == Init /\ [][Next]_sent
=============================================================================
