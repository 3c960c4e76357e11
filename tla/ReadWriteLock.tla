--------------------------- MODULE ReadWriteLock ---------------------------
(***************************************************************************)
(* What process/lock.py promises: "A lock object that allows many          *)
(* simultaneous read locks, but only one write lock", and no read lock     *)
(* while there is a write lock.                                            *)
(***************************************************************************)
CONSTANT Threads

VARIABLES reading, writing   \* the threads inside each kind of block

Init == reading = {} /\ writing = {}

EnterRead(t) ==
    /\ t \notin reading
    /\ writing = {}
    /\ reading' = reading \cup {t}
    /\ UNCHANGED writing

ExitRead(t) ==
    /\ t \in reading
    /\ reading' = reading \ {t}
    /\ UNCHANGED writing

EnterWrite(t) ==
    /\ reading = {}
    /\ writing = {}
    /\ writing' = {t}
    /\ UNCHANGED reading

ExitWrite(t) ==
    /\ t \in writing
    /\ writing' = writing \ {t}
    /\ UNCHANGED reading

Next == \E t \in Threads : EnterRead(t) \/ ExitRead(t) \/ EnterWrite(t) \/ ExitWrite(t)

Spec == Init /\ [][Next]_<<reading, writing>>
=============================================================================
