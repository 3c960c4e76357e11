---------------------------- MODULE SnmpDiscovery ---------------------------
(***************************************************************************)
(* SNMP autodiscovery (snmp/discovery.py and snmp/snmp.py): a thread scans *)
(* the network, adds the hosts that answer to discovered_instances and     *)
(* persists their list; each check run checks the discovered hosts in a    *)
(* thread pool, and the callback of a host that has failed too often       *)
(* removes it.  A host that answers the scan may fail its check.           *)
(* futures.wait returns when the futures are done, which is before their   *)
(* callbacks have run.                                                     *)
(***************************************************************************)
EXTENDS Integers, Sequences

CONSTANTS
    Hosts,        \* the addresses of the network
    Allowed,      \* discovery_allowed_failures
    Prompt,       \* callbacks run before the next check run
    BadProfile,   \* the hosts whose profile cannot be parsed
    MaxChanges,   \* bound on how often the state of a device changes
    MaxRestarts   \* bound on the restarts of the Agent

ASSUME SnmpAssumption ==
    /\ Allowed \in Nat \ {0}
    /\ Prompt \in BOOLEAN /\ BadProfile \subseteq Hosts
    /\ MaxChanges \in Nat /\ MaxRestarts \in Nat

VARIABLES
    device,      \* per host, whether it is "gone", answers in "part" of what the check
                 \* asks for, or is "well"
    discovered,  \* discovered_instances
    failing,     \* failing_instances, 0 if absent
    persisted,   \* the hosts in the persistent cache
    thread,      \* the discovery thread
    todo,        \* the hosts its scan has not come to
    running,     \* the hosts whose check has been submitted
    callbacks,   \* per host, the results whose callback has not run yet
    check,       \* the check run: "idle" or "waiting"
    fails,       \* history: failures in a row since the host was discovered
    changes, restarts

discoveryVars == <<device, discovered, failing, persisted, thread, todo, running,
                   callbacks, check, fails, changes, restarts>>
bounds == <<changes, restarts>>

NoHost == [h \in Hosts |-> 0]

DiscoveryInit ==
    /\ device = [h \in Hosts |-> "gone"] /\ discovered = {} /\ persisted = {}
    /\ failing = NoHost /\ fails = NoHost
    /\ thread = "none" /\ todo = {}
    /\ running = {} /\ callbacks = [h \in Hosts |-> <<>>]
    /\ check = "idle"
    /\ changes = 0 /\ restarts = 0

Answers(h) == device[h] # "gone"

HostChanges(h) ==
    /\ changes < MaxChanges
    /\ changes' = changes + 1
    /\ \E state \in {"gone", "part", "well"} : device' = [device EXCEPT ![h] = state]
    /\ UNCHANGED <<discovered, failing, persisted, thread, todo, running, callbacks,
                   check, fails, restarts>>
-----------------------------------------------------------------------------
(* discover_instances *)

\* Mutant: the iterator over the network is made once and is empty afterwards.
MutNetworkHosts == IF thread = "none" THEN Hosts ELSE {}

NetworkHosts == Hosts

\* network_hosts leaves out the hosts that are known when it comes to them.
ToScan(h) == h \notin discovered

\* The host is known, does not answer or matches no profile.
SkipHost(h) ==
    /\ thread = "scan" /\ h \in todo
    /\ ~Answers(h) \/ ~ToScan(h)
    /\ todo' = todo \ {h}
    /\ UNCHANGED <<device, discovered, failing, persisted, thread, running, callbacks,
                   check, fails, bounds>>

AddHost(h) ==
    /\ thread = "scan" /\ h \in todo
    /\ Answers(h) /\ h \notin BadProfile /\ ToScan(h)
    /\ todo' = todo \ {h}
    /\ discovered' = discovered \cup {h}
    /\ fails' = [fails EXCEPT ![h] = 0]
    /\ thread' = "persist"
    /\ UNCHANGED <<device, failing, persisted, running, callbacks, check, bounds>>

WriteCache ==
    /\ thread = "persist"
    /\ persisted' = discovered
    /\ thread' = "scan"
    /\ UNCHANGED <<device, discovered, failing, todo, running, callbacks, check, fails, bounds>>

\* Mutant: nothing is written at the end of the loop.
MutFinalList == persisted

FinalList == discovered

\* The list is written once more; the thread sleeps until the next scan.
EndOfLoop ==
    /\ thread = "scan" /\ todo = {}
    /\ persisted' = FinalList
    /\ thread' = "sleep"
    /\ UNCHANGED <<device, discovered, failing, todo, running, callbacks, check, fails, bounds>>

ScanAgain ==
    /\ thread = "sleep"
    /\ thread' = "scan"
    /\ todo' = NetworkHosts
    /\ UNCHANGED <<device, discovered, failing, persisted, running, callbacks, check, fails, bounds>>

\* refresh_with_profile raises in the else clause, which nothing catches.
ThreadDies(h) ==
    /\ thread = "scan" /\ h \in todo
    /\ Answers(h) /\ h \in BadProfile /\ ToScan(h)
    /\ thread' = "dead"
    /\ UNCHANGED <<device, discovered, failing, persisted, todo, running, callbacks,
                   check, fails, bounds>>
-----------------------------------------------------------------------------
(* check *)

StartDiscovery ==
    /\ check = "idle" /\ thread = "none"
    /\ discovered' = discovered \cup persisted
    /\ thread' = "scan"
    /\ todo' = NetworkHosts
    /\ UNCHANGED <<device, failing, persisted, running, callbacks, check, fails, bounds>>

\* The bound on callbacks says that none is later than two check runs.
CheckRun ==
    /\ check = "idle" /\ thread # "none"
    /\ \A h \in Hosts : Len(callbacks[h]) < (IF Prompt THEN 1 ELSE 2)
    /\ running' = discovered
    /\ check' = "waiting"
    /\ UNCHANGED <<device, discovered, failing, persisted, thread, todo, callbacks, fails, bounds>>

\* _check_device reports an error unless everything it asks for is answered.
CheckDevice(h) ==
    /\ h \in running
    /\ running' = running \ {h}
    /\ callbacks' = [callbacks EXCEPT ![h] = Append(@, device[h] = "well")]
    /\ UNCHANGED <<device, discovered, failing, persisted, thread, todo, check, fails, bounds>>

CheckDone ==
    /\ check = "waiting" /\ running = {}
    /\ check' = "idle"
    /\ UNCHANGED <<device, discovered, failing, persisted, thread, todo, running, callbacks,
                   fails, bounds>>

\* Mutant: the counter is not reset.
MutAfterSuccess(n) == n

TooMany(n) == n >= Allowed

AfterSuccess(n) == 0

\* _on_check_device_done.  Removing a host that is gone raises KeyError before
\* its counter is reset.
Callback(h) ==
    /\ callbacks[h] # <<>>
    /\ callbacks' = [callbacks EXCEPT ![h] = Tail(@)]
    /\ LET ok == Head(callbacks[h])
           n == IF ok THEN AfterSuccess(failing[h]) ELSE failing[h] + 1
           remove == ~ok /\ TooMany(n)
       IN  /\ discovered' = IF remove THEN discovered \ {h} ELSE discovered
           /\ failing' = [failing EXCEPT ![h] = IF remove /\ h \in discovered THEN 0 ELSE n]
           /\ fails' = [fails EXCEPT ![h] = IF ok THEN 0 ELSE @ + 1]
    /\ UNCHANGED <<device, persisted, thread, todo, running, check, bounds>>

Restart ==
    /\ thread # "none" /\ restarts < MaxRestarts
    /\ restarts' = restarts + 1
    /\ discovered' = {} /\ failing' = NoHost /\ fails' = NoHost
    /\ thread' = "none" /\ todo' = {}
    /\ running' = {} /\ callbacks' = [h \in Hosts |-> <<>>]
    /\ check' = "idle"
    /\ UNCHANGED <<device, persisted, changes>>

Scan ==
    \/ \E h \in Hosts : SkipHost(h) \/ AddHost(h) \/ ThreadDies(h)
    \/ WriteCache \/ EndOfLoop \/ ScanAgain

Check ==
    \/ StartDiscovery \/ CheckRun \/ CheckDone
    \/ \E h \in Hosts : CheckDevice(h) \/ Callback(h)

DiscoveryNext ==
    \/ \E h \in Hosts : HostChanges(h)
    \/ Scan \/ Check \/ Restart

DiscoverySpec == DiscoveryInit /\ [][DiscoveryNext]_discoveryVars

\* The thread and the workers are scheduled and the check is run for ever.
FairDiscoverySpec == DiscoverySpec /\ WF_discoveryVars(Scan) /\ WF_discoveryVars(Check)
-----------------------------------------------------------------------------
\* With prompt callbacks a host has at most one that has not run, and fewer
\* failures than make it be removed.
DiscoveryTypeOK ==
    /\ device \in [Hosts -> {"gone", "part", "well"}] /\ discovered \subseteq Hosts /\ persisted \subseteq Hosts
    /\ failing \in [Hosts -> 0 .. Allowed - 1]
    /\ thread \in {"none", "scan", "persist", "sleep", "dead"}
    /\ todo \subseteq Hosts /\ running \subseteq Hosts
    /\ callbacks \in [Hosts -> {<<>>} \cup [1 .. 1 -> BOOLEAN]]
    /\ check \in {"idle", "waiting"}
    /\ fails \in [Hosts -> 0 .. Allowed]
    /\ changes \in 0 .. MaxChanges /\ restarts \in 0 .. MaxRestarts

\* "Number of times a discovered host can fail before it is removed": a host is
\* removed by the failure that makes it that many in a row since it was discovered,
\* no earlier and no later, whatever the thread does meanwhile.
RemovedAfterFailures ==
    [][restarts' = restarts =>
          \A h \in discovered : (h \notin discovered') <=> (fails'[h] >= Allowed)]_discoveryVars

\* A host that is gone for good is dropped from the list, and from the list on
\* disk that a restart would start from unless the thread that writes it has died.
GoneIsForgotten ==
    \A h \in Hosts : <>[](~Answers(h)) =>
        <>[](h \notin discovered /\ (h \in persisted => thread = "dead"))

\* "we'll re-discover it later if it reappears": a host that answers and has a
\* profile is found again however often its check fails and it is removed, and one
\* that stays well is found and kept, unless a host with a bad profile ended the
\* thread.
FoundLater ==
    \A h \in Hosts \ BadProfile :
        /\ <>[](Answers(h)) => []<>(h \in discovered \/ thread = "dead")
        /\ <>[](device[h] = "well") => <>[](h \in discovered \/ thread = "dead")
=============================================================================
