----------------------------- MODULE Discovery -----------------------------
(***************************************************************************)
(* The discovery loops of src/src/backend/mod.rs: `scan_until`, which runs *)
(* a scan of its own, `watch_until`, which listens on one the host runs,   *)
(* and `collect`, which both share. The adapter has one scan for this      *)
(* client and broadcasts what it hears, and whatever else its central has  *)
(* to tell, to every subscriber.                                           *)
(*                                                                         *)
(*   idle       not searching                                              *)
(*   stopping   owned: stop_scan before the scan, its result ignored       *)
(*   starting   owned: about to call start_scan                            *)
(*   started    owned: start_scan has taken effect, not yet returned       *)
(*   collect    waiting for an event or the end of the window              *)
(*   describe   describing `current`                                       *)
(*   closing    owned: stop_scan after the scan                            *)
(*   failed     as idle, after start_scan was refused: a scan was running  *)
(*   errored    as idle, after another error of a call to the adapter      *)
(*   abandoned  as idle, after the search's future was dropped             *)
(***************************************************************************)
EXTENDS Integers, SequencesExt

CONSTANTS
    Peripherals,   \* what advertises
    Fluke,         \* those that advertise the reading service
    Owned,         \* searches that run their own scan
    Passive,       \* searches that rely on the host's
    Accept,        \* of each search, the devices whose discovery ends it:
                   \* none for scan, all for *_first, one for *_by_address
    EventBuffer    \* the broadcast's depth: a slow subscriber loses events

ASSUME DevicesAssumption == Fluke \subseteq Peripherals
ASSUME SearchesAssumption == Owned \cap Passive = {}
ASSUME AcceptAssumption == Accept \in [Owned \cup Passive -> SUBSET Fluke]
ASSUME BufferAssumption == EventBuffer \in Nat \ {0}

VARIABLES
    pc,        \* of each search
    events,    \* its event stream
    found,     \* the devices it has found, in order
    current,   \* the peripheral it is describing, if any
    owed,      \* devices heard in its window that it has yet to report
    scanning,  \* the adapter is scanning for this client
    alone      \* no host has touched the scan, and every stop has succeeded

scan == <<scanning, alone>>
vars == <<pc, events, found, current, owed, scan>>

Searches == Owned \cup Passive

(* An event is the peripheral that its advertisement concerns, or none for  *)
(* any other event, which takes a place in the broadcast all the same.      *)
CentralEvents == {{}} \cup {{id} : id \in Peripherals}

Subscribed == {"stopping", "starting", "started", "collect", "describe"}
Resting == {"idle", "failed", "errored", "abandoned"}
Listening == {"started", "collect", "describe"}

Init ==
    /\ pc = [s \in Searches |-> "idle"]
    /\ events = [s \in Searches |-> << >>]
    /\ found = [s \in Searches |-> << >>]
    /\ current = [s \in Searches |-> {}]
    /\ owed = [s \in Searches |-> {}]
    /\ scanning = FALSE
    /\ alone = TRUE

Goto(s, from, to) == pc[s] = from /\ pc' = [pc EXCEPT ![s] = to]

(* stop_scan may fail, its result is ignored.                               *)
StopScan ==
    \/ scanning' = FALSE /\ UNCHANGED alone
    \/ alone' = FALSE /\ UNCHANGED scanning

Opening(s) == IF s \in Owned THEN "stopping" ELSE "collect"

\* Mutant: the passive loop stops the scan it listened on.
FinishStops(s) == "closing"

\* Mutant: a search that has what it looked for leaves its scan running.
FinishScanning(s) == "idle"

Finish(s) == IF s \in Owned THEN "closing" ELSE "idle"

(* The search's stream of events is new, or dropped.                        *)
NoEvents(s) ==
    /\ events' = [events EXCEPT ![s] = << >>]
    /\ owed' = [owed EXCEPT ![s] = {}]

\* Mutant: no stop_scan before the scan.
BeginWithoutStop(s) ==
    /\ \E from \in Resting :
        Goto(s, from, IF s \in Owned THEN "starting" ELSE "collect")
    /\ NoEvents(s)
    /\ found' = [found EXCEPT ![s] = << >>]
    /\ UNCHANGED <<current, scan>>

(* The search subscribes to the adapter's events before anything else.      *)
Begin(s) ==
    /\ \E from \in Resting : Goto(s, from, Opening(s))
    /\ NoEvents(s)
    /\ found' = [found EXCEPT ![s] = << >>]
    /\ UNCHANGED <<current, scan>>

(* The reconnecting stream forgets the adapter's peripherals before a       *)
(* search that owns its scan, and reports a failure of that.                *)
ForgetFails(s) ==
    /\ s \in Owned
    /\ \E from \in Resting : Goto(s, from, "errored")
    /\ UNCHANGED <<events, found, current, owed, scan>>

(* Subscribing to the events fails.                                         *)
EventsFail(s) ==
    /\ \E from \in Resting : Goto(s, from, "errored")
    /\ UNCHANGED <<events, found, current, owed, scan>>

StopFirst(s) ==
    /\ Goto(s, "stopping", "starting")
    /\ StopScan
    /\ UNCHANGED <<events, found, current, owed>>

(* A scan already running makes start_scan fail.                            *)
StartScan(s) ==
    /\ IF scanning
         THEN Goto(s, "starting", "failed") /\ NoEvents(s)
         ELSE Goto(s, "starting", "started") /\ UNCHANGED <<events, owed>>
    /\ scanning' = TRUE
    /\ UNCHANGED <<found, current, alone>>

\* Mutant: events are subscribed to once the scan has started.
StartedSubscribes(s) ==
    /\ Goto(s, "started", "collect")
    /\ events' = [events EXCEPT ![s] = << >>]
    /\ UNCHANGED <<found, current, owed, scan>>

(* It may fail for other reasons, the adapter being off for one.            *)
StartScanFails(s) ==
    /\ Goto(s, "starting", "errored")
    /\ NoEvents(s)
    /\ UNCHANGED <<found, current, scan>>

Started(s) ==
    /\ Goto(s, "started", "collect")
    /\ UNCHANGED <<events, found, current, owed, scan>>

\* Mutant: a peripheral is described again each time it advertises.
TakeAgain(s) ==
    /\ events[s] # << >>
    /\ events' = [events EXCEPT ![s] = Tail(@)]
    /\ Goto(s, "collect", IF Head(events[s]) = {} THEN "collect" ELSE "describe")
    /\ current' = [current EXCEPT ![s] = Head(events[s])]
    /\ UNCHANGED <<found, owed, scan>>

(* Only an advertisement of a peripheral not found yet is looked into.      *)
Take(s) ==
    /\ events[s] # << >>
    /\ events' = [events EXCEPT ![s] = Tail(@)]
    /\ LET fresh == Head(events[s]) \ Range(found[s])
       IN  /\ Goto(s, "collect", IF fresh = {} THEN "collect" ELSE "describe")
           /\ current' = [current EXCEPT ![s] = fresh]
    /\ UNCHANGED <<found, owed, scan>>

(* describe fails or says the peripheral is not ours: it is not recorded,   *)
(* and tried again when it next advertises.                                 *)
DescribeFails(s) ==
    /\ Goto(s, "describe", "collect")
    /\ current' = [current EXCEPT ![s] = {}]
    /\ owed' = [owed EXCEPT ![s] = @ \ current[s]]
    /\ UNCHANGED <<events, found, scan>>

\* Mutant: the device looked for is never recognised.
StopsNever(s, id) == FALSE

Stops(s, id) == id \in Accept[s]

Described(s) ==
    /\ \E id \in current[s] \cap Fluke :
        /\ IF Stops(s, id)
             THEN Goto(s, "describe", Finish(s)) /\ NoEvents(s)
             ELSE /\ Goto(s, "describe", "collect")
                  /\ owed' = [owed EXCEPT ![s] = @ \ {id}]
                  /\ UNCHANGED events
        /\ found' = [found EXCEPT ![s] = Append(@, id)]
    /\ current' = [current EXCEPT ![s] = {}]
    /\ UNCHANGED scan

\* Mutant: the scan is left running.
WindowEndsScanning(s) ==
    /\ Goto(s, "collect", "idle")
    /\ NoEvents(s)
    /\ UNCHANGED <<found, current, scan>>

\* Mutant: a waiting event goes before the deadline.
WindowEndsIdle(s) ==
    /\ events[s] = << >>
    /\ Goto(s, "collect", Finish(s))
    /\ NoEvents(s)
    /\ UNCHANGED <<found, current, scan>>

(* The deadline, or the end of the event stream.                            *)
WindowEnds(s) ==
    /\ Goto(s, "collect", Finish(s))
    /\ NoEvents(s)
    /\ UNCHANGED <<found, current, scan>>

StopAfter(s) ==
    /\ Goto(s, "closing", "idle")
    /\ StopScan
    /\ UNCHANGED <<events, found, current, owed>>

(* The search's future is dropped: whatever scan it started goes on.        *)
Abandon(s) ==
    /\ \E from \in Subscribed \cup {"closing"} : Goto(s, from, "abandoned")
    /\ current' = [current EXCEPT ![s] = {}]
    /\ found' = [found EXCEPT ![s] = << >>]
    /\ NoEvents(s)
    /\ UNCHANGED scan

\* Mutant: a slow subscriber keeps every event.
HeardUnbounded(s, event) == Append(events[s], event)

(* An event reaches every subscriber; one that lags loses its oldest.       *)
Heard(s, event) == IF Len(events[s]) < EventBuffer
                     THEN Append(events[s], event)
                     ELSE Append(Tail(events[s]), event)

Lagged(s) == IF Len(events[s]) < EventBuffer THEN {} ELSE Head(events[s])

Broadcast(event) ==
    /\ events' = [s \in Searches |->
                    IF pc[s] \in Subscribed THEN Heard(s, event) ELSE events[s]]
    /\ owed' = [s \in Searches |->
                  IF pc[s] \in Listening
                    THEN (owed[s] \ Lagged(s))
                           \cup ((event \cap Fluke) \ Range(found[s]))
                    ELSE owed[s]]
    /\ UNCHANGED <<pc, found, current, scan>>

Advertise(id) == scanning /\ Broadcast({id})

(* A device connects or disconnects, the adapter changes its state.         *)
OtherEvent == Broadcast({})

(* A host starts or stops a scan on the same adapter.                       *)
HostToggles ==
    /\ scanning' = ~scanning
    /\ alone' = FALSE
    /\ UNCHANGED <<pc, events, found, current, owed>>

Progress(s) ==
    \/ StopFirst(s) \/ StartScan(s) \/ StartScanFails(s) \/ Started(s)
    \/ Take(s) \/ Described(s) \/ DescribeFails(s) \/ WindowEnds(s) \/ StopAfter(s)

Next ==
    \/ \E s \in Searches :
        Begin(s) \/ ForgetFails(s) \/ EventsFail(s) \/ Progress(s) \/ Abandon(s)
    \/ \E id \in Peripherals : Advertise(id)
    \/ OtherEvent
    \/ HostToggles

Spec == Init /\ [][Next]_vars

(* Calls into the adapter return and the deadline, once reached, is chosen  *)
(* over a waiting event some of the times the select sees both.             *)
Fairness == \A s \in Searches :
    /\ WF_vars(Progress(s))
    /\ SF_vars(WindowEnds(s))

FairSpec == Spec /\ Fairness

---------------------------------------------------------------------------
TypeOK ==
    /\ pc \in [Searches -> Subscribed \cup Resting \cup {"closing"}]
    /\ events \in [Searches -> Seq(CentralEvents)]
    /\ \A s \in Searches : Len(events[s]) <= EventBuffer
    /\ found \in [Searches -> Seq(Fluke)]
    /\ current \in [Searches -> SUBSET Peripherals]
    /\ owed \in [Searches -> SUBSET Fluke]
    /\ scanning \in BOOLEAN
    /\ alone \in BOOLEAN

(* first and by_address: what a search with an accepting condition may      *)
(* return.                                                                  *)
Returned(s) == {id \in Range(found[s]) : Stops(s, id)}

(* A peripheral is reported once, however often it advertises and however   *)
(* often describing it failed before, and a search goes on until the device *)
(* it looks for and no further: that is the last one it has found, and what *)
(* it returns.                                                              *)
FoundOnce == \A s \in Searches :
    /\ IsInjective(found[s])
    /\ Returned(s) # {} =>
         pc[s] \notin Listening /\ Returned(s) = {Last(found[s])}

(* The peripherals that waiting events concern.                             *)
Concerned(waiting) == UNION Range(waiting)

(* A device that advertised since the search's scan took effect is found,   *)
(* still queued or being described, unless describing it failed or the      *)
(* search lagged behind the broadcast.                                      *)
NothingMissed == \A s \in Searches :
    pc[s] \in Listening => owed[s] \subseteq Concerned(events[s]) \cup current[s]

(* Without another owner of the scan, a search listens only while the scan  *)
(* it started runs.                                                         *)
ScanRunsInWindow == \A s \in Owned :
    (alone /\ Owned = {s} /\ pc[s] \in Listening) => scanning

(* Without another owner, start_scan is never refused for a scan still      *)
(* running, though the search before was abandoned in the middle of it.     *)
StartAccepted == \A s \in Owned : (alone /\ Owned = {s}) => pc[s] # "failed"

(* A search that returned has not left its scan running.                    *)
NoScanLeft ==
    (alone /\ \A s \in Owned : pc[s] = "idle") => ~scanning

(* A search returns, however much there is to hear, unless it is dropped.   *)
SearchEnds == \A s \in Searches : pc[s] = "collect" ~> pc[s] \in Resting
=============================================================================
