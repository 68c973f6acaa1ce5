-------------------------- MODULE DiscoveryProofs --------------------------
(* Proofs about Discovery, for any searches, peripherals and buffer.        *)
EXTENDS Discovery, SequenceTheorems, TLAPS

(* What appending and taking the head do to a sequence's elements.          *)
LEMMA RangeAppend ==
    ASSUME NEW S, NEW q \in Seq(S), NEW e
    PROVE  Range(Append(q, e)) = Range(q) \cup {e}
<1>1. /\ DOMAIN q = 1..Len(q) /\ Len(q) \in Nat
      /\ DOMAIN Append(q, e) = 1..(Len(q) + 1)
      /\ \A i \in 1..Len(q) : Append(q, e)[i] = q[i]
      /\ Append(q, e)[Len(q) + 1] = e
  OBVIOUS
<1> QED
  BY <1>1 DEF Range

(* What taking the first event leaves in a buffer.                          *)
LEMMA RangeTail ==
    ASSUME NEW S, NEW q \in Seq(S), q # << >>
    PROVE  /\ Tail(q) \in Seq(S)
           /\ Head(q) \in S
           /\ Head(q) \in Range(q)
           /\ Range(q) \subseteq Range(Tail(q)) \cup {Head(q)}
           /\ Range(Tail(q)) \subseteq S
<1>1. /\ DOMAIN q = 1..Len(q) /\ Len(q) \in Nat \ {0}
      /\ DOMAIN Tail(q) = 1..(Len(q) - 1)
      /\ \A i \in 1..(Len(q) - 1) : Tail(q)[i] = q[i + 1]
      /\ Head(q) = q[1] /\ Tail(q) \in Seq(S)
  OBVIOUS
<1>2. ASSUME NEW i \in 2..Len(q) PROVE q[i] \in Range(Tail(q))
  <2>1. i - 1 \in 1..(Len(q) - 1) /\ Tail(q)[i - 1] = q[i]
    BY <1>1
  <2> QED
    BY <1>1, <2>1 DEF Range
<1>3. Range(q) \subseteq Range(Tail(q)) \cup {Head(q)}
  BY <1>1, <1>2 DEF Range
<1>4. Range(Tail(q)) \subseteq S
  BY <1>1 DEF Range
<1>5. Head(q) \in S /\ Head(q) \in Range(q)
  <2>1. 1 \in DOMAIN q
    BY <1>1
  <2> QED
    BY <1>1, <2>1 DEF Range
<1> QED
  BY <1>1, <1>3, <1>4, <1>5

(* The elements of a sequence over S are in S.                              *)
LEMMA RangeTyped ==
    ASSUME NEW S, NEW q \in Seq(S)
    PROVE  Range(q) \subseteq S
  BY DEF Range

(* What a subscriber's events concern once there is one more.               *)
LEMMA ConcernAppend ==
    ASSUME NEW q \in Seq(CentralEvents), NEW event
    PROVE  Concerned(Append(q, event)) = Concerned(q) \cup event
<1>1. Range(Append(q, event)) = Range(q) \cup {event}
  BY RangeAppend
<1> QED
  BY <1>1 DEF Concerned

(* An event that is taken concerns what no other may any more.              *)
LEMMA ConcernTail ==
    ASSUME NEW q \in Seq(CentralEvents), q # << >>
    PROVE  /\ Tail(q) \in Seq(CentralEvents)
           /\ Head(q) \in CentralEvents
           /\ Concerned(q) \subseteq Concerned(Tail(q)) \cup Head(q)
<1>1. /\ Tail(q) \in Seq(CentralEvents) /\ Head(q) \in CentralEvents
      /\ Range(q) \subseteq Range(Tail(q)) \cup {Head(q)}
  BY RangeTail
<1> QED
  BY <1>1 DEF Concerned

(* A sequence without repetition gets a new element.                        *)
LEMMA InjectiveAppend ==
    ASSUME NEW S, NEW q \in Seq(S), NEW e, IsInjective(q), e \notin Range(q)
    PROVE  IsInjective(Append(q, e))
<1>1. /\ DOMAIN q = 1..Len(q) /\ Len(q) \in Nat
      /\ DOMAIN Append(q, e) = 1..(Len(q) + 1)
      /\ \A i \in 1..Len(q) : Append(q, e)[i] = q[i]
      /\ Append(q, e)[Len(q) + 1] = e
  OBVIOUS
<1>2. \A i \in 1..Len(q) : q[i] # e
  BY <1>1 DEF Range
<1> QED
  BY <1>1, <1>2 DEF IsInjective

---------------------------------------------------------------------------
(* What holds of one search at a time *)

(* Only a search that owns the scan starts or stops it.                     *)
Owns(s) == pc[s] \in {"stopping", "starting", "started", "closing"} => s \in Owned

(* Nothing is owed outside the window, nor has been found before it.        *)
Quiet(s) ==
    /\ pc[s] \notin Listening => owed[s] = {}
    /\ pc[s] \in {"stopping", "starting", "started"} => found[s] = << >>

(* What is being described is one peripheral, not found before.             *)
Describing(s) ==
    /\ pc[s] # "describe" => current[s] = {}
    /\ pc[s] = "describe" =>
         \E id \in Peripherals : current[s] = {id} /\ id \notin Range(found[s])

Owing(s) ==
    /\ owed[s] \cap Range(found[s]) = {}
    /\ pc[s] \in Listening => owed[s] \subseteq Concerned(events[s]) \cup current[s]

(* The device looked for is the last one found, and ends the window.        *)
Distinct(s) ==
    /\ IsInjective(found[s])
    /\ \A i \in 1..Len(found[s]) :
         Stops(s, found[s][i]) => i = Len(found[s]) /\ pc[s] \notin Listening

SearchInv(s) == Owns(s) /\ Quiet(s) /\ Describing(s) /\ Owing(s) /\ Distinct(s)

(* A step of one search leaves the others as they are.                      *)
Alike(s) ==
    /\ pc'[s] = pc[s] /\ events'[s] = events[s] /\ found'[s] = found[s]
    /\ current'[s] = current[s] /\ owed'[s] = owed[s]

(* What holds of a search holds as long as its own state is left alone.     *)
LEMMA AlikeKeeps ==
    ASSUME NEW s, Alike(s), SearchInv(s)
    PROVE  SearchInv(s)'
  BY DEF Alike, SearchInv, Owns, Quiet, Describing, Owing, Distinct, Stops

Places == Subscribed \cup Resting \cup {"closing"}

(* A move of a search leaves every search at a place.                       *)
LEMMA GotoTyped ==
    ASSUME TypeOK, NEW t \in Searches, NEW from, NEW to \in Places, Goto(t, from, to)
    PROVE  pc' \in [Searches -> Places]
  BY DEF TypeOK, Goto, Places

(* Emptied buffers keep their types.                                        *)
LEMMA NoEventsTyped ==
    ASSUME TypeOK, NEW t \in Searches, NoEvents(t)
    PROVE  /\ events' \in [Searches -> Seq(CentralEvents)]
           /\ \A s \in Searches : Len(events'[s]) <= EventBuffer
           /\ owed' \in [Searches -> SUBSET Fluke]
<1>1. << >> \in Seq(CentralEvents) /\ Len(<< >>) <= EventBuffer
  BY BufferAssumption
<1> QED
  BY <1>1 DEF TypeOK, NoEvents

(* The places the helpers name are places.                                  *)
LEMMA NamesTyped ==
    ASSUME NEW t
    PROVE  /\ Opening(t) \in Places /\ Finish(t) \in Places
           /\ Subscribed \subseteq Places /\ Resting \subseteq Places
           /\ {"stopping", "starting", "started", "collect", "describe", "closing",
               "idle", "failed", "errored", "abandoned"} \subseteq Places
  BY DEF Opening, Finish, Places, Subscribed, Resting

(* Every step of a search, the device or a host keeps the types.            *)
LEMMA TypeStep == TypeOK /\ [Next]_vars => TypeOK'
<1> SUFFICES ASSUME TypeOK, [Next]_vars PROVE TypeOK'
  OBVIOUS
<1> USE DEF Places
<1>1. ASSUME NEW t \in Searches, Begin(t) \/ WindowEnds(t) \/ Abandon(t)
      PROVE  TypeOK'
  <2>1. pc' \in [Searches -> Places]
    <3>1. CASE Begin(t)
      BY <3>1, GotoTyped, NamesTyped DEF Begin
    <3>2. CASE WindowEnds(t)
      BY <3>2, GotoTyped, NamesTyped DEF WindowEnds
    <3>3. CASE Abandon(t)
      BY <3>3, GotoTyped, NamesTyped DEF Abandon
    <3> QED
      BY <1>1, <3>1, <3>2, <3>3
  <2>2. found' \in [Searches -> Seq(Fluke)] /\ current' \in [Searches -> SUBSET Peripherals]
    <3>1. << >> \in Seq(Fluke)
      OBVIOUS
    <3>2. found' \in [Searches -> Seq(Fluke)]
      BY <1>1, <3>1 DEF Begin, WindowEnds, Abandon, TypeOK
    <3>3. current' \in [Searches -> SUBSET Peripherals]
      BY <1>1 DEF Begin, WindowEnds, Abandon, TypeOK
    <3> QED
      BY <3>2, <3>3
  <2>3. NoEvents(t)
    BY <1>1 DEF Begin, WindowEnds, Abandon
  <2> QED
    BY <1>1, <2>1, <2>2, <2>3, NoEventsTyped DEF Begin, WindowEnds, Abandon, scan, TypeOK
<1>2. ASSUME NEW t \in Searches,
             ForgetFails(t) \/ EventsFail(t) \/ StopFirst(t) \/ StartScan(t)
             \/ StartScanFails(t) \/ Started(t) \/ StopAfter(t)
      PROVE  TypeOK'
  <2>1. PICK from \in Places, to \in Places : Goto(t, from, to)
    BY <1>2, NamesTyped
    DEF ForgetFails, EventsFail, StopFirst, StartScan, StartScanFails, Started, StopAfter
  <2>2. pc' \in [Searches -> Places]
    BY <2>1, GotoTyped
  <2>3. NoEvents(t) \/ UNCHANGED <<events, owed>>
    BY <1>2
    DEF ForgetFails, EventsFail, StopFirst, StartScan, StartScanFails, Started, StopAfter
  <2>4. scanning' \in BOOLEAN /\ alone' \in BOOLEAN /\ UNCHANGED <<found, current>>
    BY <1>2
    DEF ForgetFails, EventsFail, StopFirst, StartScan, StartScanFails, Started, StopAfter,
        StopScan, scan, TypeOK
  <2> QED
    BY <2>2, <2>3, <2>4, NoEventsTyped DEF TypeOK
<1>3. ASSUME NEW t \in Searches, Take(t) PROVE TypeOK'
  <2>1. /\ events[t] \in Seq(CentralEvents) /\ events[t] # << >>
        /\ Tail(events[t]) \in Seq(CentralEvents)
        /\ Head(events[t]) \ Range(found[t]) \in SUBSET Peripherals
        /\ Len(Tail(events[t])) <= EventBuffer
    <3>1. events[t] \in Seq(CentralEvents) /\ events[t] # << >>
      BY <1>3 DEF Take, TypeOK
    <3>2. Tail(events[t]) \in Seq(CentralEvents) /\ Head(events[t]) \in CentralEvents
      BY <3>1, ConcernTail
    <3>3. Len(Tail(events[t])) <= EventBuffer
      BY <1>3, <3>1, BufferAssumption DEF TypeOK
    <3> QED
      BY <3>1, <3>2, <3>3 DEF CentralEvents
  <2>2. \A s \in Searches : Len(events'[s]) <= EventBuffer
    BY <1>3, <2>1 DEF Take, TypeOK
  <2>3. events' \in [Searches -> Seq(CentralEvents)]
    BY <1>3, <2>1 DEF Take, TypeOK
  <2>4. current' \in [Searches -> SUBSET Peripherals]
    BY <1>3, <2>1 DEF Take, TypeOK
  <2>5. pc' \in [Searches -> Places]
    BY <1>3, GotoTyped, NamesTyped DEF Take
  <2> QED
    BY <1>3, <2>2, <2>3, <2>4, <2>5 DEF Take, TypeOK, scan
<1>4. ASSUME NEW t \in Searches, DescribeFails(t) PROVE TypeOK'
  <2>1. pc' \in [Searches -> Places]
    BY <1>4, GotoTyped, NamesTyped DEF DescribeFails
  <2> QED
    BY <1>4, <2>1 DEF DescribeFails, TypeOK, scan
<1>5. ASSUME NEW t \in Searches, Described(t) PROVE TypeOK'
  <2>1. PICK id \in current[t] \cap Fluke :
          /\ IF Stops(t, id)
               THEN Goto(t, "describe", Finish(t)) /\ NoEvents(t)
               ELSE /\ Goto(t, "describe", "collect")
                    /\ owed' = [owed EXCEPT ![t] = @ \ {id}]
                    /\ UNCHANGED events
          /\ found' = [found EXCEPT ![t] = Append(@, id)]
    BY <1>5 DEF Described
  <2>2. found' \in [Searches -> Seq(Fluke)] /\ current' \in [Searches -> SUBSET Peripherals]
    BY <1>5, <2>1 DEF Described, TypeOK
  <2>3. CASE Stops(t, id)
    <3>1. pc' \in [Searches -> Places] /\ NoEvents(t)
      BY <2>1, <2>3, GotoTyped, NamesTyped
    <3> QED
      BY <1>5, <2>2, <3>1, NoEventsTyped DEF Described, TypeOK, scan
  <2>4. CASE ~Stops(t, id)
    <3>1. pc' \in [Searches -> Places]
      BY <2>1, <2>4, GotoTyped, NamesTyped
    <3>2. UNCHANGED events /\ owed' \in [Searches -> SUBSET Fluke]
      BY <2>1, <2>4 DEF TypeOK
    <3>3. UNCHANGED scan
      BY <1>5 DEF Described
    <3> QED
      BY <2>2, <3>1, <3>2, <3>3 DEF TypeOK, scan
  <2> QED
    BY <2>3, <2>4
<1>6. ASSUME NEW event \in CentralEvents, Broadcast(event) PROVE TypeOK'
  <2>1. ASSUME NEW s \in Searches
        PROVE  Heard(s, event) \in Seq(CentralEvents) /\ Len(Heard(s, event)) <= EventBuffer
    <3>1. CASE Len(events[s]) < EventBuffer
      BY <3>1, BufferAssumption DEF Heard, TypeOK
    <3>2. CASE ~(Len(events[s]) < EventBuffer)
      <4>1. Len(events[s]) = EventBuffer /\ events[s] # << >>
        BY <3>2, BufferAssumption DEF TypeOK
      <4> QED
        BY <3>2, <4>1, BufferAssumption DEF Heard, TypeOK
    <3> QED
      BY <3>1, <3>2
  <2>2. events' \in [Searches -> Seq(CentralEvents)]
    BY <1>6, <2>1 DEF Broadcast, TypeOK
  <2>3. \A s \in Searches : Len(events'[s]) <= EventBuffer
    BY <1>6, <2>1 DEF Broadcast, TypeOK
  <2>4. owed' \in [Searches -> SUBSET Fluke]
    BY <1>6 DEF Broadcast, TypeOK
  <2> QED
    BY <1>6, <2>2, <2>3, <2>4 DEF Broadcast, TypeOK, scan
<1>7. CASE HostToggles
  BY <1>7 DEF HostToggles, TypeOK
<1>8. CASE UNCHANGED vars
  BY <1>8 DEF vars, scan, TypeOK
<1> QED
  BY <1>1, <1>2, <1>3, <1>4, <1>5, <1>6, <1>7, <1>8
  DEF Next, Progress, Advertise, OtherEvent, CentralEvents

(* The initial state is typed.                                              *)
LEMMA InitTyped == Init => TypeOK
<1> SUFFICES ASSUME Init PROVE TypeOK
  OBVIOUS
<1>1. events \in [Searches -> Seq(CentralEvents)]
  BY DEF Init
<1>2. \A s \in Searches : Len(events[s]) <= EventBuffer
  BY BufferAssumption DEF Init
<1>3. found \in [Searches -> Seq(Fluke)]
  BY DEF Init
<1> QED
  BY <1>1, <1>2, <1>3 DEF Init, TypeOK, Resting

(* The searches keep their state typed, and no buffer outgrows its depth.   *)
THEOREM TypeCorrect == Spec => []TypeOK
  BY InitTyped, TypeStep, PTL DEF Spec

---------------------------------------------------------------------------
(* How a search's own steps keep what holds of it *)

(* A search without found devices, or none it describes, starts afresh.     *)
LEMMA Afresh ==
    ASSUME NEW t,
           pc'[t] \notin Listening, Owns(t)', current'[t] = {}, owed'[t] = {},
           found'[t] = << >>
    PROVE  SearchInv(t)'
<1>1. IsInjective(found'[t]) /\ Len(found'[t]) = 0
  BY DEF IsInjective
<1>2. Quiet(t)' /\ Describing(t)' /\ Owing(t)' /\ Distinct(t)'
  BY <1>1 DEF Quiet, Describing, Owing, Distinct, Listening
<1> QED
  BY <1>2 DEF SearchInv

(* A search that begins owes nothing yet and has found nothing.             *)
LEMMA BeginKeeps ==
    ASSUME TypeOK, NEW t \in Searches, SearchInv(t), Begin(t)
    PROVE  /\ SearchInv(t)'
           /\ \A s \in Searches \ {t} : Alike(s)
<1>1. /\ pc[t] \in Resting /\ pc'[t] = Opening(t)
      /\ found'[t] = << >> /\ owed'[t] = {} /\ current'[t] = current[t]
      /\ \A s \in Searches \ {t} : Alike(s)
  BY DEF Begin, Goto, NoEvents, TypeOK, Alike
<1>2. current'[t] = {} /\ Owns(t)'
  BY <1>1 DEF SearchInv, Describing, Owns, Opening, Resting
<1>3. CASE t \in Owned
  BY <1>1, <1>2, <1>3, Afresh DEF Opening, Listening
<1>4. CASE t \notin Owned
  <2>1. IsInjective(found'[t]) /\ Len(found'[t]) = 0 /\ pc'[t] = "collect"
    BY <1>1, <1>4 DEF IsInjective, Opening
  <2>2. Quiet(t)' /\ Describing(t)' /\ Owing(t)' /\ Distinct(t)'
    BY <1>1, <1>2, <2>1 DEF Quiet, Describing, Owing, Distinct, Listening
  <2> QED
    BY <1>1, <1>2, <2>2 DEF SearchInv
<1> QED
  BY <1>3, <1>4

(* A search dropped at any await owes nothing any more.                     *)
LEMMA AbandonKeeps ==
    ASSUME TypeOK, NEW t \in Searches, Abandon(t)
    PROVE  /\ SearchInv(t)'
           /\ \A s \in Searches \ {t} : Alike(s)
<1>1. /\ pc'[t] = "abandoned"
      /\ found'[t] = << >> /\ owed'[t] = {} /\ current'[t] = {}
      /\ \A s \in Searches \ {t} : Alike(s)
  BY DEF Abandon, Goto, NoEvents, TypeOK, Alike
<1> QED
  BY <1>1, Afresh DEF Owns, Listening

(* The steps that neither find a device nor describe one.                   *)
LEMMA CallKeeps ==
    ASSUME TypeOK, NEW t \in Searches, SearchInv(t),
           ForgetFails(t) \/ EventsFail(t) \/ StopFirst(t) \/ StartScan(t)
           \/ StartScanFails(t) \/ Started(t) \/ WindowEnds(t) \/ StopAfter(t)
    PROVE  /\ SearchInv(t)'
           /\ \A s \in Searches \ {t} : Alike(s)
<1>1. /\ found'[t] = found[t] /\ current'[t] = current[t]
      /\ \/ owed'[t] = owed[t] /\ events'[t] = events[t]
         \/ owed'[t] = {}
      /\ \A s \in Searches \ {t} : Alike(s)
  <2>1. /\ pc' = [pc EXCEPT ![t] = pc'[t]]
        /\ UNCHANGED <<found, current>>
        /\ NoEvents(t) \/ UNCHANGED <<events, owed>>
    BY DEF ForgetFails, EventsFail, StopFirst, StartScan, StartScanFails, Started,
           WindowEnds, StopAfter, Goto, TypeOK
  <2>2. CASE NoEvents(t)
    BY <2>1, <2>2 DEF NoEvents, TypeOK, Alike
  <2>3. CASE UNCHANGED <<events, owed>>
    BY <2>1, <2>3 DEF TypeOK, Alike
  <2> QED
    BY <2>1, <2>2, <2>3
<1>2. \/ pc[t] \in Resting /\ pc'[t] = "errored"
      \/ pc[t] = "stopping" /\ pc'[t] = "starting"
      \/ pc[t] = "starting" /\ pc'[t] \in {"failed", "started", "errored"}
      \/ pc[t] = "started" /\ pc'[t] = "collect"
      \/ pc[t] = "collect" /\ pc'[t] = Finish(t) /\ owed'[t] = {}
      \/ pc[t] = "closing" /\ pc'[t] = "idle"
  BY DEF ForgetFails, EventsFail, StopFirst, StartScan, StartScanFails, Started,
         WindowEnds, StopAfter, Goto, NoEvents, TypeOK
<1>3. Owns(t)'
  BY <1>2 DEF SearchInv, Owns, Finish
<1>4. Quiet(t)'
  BY <1>1, <1>2 DEF SearchInv, Quiet, Finish, Listening, Resting
<1>5. Describing(t)'
  BY <1>1, <1>2 DEF SearchInv, Describing, Finish, Resting
<1>6. Owing(t)'
  BY <1>1, <1>2 DEF SearchInv, Owing, Quiet, Finish, Listening, Resting
<1>7. Distinct(t)'
  <2>1. pc'[t] \notin Listening \/ pc[t] \in Listening \/ found[t] = << >>
    BY <1>2 DEF SearchInv, Quiet, Finish, Listening, Resting
  <2> QED
    BY <1>1, <2>1 DEF SearchInv, Distinct, Stops
<1> QED
  BY <1>1, <1>3, <1>4, <1>5, <1>6, <1>7 DEF SearchInv

(* An advertisement taken is described next, unless its device has been     *)
(* found already; an event that is none is passed over.                     *)
LEMMA TakeKeeps ==
    ASSUME TypeOK, NEW t \in Searches, SearchInv(t), Take(t)
    PROVE  /\ SearchInv(t)'
           /\ \A s \in Searches \ {t} : Alike(s)
<1> DEFINE event == Head(events[t])
           fresh == event \ Range(found[t])
<1>1. /\ event \in CentralEvents
      /\ Concerned(events[t]) \subseteq Concerned(Tail(events[t])) \cup event
      /\ pc[t] = "collect" /\ current[t] = {}
  <2>1. events[t] \in Seq(CentralEvents) /\ events[t] # << >> /\ pc[t] = "collect"
    BY DEF Take, TypeOK, Goto
  <2> QED
    BY <2>1, ConcernTail DEF SearchInv, Describing
<1>2. /\ found'[t] = found[t] /\ owed'[t] = owed[t] /\ events'[t] = Tail(events[t])
      /\ pc'[t] = IF fresh = {} THEN "collect" ELSE "describe"
      /\ current'[t] = fresh
      /\ \A s \in Searches \ {t} : Alike(s)
  BY DEF Take, Goto, TypeOK, Alike
<1>3. fresh = {} \/ \E id \in Peripherals : fresh = {id} /\ id \notin Range(found[t])
  BY <1>1 DEF CentralEvents
<1>4. event \subseteq Range(found[t]) \cup fresh
  OBVIOUS
<1> HIDE DEF event, fresh
<1>5. Owns(t)' /\ Quiet(t)' /\ Describing(t)'
  BY <1>1, <1>2, <1>3 DEF Owns, Quiet, Describing, Listening
<1>6. Owing(t)'
  BY <1>1, <1>2, <1>4 DEF SearchInv, Owing, Listening
<1>7. Distinct(t)'
  BY <1>1, <1>2 DEF SearchInv, Distinct, Stops, Listening
<1> QED
  BY <1>2, <1>5, <1>6, <1>7 DEF SearchInv

(* A device that cannot be described is no longer owed.                     *)
LEMMA DescribeFailsKeeps ==
    ASSUME TypeOK, NEW t \in Searches, SearchInv(t), DescribeFails(t)
    PROVE  /\ SearchInv(t)'
           /\ \A s \in Searches \ {t} : Alike(s)
<1>1. /\ pc[t] = "describe" /\ pc'[t] = "collect" /\ current'[t] = {}
      /\ owed'[t] = owed[t] \ current[t]
      /\ found'[t] = found[t] /\ events'[t] = events[t]
      /\ \A s \in Searches \ {t} : Alike(s)
  BY DEF DescribeFails, Goto, TypeOK, Alike
<1>2. Owns(t)' /\ Quiet(t)' /\ Describing(t)'
  BY <1>1 DEF Owns, Quiet, Describing, Listening
<1>3. Owing(t)' /\ Distinct(t)'
  BY <1>1 DEF SearchInv, Owing, Distinct, Stops, Listening
<1> QED
  BY <1>1, <1>2, <1>3 DEF SearchInv

(* The device found is new to the list, as the description was begun only   *)
(* for one not in it; one that is looked for closes the window.             *)
LEMMA DescribedKeeps ==
    ASSUME TypeOK, NEW t \in Searches, SearchInv(t), Described(t)
    PROVE  /\ SearchInv(t)'
           /\ \A s \in Searches \ {t} : Alike(s)
<1>1. PICK id \in current[t] \cap Fluke :
        /\ IF Stops(t, id)
             THEN Goto(t, "describe", Finish(t)) /\ NoEvents(t)
             ELSE /\ Goto(t, "describe", "collect")
                  /\ owed' = [owed EXCEPT ![t] = @ \ {id}]
                  /\ UNCHANGED events
        /\ found' = [found EXCEPT ![t] = Append(@, id)]
  BY DEF Described
<1>2. /\ pc[t] = "describe" /\ current[t] = {id} /\ id \notin Range(found[t])
      /\ \A i \in 1..Len(found[t]) : ~Stops(t, found[t][i])
  BY <1>1 DEF SearchInv, Describing, Distinct, Goto, Listening
<1>3. /\ current'[t] = {} /\ found'[t] = Append(found[t], id)
      /\ Stops(t, id) => pc'[t] = Finish(t) /\ owed'[t] = {}
      /\ ~Stops(t, id) => /\ pc'[t] = "collect" /\ owed'[t] = owed[t] \ {id}
                          /\ events'[t] = events[t]
      /\ \A s \in Searches \ {t} : Alike(s)
  <2>1. CASE Stops(t, id)
    BY <1>1, <2>1 DEF Described, Goto, NoEvents, TypeOK, Alike
  <2>2. CASE ~Stops(t, id)
    BY <1>1, <2>2 DEF Described, Goto, TypeOK, Alike
  <2> QED
    BY <2>1, <2>2
<1>4. found[t] \in Seq(Fluke) /\ Range(found'[t]) = Range(found[t]) \cup {id}
  <2>1. found[t] \in Seq(Fluke)
    BY DEF TypeOK
  <2> QED
    BY <1>3, <2>1, RangeAppend
<1>5. Owns(t)' /\ Quiet(t)' /\ Describing(t)'
  BY <1>3 DEF Owns, Quiet, Describing, Listening, Finish
<1>6. Owing(t)'
  <2>1. /\ owed[t] \cap Range(found[t]) = {}
        /\ owed[t] \subseteq Concerned(events[t]) \cup {id}
    BY <1>2 DEF SearchInv, Owing, Listening
  <2>2. CASE Stops(t, id)
    BY <1>3, <2>2 DEF Owing, Finish, Listening
  <2>3. CASE ~Stops(t, id)
    BY <1>3, <1>4, <2>1, <2>3 DEF Owing
  <2> QED
    BY <2>2, <2>3
<1>7. Distinct(t)'
  <2>1. IsInjective(found'[t])
    BY <1>2, <1>3, <1>4, InjectiveAppend DEF SearchInv, Distinct
  <2>2. /\ Len(found'[t]) = Len(found[t]) + 1
        /\ found'[t][Len(found[t]) + 1] = id
        /\ \A i \in 1..Len(found[t]) : found'[t][i] = found[t][i]
        /\ Len(found[t]) \in Nat
    BY <1>3, <1>4
  <2>3. Stops(t, id) => pc'[t] \notin Listening
    BY <1>3 DEF Finish, Listening
  <2>4. ASSUME NEW i \in 1..Len(found'[t]), Stops(t, found'[t][i])
        PROVE  i = Len(found'[t]) /\ pc'[t] \notin Listening
    <3>1. i = Len(found[t]) + 1
      BY <1>2, <2>2, <2>4
    <3> QED
      BY <2>2, <2>3, <2>4, <3>1
  <2> QED
    BY <2>1, <2>4 DEF Distinct, Stops
<1> QED
  BY <1>3, <1>5, <1>6, <1>7 DEF SearchInv

(* An event adds to what a listening search owes what it puts in the        *)
(* search's buffer, and takes from it what falls out.                       *)
LEMMA BroadcastKeeps ==
    ASSUME TypeOK, NEW s \in Searches, SearchInv(s), NEW event, Broadcast(event)
    PROVE  SearchInv(s)'
<1>1. /\ pc'[s] = pc[s] /\ found'[s] = found[s] /\ current'[s] = current[s]
      /\ events'[s] = IF pc[s] \in Subscribed THEN Heard(s, event) ELSE events[s]
      /\ owed'[s] = IF pc[s] \in Listening
                      THEN (owed[s] \ Lagged(s)) \cup ((event \cap Fluke) \ Range(found[s]))
                      ELSE owed[s]
  BY DEF Broadcast
<1>2. Owns(s)' /\ Quiet(s)' /\ Describing(s)' /\ Distinct(s)'
  BY <1>1 DEF SearchInv, Owns, Quiet, Describing, Distinct, Stops
<1>3. Owing(s)'
  <2>1. CASE pc[s] \notin Listening
    BY <1>1, <2>1 DEF SearchInv, Owing
  <2>2. CASE pc[s] \in Listening
    <3>1. /\ owed[s] \cap Range(found[s]) = {}
          /\ owed[s] \subseteq Concerned(events[s]) \cup current[s]
          /\ events[s] \in Seq(CentralEvents)
          /\ events'[s] = Heard(s, event)
      BY <1>1, <2>2 DEF SearchInv, Owing, TypeOK, Subscribed, Listening
    <3>2. (Concerned(events[s]) \ Lagged(s)) \cup event \subseteq Concerned(Heard(s, event))
      <4>1. CASE Len(events[s]) < EventBuffer
        BY <3>1, <4>1, ConcernAppend DEF Heard, Lagged
      <4>2. CASE ~(Len(events[s]) < EventBuffer)
        <5>1. events[s] # << >>
          BY <3>1, <4>2, BufferAssumption
        <5>2. /\ Tail(events[s]) \in Seq(CentralEvents)
              /\ Concerned(events[s]) \subseteq Concerned(Tail(events[s])) \cup Head(events[s])
          BY <3>1, <5>1, ConcernTail
        <5>3. Concerned(Append(Tail(events[s]), event)) = Concerned(Tail(events[s])) \cup event
          BY <5>2, ConcernAppend
        <5> QED
          BY <4>2, <5>2, <5>3 DEF Heard, Lagged
      <4> QED
        BY <4>1, <4>2
    <3> QED
      BY <1>1, <2>2, <3>1, <3>2 DEF Owing
  <2> QED
    BY <2>1, <2>2
<1> QED
  BY <1>2, <1>3 DEF SearchInv

---------------------------------------------------------------------------
(* The scan, when one search owns it and nobody else touches it: it runs    *)
(* while the search listens, and is off when the search asks for it. A      *)
(* search abandoned in between leaves it running, so this cannot speak of   *)
(* one at rest; the stop before the scan makes up for that.                 *)
Undisturbed(s) ==
    alone /\ Owned = {s} =>
        /\ pc[s] \in Listening => scanning
        /\ pc[s] = "starting" => ~scanning
        /\ pc[s] # "failed"

ScanInv == NoScanLeft /\ \A s \in Owned : Undisturbed(s)

IInv == TypeOK /\ (\A s \in Searches : SearchInv(s)) /\ ScanInv

(* Each step keeps what holds of each search.                               *)
LEMMA SearchesStep ==
    TypeOK /\ (\A s \in Searches : SearchInv(s)) /\ [Next]_vars
        => \A s \in Searches : SearchInv(s)'
<1> SUFFICES ASSUME TypeOK, \A s \in Searches : SearchInv(s), [Next]_vars
             PROVE  \A s \in Searches : SearchInv(s)'
  OBVIOUS
<1>1. ASSUME NEW t \in Searches,
             Begin(t) \/ ForgetFails(t) \/ EventsFail(t) \/ Progress(t) \/ Abandon(t)
      PROVE  \A s \in Searches : SearchInv(s)'
  <2>1. SearchInv(t)' /\ \A s \in Searches \ {t} : Alike(s)
    BY <1>1, BeginKeeps, CallKeeps, TakeKeeps, DescribeFailsKeeps, DescribedKeeps, AbandonKeeps
    DEF Progress
  <2> QED
    BY <2>1, AlikeKeeps
<1>2. ASSUME NEW event, Broadcast(event)
      PROVE  \A s \in Searches : SearchInv(s)'
  BY <1>2, BroadcastKeeps
<1>3. CASE HostToggles \/ UNCHANGED vars
  <2>1. \A s \in Searches : Alike(s)
    BY <1>3 DEF HostToggles, vars, Alike
  <2> QED
    BY <2>1, AlikeKeeps
<1> QED
  BY <1>1, <1>2, <1>3 DEF Next, Advertise, OtherEvent

(* Each step keeps what holds of the scan, since only searches that own it  *)
(* start or stop it.                                                        *)
LEMMA ScanStep == IInv /\ [Next]_vars => ScanInv'
<1> SUFFICES ASSUME IInv, [Next]_vars PROVE ScanInv'
  OBVIOUS
<1>1. \A s \in Searches : Owns(s)
  BY DEF IInv, SearchInv
<1>2. ASSUME NEW t \in Searches \ Owned,
             Begin(t) \/ ForgetFails(t) \/ EventsFail(t) \/ Progress(t) \/ Abandon(t)
      PROVE  ScanInv'
  <2>1. UNCHANGED scan /\ \A s \in Owned : pc'[s] = pc[s]
    BY <1>1, <1>2
    DEF Begin, ForgetFails, EventsFail, Progress, Abandon, StopFirst, StartScan,
        StartScanFails, Started, Take, Described, DescribeFails, WindowEnds, StopAfter,
        Goto, Owns, IInv, TypeOK, Searches
  <2> QED
    BY <2>1 DEF IInv, ScanInv, NoScanLeft, Undisturbed, scan
<1>3. ASSUME NEW t \in Owned,
             Begin(t) \/ ForgetFails(t) \/ EventsFail(t) \/ Progress(t) \/ Abandon(t)
      PROVE  ScanInv'
  <2>1. /\ pc \in [Searches -> Places] /\ t \in Searches
        /\ scanning \in BOOLEAN /\ alone \in BOOLEAN
        /\ Undisturbed(t)
    BY <1>3 DEF IInv, TypeOK, Places, Searches, ScanInv
  <2>2. \/ UNCHANGED scan /\ pc'[t] \in {"stopping", "closing", "errored", "abandoned"}
        \/ UNCHANGED scan /\ pc[t] \in Listening /\ pc'[t] \in Listening
        \/ StopScan /\ pc'[t] \in {"starting", "idle"}
        \/ /\ pc[t] = "starting" /\ scanning' /\ alone' = alone
           /\ pc'[t] = IF scanning THEN "failed" ELSE "started"
    <3>1. CASE Begin(t) \/ ForgetFails(t) \/ EventsFail(t) \/ Abandon(t)
               \/ StartScanFails(t) \/ WindowEnds(t)
      BY <1>3, <2>1, <3>1
      DEF Begin, ForgetFails, EventsFail, Abandon, StartScanFails, WindowEnds, Goto,
          Opening, Finish
    <3>2. CASE Started(t) \/ Take(t) \/ DescribeFails(t)
      BY <2>1, <3>2 DEF Started, Take, DescribeFails, Goto, Listening
    <3>3. CASE Described(t)
      BY <1>3, <2>1, <3>3 DEF Described, Goto, Finish, Listening
    <3>4. CASE StopFirst(t) \/ StopAfter(t)
      BY <2>1, <3>4 DEF StopFirst, StopAfter, Goto
    <3>5. CASE StartScan(t)
      BY <2>1, <3>5 DEF StartScan, Goto
    <3> QED
      BY <1>3, <3>1, <3>2, <3>3, <3>4, <3>5 DEF Progress
  <2>3. NoScanLeft'
    BY <1>3, <2>1, <2>2 DEF NoScanLeft, StopScan, Listening
  <2>4. Owned = {t} => Undisturbed(t)'
    BY <2>1, <2>2 DEF Undisturbed, StopScan, Listening, scan
  <2> QED
    BY <1>3, <2>3, <2>4 DEF ScanInv, Undisturbed
<1>4. ASSUME NEW event, Broadcast(event)
      PROVE  ScanInv'
  BY <1>4 DEF Broadcast, IInv, ScanInv, NoScanLeft, Undisturbed, scan
<1>5. CASE HostToggles
  BY <1>5 DEF HostToggles, ScanInv, NoScanLeft, Undisturbed
<1>6. CASE UNCHANGED vars
  BY <1>6 DEF vars, scan, IInv, ScanInv, NoScanLeft, Undisturbed
<1> QED
  BY <1>2, <1>3, <1>4, <1>5, <1>6 DEF Next, Advertise, OtherEvent

(* The invariant holds in every reachable state.                            *)
LEMMA IInvHolds == Spec => []IInv
<1>1. Init => IInv
  <2> SUFFICES ASSUME Init PROVE IInv
    OBVIOUS
  <2>1. TypeOK
    BY InitTyped
  <2>2. ASSUME NEW s \in Searches PROVE SearchInv(s)
    <3>1. IsInjective(found[s]) /\ Len(found[s]) = 0
      BY DEF Init, IsInjective
    <3> QED
      BY <3>1
      DEF Init, SearchInv, Owns, Quiet, Describing, Owing, Distinct, Listening
  <2>3. ScanInv
    BY DEF Init, ScanInv, NoScanLeft, Undisturbed, Listening, Searches
  <2> QED
    BY <2>1, <2>2, <2>3 DEF IInv
<1>2. IInv /\ [Next]_vars => IInv'
  BY TypeStep, SearchesStep, ScanStep DEF IInv
<1> QED
  BY <1>1, <1>2, PTL DEF Spec

---------------------------------------------------------------------------
(* collect reports a peripheral once, and ends its window with the device   *)
(* its caller looks for, whichever and however many those are.              *)
THEOREM FoundOnceHolds == Spec => []FoundOnce
<1>1. IInv => FoundOnce
  <2> SUFFICES ASSUME IInv, NEW s \in Searches
               PROVE  /\ IsInjective(found[s])
                      /\ Returned(s) # {} =>
                           pc[s] \notin Listening /\ Returned(s) = {Last(found[s])}
    BY DEF FoundOnce
  <2>1. Distinct(s) /\ found[s] \in Seq(Fluke)
    BY DEF IInv, TypeOK, SearchInv
  <2>2. ASSUME NEW id \in Returned(s)
        PROVE  id = Last(found[s]) /\ pc[s] \notin Listening
    <3>1. PICK i \in 1..Len(found[s]) : id = found[s][i] /\ Stops(s, id)
      BY <2>1 DEF Returned, Range
    <3> QED
      BY <2>1, <3>1 DEF Distinct, Last
  <2> QED
    BY <2>1, <2>2 DEF Distinct
<1> QED
  BY <1>1, IInvHolds, PTL

(* What a search hears in its window is queued, being described or done     *)
(* with: nothing gets lost between the broadcast and the list.              *)
THEOREM NothingIsMissed == Spec => []NothingMissed
<1>1. IInv => NothingMissed
  BY DEF IInv, SearchInv, Owing, NothingMissed
<1> QED
  BY <1>1, IInvHolds, PTL

(* scan_until and the scan it owns: it runs for as long as the search       *)
(* listens, whatever was abandoned or failed in the searches before.        *)
THEOREM ScanRuns == Spec => []ScanRunsInWindow
<1>1. IInv => ScanRunsInWindow
  BY DEF IInv, ScanInv, Undisturbed, ScanRunsInWindow
<1> QED
  BY <1>1, IInvHolds, PTL

(* Its start_scan is not refused, whatever became of the search before: the *)
(* scan that one may have left running is stopped first.                    *)
THEOREM ScanStarts == Spec => []StartAccepted
<1>1. IInv => StartAccepted
  BY DEF IInv, ScanInv, Undisturbed, StartAccepted
<1> QED
  BY <1>1, IInvHolds, PTL

(* And it is stopped when the search returns, whatever it returns.          *)
THEOREM ScanStops == Spec => []NoScanLeft
<1>1. IInv => NoScanLeft
  BY DEF IInv, ScanInv
<1> QED
  BY <1>1, IInvHolds, PTL
=============================================================================
