---------------------------- MODULE Subscription ----------------------------
(***************************************************************************)
(* How `FlukeDevice` turns GATT notifications into a stream                *)
(* (src/src/client.rs) over BtleplugTransport (src/src/backend/mod.rs):    *)
(* opening the peripheral's notification stream, then the central's events *)
(* that end it, subscribing, and choosing what each notification yields.   *)
(* source says which of the four subscriptions is made: "measurements"     *)
(* (both reading characteristics, locking onto the binary one), or the     *)
(* single characteristic "binary", "ascii" or "battery".                   *)
(*                                                                         *)
(*   open       opening the peripheral's notification stream               *)
(*   watch      subscribing to the central's events                        *)
(*   first      subscribing to the first characteristic                    *)
(*   second     subscribing to the second one, for measurements            *)
(*   stream     yielding items                                             *)
(*   ended      the stream has ended                                       *)
(*   failed     the subscription returned an error                         *)
(***************************************************************************)
EXTENDS Integers, SequencesExt

CONSTANTS
    MaxSent,   \* bound on the notifications the device sends
    Depth,     \* of the central's broadcast: a slow subscriber loses events
    MaxOthers  \* bound on the other events the central broadcasts

ASSUME SentAssumption == MaxSent \in Nat
ASSUME DepthAssumption == Depth \in Nat \ {0}
ASSUME OthersAssumption == MaxOthers \in Nat

VARIABLES
    source,    \* the subscription made
    pc,
    exposes,   \* the characteristics of the device
    enabled,   \* those it notifies
    opened,    \* the peripheral's notification stream exists
    watching,  \* so does the stream of the central's events
    link,      \* the connection is up
    values,    \* notifications in the transport's stream
    events,    \* events in the central's: "lost" is our device's disconnect
    others,    \* other events broadcast
    locked,    \* binary_locked
    yielded,   \* what the stream has yielded
    sent       \* every notification the device has sent

given == <<source, exposes>>
central == <<link, events, others>>
flow == <<values, locked, yielded, sent>>
vars == <<pc, given, enabled, opened, watching, central, flow>>

Characteristics == {"binary", "ascii", "battery"}

(* What a Source opens: measurements, or one characteristic's stream.       *)
Sources == Characteristics \cup {"measurements"}

(* A payload decodes or not; for the battery level, it has a byte or not.   *)
Notification == [characteristic : Characteristics, valid : BOOLEAN,
                 number : 1..MaxSent]

First == IF source = "measurements" THEN "binary" ELSE source

Init ==
    /\ pc = "open"
    /\ source \in Sources
    /\ exposes \in SUBSET Characteristics
    /\ enabled = {}
    /\ opened = FALSE
    /\ watching = FALSE
    /\ link = TRUE
    /\ values = << >>
    /\ events = << >>
    /\ others = 0
    /\ locked = FALSE
    /\ yielded = << >>
    /\ sent = << >>

Goto(from, to) == pc = from /\ pc' = to

Fails(from) ==
    /\ Goto(from, "failed")
    /\ UNCHANGED <<given, enabled, opened, watching, central, flow>>

\* Mutant: the streams are opened once the subscriptions are made.
OpenLater ==
    /\ Goto("open", "watch")
    /\ UNCHANGED <<given, enabled, opened, watching, central, flow>>

Open ==
    /\ Goto("open", "watch")
    /\ opened' = TRUE
    /\ UNCHANGED <<given, enabled, watching, central, flow>>

\* Mutant: the events are subscribed to after the characteristics.
WatchLater ==
    /\ Goto("watch", "first")
    /\ UNCHANGED <<given, enabled, opened, watching, central, flow>>

(* A connection lost before this point leaves no event.                     *)
Watch ==
    /\ Goto("watch", "first")
    /\ watching' = TRUE
    /\ UNCHANGED <<given, enabled, opened, central, flow>>

OpenFails == Fails("open") \/ Fails("watch")

\* Mutant: a missing characteristic counts as subscribed.
SubscribeBlindly(characteristic, from, to) ==
    /\ Goto(from, to)
    /\ link
    /\ enabled' = enabled \cup {characteristic}
    /\ UNCHANGED <<given, opened, watching, central, flow>>

(* transport.subscribe: the device starts notifying, or an error.           *)
Subscribe(characteristic, from, to) ==
    /\ Goto(from, to)
    /\ link
    /\ characteristic \in exposes
    /\ enabled' = enabled \cup {characteristic}
    /\ UNCHANGED <<given, opened, watching, central, flow>>

(* try_subscribe takes a missing characteristic for an answer.              *)
SkipMissing(characteristic, from, to) ==
    /\ Goto(from, to)
    /\ characteristic \notin exposes
    /\ UNCHANGED <<given, enabled, opened, watching, central, flow>>

SubscribeFirst ==
    \/ Subscribe(First, "first",
                 IF source = "measurements" THEN "second" ELSE "stream")
    \/ source = "measurements" /\ SkipMissing(First, "first", "second")
    \/ Fails("first")

\* Mutant: the second characteristic is tried only without the first.
SubscribeEither ==
    \/ First \notin enabled /\ Subscribe("ascii", "second", "stream")
    \/ /\ First \in enabled
       /\ Goto("second", "stream")
       /\ UNCHANGED <<given, enabled, opened, watching, central, flow>>
    \/ Fails("second")

(* NoReadingCharacteristic is one of the failures.                          *)
SubscribeSecond ==
    \/ Subscribe("ascii", "second", "stream")
    \/ First \in enabled /\ SkipMissing("ascii", "second", "stream")
    \/ Fails("second")

---------------------------------------------------------------------------
(* The device and the central *)

(* A notification reaches the transport's stream if there is one.           *)
Notify ==
    /\ link
    /\ Len(sent) < MaxSent
    /\ \E c \in enabled, v \in BOOLEAN :
        LET n == [characteristic |-> c, valid |-> v, number |-> Len(sent) + 1]
        IN  /\ sent' = Append(sent, n)
            /\ values' = IF opened THEN Append(values, n) ELSE values
    /\ UNCHANGED <<pc, given, enabled, opened, watching, central, locked,
                   yielded>>

(* A subscriber that lags behind the broadcast loses its oldest event.      *)
Broadcast(event) ==
    events' = IF ~watching THEN events
              ELSE IF Len(events) < Depth THEN Append(events, event)
              ELSE Append(Tail(events), event)

LinkLost ==
    /\ link
    /\ link' = FALSE
    /\ Broadcast("lost")
    /\ UNCHANGED <<pc, given, enabled, opened, watching, others, flow>>

(* An advertisement, or another device's connection.                        *)
OtherEvent ==
    /\ watching
    /\ others < MaxOthers
    /\ others' = others + 1
    /\ Broadcast("other")
    /\ UNCHANGED <<pc, given, enabled, opened, watching, link, flow>>

---------------------------------------------------------------------------
(* The stream *)

Locks(n) == n.characteristic = "binary"

(* What a notification yields, malformed payloads as errors.                *)
Selected(n) ==
    n.characteristic = "binary" \/ (n.characteristic = "ascii" /\ ~locked)

(* A stream of one characteristic drops the notifications of the others.    *)
Pinned(n) == n.characteristic = source

(* An empty battery value yields nothing.                                   *)
HasByte(n) == source = "battery" => n.valid

Yields(n) ==
    IF source = "measurements" THEN Selected(n) ELSE Pinned(n) /\ HasByte(n)

Lost == "lost" \in Range(events)

(* take_until looks at the central's events first, drops those that are not *)
(* our disconnect, and takes a notification if there is one.                *)
Poll ==
    /\ pc = "stream"
    /\ ~Lost
    /\ events # << >> \/ values # << >>
    /\ events' = << >>
    /\ IF values = << >>
         THEN UNCHANGED <<values, locked, yielded>>
         ELSE LET n == Head(values)
              IN  /\ values' = Tail(values)
                  /\ yielded' = IF Yields(n) THEN Append(yielded, n)
                                             ELSE yielded
                  /\ locked' = (locked \/ (source = "measurements" /\ Locks(n)))
    /\ UNCHANGED <<pc, given, enabled, opened, watching, link, others, sent>>

\* Mutant: the events are looked at when a notification arrives.
EndOnNotification ==
    /\ Goto("stream", "ended")
    /\ Lost
    /\ values # << >>
    /\ UNCHANGED <<given, enabled, opened, watching, central, flow>>

(* The disconnect event ends the stream, whatever it still holds.           *)
End ==
    /\ Goto("stream", "ended")
    /\ Lost
    /\ UNCHANGED <<given, enabled, opened, watching, central, flow>>

Next ==
    \/ Open \/ Watch \/ OpenFails \/ SubscribeFirst \/ SubscribeSecond
    \/ Notify \/ LinkLost \/ OtherEvent
    \/ Poll \/ End

Spec == Init /\ [][Next]_vars

(* The consumer keeps polling.                                              *)
FairSpec == Spec /\ WF_vars(Poll \/ End)

---------------------------------------------------------------------------
TypeOK ==
    /\ pc \in {"open", "watch", "first", "second", "stream", "ended", "failed"}
    /\ source \in Sources
    /\ exposes \subseteq Characteristics
    /\ enabled \subseteq exposes
    /\ opened \in BOOLEAN
    /\ watching \in BOOLEAN
    /\ link \in BOOLEAN
    /\ values \in Seq(Notification)
    /\ events \in Seq({"lost", "other"}) /\ Len(events) <= Depth
    /\ others \in 0..MaxOthers
    /\ locked \in BOOLEAN
    /\ yielded \in Seq(Notification)
    /\ sent \in Seq(Notification)

(* Whether a notification belongs to the measurement stream, said of the    *)
(* whole history: every binary one, and the ASCII ones sent before the      *)
(* first binary one, decodable or not.                                      *)
Belongs(n) ==
    IF source = "measurements"
      THEN \/ n.characteristic = "binary"
           \/ /\ n.characteristic = "ascii"
              /\ \A i \in 1..(n.number - 1) : sent[i].characteristic # "binary"
      ELSE n.characteristic = source /\ (source = "battery" => n.valid)

(* The notifications the stream has taken.                                  *)
Taken == Len(sent) - Len(values)

(* Nothing the device sends from its first subscription on is lost,         *)
(* reordered or yielded twice, and nothing else is yielded, as far as the   *)
(* stream has been polled.                                                  *)
Complete ==
    /\ Range(yielded) = {sent[i] : i \in {j \in 1..Taken : Belongs(sent[j])}}
    /\ \A i, j \in 1..Len(yielded) : i < j => yielded[i].number < yielded[j].number

(* The measurement stream listens to every reading characteristic the       *)
(* device has, and to at least one.                                         *)
ListensToAll ==
    (pc = "stream" /\ source = "measurements") =>
        enabled = exposes \cap {"binary", "ascii"} /\ enabled # {}

(* A lost link ends the stream, whenever it is lost: a subscription that    *)
(* missed the event has failed.                                             *)
EndsWithLink == (pc = "stream" /\ ~link) ~> pc = "ended"
=============================================================================
