------------------------- MODULE SubscriptionProofs -------------------------
(* Proofs about Subscription, for any number of notifications and events.   *)
EXTENDS Subscription, TLAPS

(* What is enabled, by the subscriptions made so far: a characteristic that *)
(* the device does not expose is passed over, and for the measurements only.*)
SubscribedInv ==
    /\ pc \in {"open", "watch", "first"} => enabled = {}
    /\ pc = "second" => enabled = exposes \cap {"binary"}
    /\ (pc = "stream" /\ source = "measurements") =>
         enabled = exposes \cap {"binary", "ascii"} /\ enabled # {}

Inv == TypeOK /\ SubscribedInv

(* The steps that subscribe, or fail to.                                    *)
LEMMA SubscribeStep ==
    ASSUME Inv, Open \/ Watch \/ OpenFails \/ SubscribeFirst \/ SubscribeSecond
    PROVE  Inv'
<1> USE DEF Inv, TypeOK, SubscribedInv, Goto, Fails, given, central, flow
<1>1. CASE Open \/ Watch \/ OpenFails
  BY <1>1 DEF Open, Watch, OpenFails
<1>2. CASE SubscribeFirst
  BY <1>2 DEF SubscribeFirst, Subscribe, SkipMissing, First, Sources, Characteristics
<1>3. CASE SubscribeSecond
  BY <1>3 DEF SubscribeSecond, Subscribe, SkipMissing, First
<1> QED
  BY <1>1, <1>2, <1>3

(* The broadcast keeps the events within its depth.                         *)
LEMMA BroadcastTyped ==
    ASSUME events \in Seq({"lost", "other"}), Len(events) <= Depth,
           NEW event \in {"lost", "other"}, Broadcast(event)
    PROVE  events' \in Seq({"lost", "other"}) /\ Len(events') <= Depth
<1>1. CASE ~watching \/ Len(events) < Depth
  BY <1>1, DepthAssumption DEF Broadcast
<1>2. CASE watching /\ ~(Len(events) < Depth)
  <2>1. events # << >> /\ Len(events) = Depth
    BY <1>2, DepthAssumption
  <2> QED
    BY <1>2, <2>1, DepthAssumption DEF Broadcast
<1> QED
  BY <1>1, <1>2

(* A taken value, kept or not.                                              *)
LEMMA TakeTyped ==
    ASSUME NEW S, NEW from \in Seq(S), NEW to \in Seq(S), from # << >>
    PROVE  /\ Tail(from) \in Seq(S)
           /\ \A t \in {to, Append(to, Head(from))} : t \in Seq(S)
OBVIOUS

(* The steps of the device, of the central and of the stream.               *)
LEMMA FlowStep ==
    ASSUME Inv, Notify \/ LinkLost \/ OtherEvent \/ Poll \/ End
    PROVE  Inv'
<1> USE DEF Inv, TypeOK, SubscribedInv, given, central, flow
<1>1. CASE Notify
  <2>1. PICK c \in enabled, v \in BOOLEAN :
          LET n == [characteristic |-> c, valid |-> v, number |-> Len(sent) + 1]
          IN  /\ sent' = Append(sent, n)
              /\ values' = IF opened THEN Append(values, n) ELSE values
    BY <1>1 DEF Notify
  <2>2. [characteristic |-> c, valid |-> v, number |-> Len(sent) + 1] \in Notification
    <3>1. Len(sent) + 1 \in 1..MaxSent
      BY <1>1, SentAssumption DEF Notify
    <3>2. c \in Characteristics
      OBVIOUS
    <3> QED
      BY <3>1, <3>2 DEF Notification
  <2>3. sent' \in Seq(Notification) /\ values' \in Seq(Notification)
    BY <2>1, <2>2
  <2> QED
    BY <1>1, <2>3 DEF Notify
<1>2. CASE LinkLost
  BY <1>2, BroadcastTyped DEF LinkLost
<1>3. CASE OtherEvent
  BY <1>3, BroadcastTyped, OthersAssumption DEF OtherEvent
<1>4. CASE Poll
  <2>0. << >> \in Seq({"lost", "other"}) /\ Len(<< >>) <= Depth
    BY DepthAssumption
  <2>1. CASE values = << >>
    BY <1>4, <2>0, <2>1 DEF Poll
  <2>2. CASE values # << >>
    <3>1. /\ Tail(values) \in Seq(Notification)
          /\ \A t \in {yielded, Append(yielded, Head(values))} : t \in Seq(Notification)
      BY <2>2, TakeTyped
    <3>2. values' = Tail(values) /\ yielded' \in {yielded, Append(yielded, Head(values))}
      BY <1>4, <2>2, Zenon DEF Poll
    <3>3. yielded' \in Seq(Notification) /\ values' \in Seq(Notification)
      BY <3>1, <3>2, Zenon
    <3>4. locked' \in BOOLEAN
      BY <1>4, <2>2 DEF Poll, Locks
    <3> QED
      BY <1>4, <2>0, <3>3, <3>4 DEF Poll
  <2> QED
    BY <2>1, <2>2
<1>5. CASE End
  BY <1>5 DEF End, Goto
<1> QED
  BY <1>1, <1>2, <1>3, <1>4, <1>5

(* Types and subscriptions hold in every reachable state.                   *)
LEMMA InvHolds == Spec => []Inv
<1>1. Init => Inv
  <2> SUFFICES ASSUME Init PROVE Inv
    OBVIOUS
  <2>1. /\ << >> \in Seq(Notification)
        /\ << >> \in Seq({"lost", "other"}) /\ Len(<< >>) <= Depth
        /\ 0 \in 0..MaxOthers
    BY DepthAssumption, OthersAssumption
  <2> QED
    BY <2>1 DEF Init, Inv, TypeOK, SubscribedInv
<1>2. Inv /\ [Next]_vars => Inv'
  <2> SUFFICES ASSUME Inv, [Next]_vars PROVE Inv'
    OBVIOUS
  <2>1. CASE UNCHANGED vars
    BY <2>1 DEF vars, given, central, flow, Inv, TypeOK, SubscribedInv
  <2> QED
    BY <2>1, SubscribeStep, FlowStep DEF Next
<1> QED
  BY <1>1, <1>2, PTL DEF Spec

(* A stream listens to what its device exposes, and the broadcast's depth   *)
(* bounds the events it has yet to look at.                                 *)
THEOREM TypeCorrect == Spec => []TypeOK
<1>1. Inv => TypeOK
  BY DEF Inv
<1> QED
  BY <1>1, InvHolds, PTL

(* measurements() subscribes to whichever of the two characteristics there  *)
(* are, and fails when there is none or a subscription fails.               *)
THEOREM AllListenedTo == Spec => []ListensToAll
<1>1. Inv => ListensToAll
  BY DEF Inv, SubscribedInv, ListensToAll
<1> QED
  BY <1>1, InvHolds, PTL

---------------------------------------------------------------------------
(* What the stream yields *)

(* The transport's stream exists before anything is notified, and holds the *)
(* end of what was sent; the stream is locked once it has taken a binary    *)
(* record.                                                                  *)
StreamInv ==
    /\ pc \in {"watch", "first", "second", "stream"} \/ enabled # {} => opened
    /\ Len(values) <= Len(sent)
    /\ \A i \in 1..Len(sent) : sent[i].number = i
    /\ \A i \in 1..Len(values) : values[i] = sent[Taken + i]
    /\ source = "measurements" =>
         (locked <=> \E i \in 1..Taken : sent[i].characteristic = "binary")

(* A step that takes and sends nothing yields nothing.                      *)
LEMMA QuietStep ==
    ASSUME TypeOK, StreamInv, Complete, UNCHANGED <<source, flow>>,
           pc' \in {"watch", "first", "second", "stream"} \/ enabled' # {} => opened'
    PROVE  StreamInv' /\ Complete'
<1>1. \A n : Belongs(n)' = Belongs(n)
  BY DEF Belongs, flow
<1>2. StreamInv'
  BY DEF StreamInv, Taken, flow
<1>3. Complete'
  BY <1>1 DEF Complete, Taken, flow, Range
<1> QED
  BY <1>2, <1>3

(* A notification leaves what was taken before it as it was.                *)
LEMMA NotifyStep ==
    ASSUME TypeOK, StreamInv, Complete, Notify
    PROVE  StreamInv' /\ Complete'
<1>1. PICK c \in enabled, v \in BOOLEAN :
        LET n == [characteristic |-> c, valid |-> v, number |-> Len(sent) + 1]
        IN  /\ sent' = Append(sent, n)
            /\ values' = Append(values, n)
  BY DEF Notify, StreamInv
<1> DEFINE n == [characteristic |-> c, valid |-> v, number |-> Len(sent) + 1]
<1>2. /\ sent' = Append(sent, n) /\ values' = Append(values, n)
      /\ n.number = Len(sent) + 1
      /\ UNCHANGED <<pc, given, enabled, opened, locked, yielded>>
  BY <1>1 DEF Notify
<1> HIDE DEF n
<1>3. /\ sent \in Seq(Notification) /\ values \in Seq(Notification)
      /\ Len(values) <= Len(sent) /\ Taken \in 0..Len(sent)
  BY DEF TypeOK, StreamInv, Taken
<1>4. /\ Len(sent') = Len(sent) + 1 /\ Len(values') = Len(values) + 1
      /\ \A i \in 1..Len(sent) : sent'[i] = sent[i]
      /\ \A i \in 1..Len(values) : values'[i] = values[i]
      /\ sent'[Len(sent) + 1] = n /\ values'[Len(values) + 1] = n
      /\ Taken' = Taken
  BY <1>2, <1>3 DEF Taken
<1>5. StreamInv'
  <2>1. \A i \in 1..Len(sent') : sent'[i].number = i
    BY <1>2, <1>3, <1>4 DEF StreamInv
  <2>2. \A i \in 1..Len(values') : values'[i] = sent'[Taken' + i]
    BY <1>3, <1>4 DEF StreamInv, Taken
  <2>3. source = "measurements" =>
          (locked <=> \E i \in 1..Taken' : sent'[i].characteristic = "binary")
    <3>1. (\E i \in 1..Taken' : sent'[i].characteristic = "binary")
            <=> \E i \in 1..Taken : sent[i].characteristic = "binary"
      BY <1>3, <1>4
    <3> QED
      BY <1>2, <3>1, Zenon DEF StreamInv
  <2>4. Len(values') <= Len(sent') /\ UNCHANGED source
    BY <1>2, <1>3, <1>4 DEF given
  <2> QED
    BY <1>2, <2>1, <2>2, <2>3, <2>4 DEF StreamInv
<1>6. ASSUME NEW j \in 1..Taken PROVE Belongs(sent[j])' <=> Belongs(sent[j])
  <2>1. /\ sent'[j] = sent[j] /\ sent[j].number = j
        /\ \A i \in 1..(j - 1) : sent'[i] = sent[i]
    BY <1>3, <1>4 DEF StreamInv
  <2> QED
    BY <1>2, <2>1 DEF Belongs, given
<1>7. Complete'
  <2>1. \A j \in 1..Taken : sent'[j] = sent[j]
    BY <1>3, <1>4
  <2>2. {sent'[i] : i \in {j \in 1..Taken' : Belongs(sent[j])'}}
          = {sent[i] : i \in {j \in 1..Taken : Belongs(sent[j])}}
    BY <1>4, <1>6, <2>1
  <2> QED
    BY <1>2, <2>2 DEF Complete, Range
<1> QED
  BY <1>5, <1>7

(* What appending an element does to a sequence and to its range.           *)
LEMMA Appended ==
    ASSUME NEW S, NEW s \in Seq(S), NEW e \in S
    PROVE  /\ Len(Append(s, e)) = Len(s) + 1
           /\ Append(s, e)[Len(s) + 1] = e
           /\ \A i \in 1..Len(s) : Append(s, e)[i] = s[i]
           /\ Range(Append(s, e)) = Range(s) \cup {e}
<1>1. /\ Len(Append(s, e)) = Len(s) + 1
      /\ Append(s, e)[Len(s) + 1] = e
      /\ \A i \in 1..Len(s) : Append(s, e)[i] = s[i]
      /\ DOMAIN Append(s, e) = 1..(Len(s) + 1)
  OBVIOUS
<1> QED
  BY <1>1 DEF Range

(* What is taken is yielded exactly when it belongs to the stream.          *)
LEMMA PollStep ==
    ASSUME TypeOK, StreamInv, Complete, Poll
    PROVE  StreamInv' /\ Complete'
<1>1. CASE values = << >>
  BY <1>1, QuietStep DEF Poll, flow, given, StreamInv
<1>2. CASE values # << >>
  <2> DEFINE n == Head(values)
  <2>1. /\ values' = Tail(values)
        /\ yielded' = IF Yields(n) THEN Append(yielded, n) ELSE yielded
        /\ locked' = (locked \/ (source = "measurements" /\ n.characteristic = "binary"))
        /\ UNCHANGED <<pc, source, enabled, opened, sent>>
    BY <1>2 DEF Poll, Locks, given
  <2>2. /\ sent \in Seq(Notification) /\ values \in Seq(Notification)
        /\ yielded \in Seq(Notification)
        /\ Taken \in Nat /\ Taken + 1 <= Len(sent) /\ Taken' = Taken + 1
        /\ n = sent[Taken + 1] /\ n \in Notification /\ n.number = Taken + 1
    BY <1>2, <2>1 DEF TypeOK, StreamInv, Taken
  <2> HIDE DEF n
  <2>3. Yields(n) <=> Belongs(n)
    <3>1. CASE source = "measurements"
      <4>1. locked <=> \E i \in 1..(n.number - 1) : sent[i].characteristic = "binary"
        BY <2>2, <3>1 DEF StreamInv
      <4> QED
        BY <3>1, <4>1 DEF Yields, Belongs, Selected
    <3>2. CASE source # "measurements"
      BY <3>2 DEF Yields, Belongs, Pinned, HasByte
    <3> QED
      BY <3>1, <3>2
  <2>4. \A m : Belongs(m)' = Belongs(m)
    BY <2>1 DEF Belongs
  <2>5. StreamInv'
    <3>1. \A i \in 1..Len(values') : values'[i] = sent'[Taken' + i]
      BY <1>2, <2>1, <2>2 DEF StreamInv
    <3>2. Len(values') <= Len(sent')
      BY <1>2, <2>1, <2>2 DEF StreamInv
    <3>3. source = "measurements" =>
            (locked' <=> \E i \in 1..Taken' : sent[i].characteristic = "binary")
      <4>1. (\E i \in 1..Taken' : sent[i].characteristic = "binary")
              <=> \/ \E i \in 1..Taken : sent[i].characteristic = "binary"
                  \/ n.characteristic = "binary"
        BY <2>2
      <4> QED
        BY <2>1, <4>1, Zenon DEF StreamInv
    <3> QED
      BY <2>1, <3>1, <3>2, <3>3 DEF StreamInv
  <2>6. Complete'
    <3>1. {sent[i] : i \in {j \in 1..(Taken + 1) : Belongs(sent[j])}}
            = {sent[i] : i \in {j \in 1..Taken : Belongs(sent[j])}}
                \cup (IF Belongs(n) THEN {n} ELSE {})
      BY <2>2
    <3>2. \A i \in 1..Len(yielded) : yielded[i].number \in 1..Taken
      <4>1. ASSUME NEW i \in 1..Len(yielded) PROVE yielded[i].number \in 1..Taken
        <5>1. yielded[i] \in Range(yielded)
          BY <2>2 DEF Range
        <5>2. PICK j \in 1..Taken : yielded[i] = sent[j]
          BY <5>1 DEF Complete
        <5> QED
          BY <2>2, <5>2 DEF StreamInv
      <4> QED
        BY <4>1
    <3>3. CASE ~Belongs(n)
      BY <2>1, <2>2, <2>3, <2>4, <3>1, <3>3 DEF Complete
    <3>4. CASE Belongs(n)
      <4>1. yielded' = Append(yielded, n)
        BY <2>1, <2>3, <3>4
      <4>2. /\ Len(yielded') = Len(yielded) + 1 /\ yielded'[Len(yielded) + 1] = n
            /\ \A i \in 1..Len(yielded) : yielded'[i] = yielded[i]
            /\ Range(yielded') = Range(yielded) \cup {n}
        BY <2>2, <4>1, Appended
      <4>3. \A i, j \in 1..Len(yielded') :
              i < j => yielded'[i].number < yielded'[j].number
        <5>1. ASSUME NEW i \in 1..(Len(yielded) + 1), NEW j \in 1..(Len(yielded) + 1), i < j
              PROVE  yielded'[i].number < yielded'[j].number
          <6>1. i \in 1..Len(yielded) /\ yielded'[i] = yielded[i]
            BY <2>2, <4>2, <5>1
          <6>2. CASE j = Len(yielded) + 1
            BY <2>2, <3>2, <4>2, <6>1, <6>2
          <6>3. CASE j # Len(yielded) + 1
            <7>1. j \in 1..Len(yielded)
              BY <2>2, <6>3
            <7> QED
              BY <4>2, <5>1, <6>1, <7>1 DEF Complete
          <6> QED
            BY <6>2, <6>3
        <5> QED
          BY <4>2, <5>1
      <4> QED
        BY <2>1, <2>2, <2>4, <3>1, <3>4, <4>2, <4>3 DEF Complete
    <3> QED
      BY <3>3, <3>4
  <2> QED
    BY <2>5, <2>6
<1> QED
  BY <1>1, <1>2

(* Whatever the device sends, whenever: the four streams yield what belongs *)
(* to them, once each and in order.                                         *)
THEOREM NothingIsLost == Spec => []Complete
<1>1. Init => StreamInv /\ Complete
  BY DEF Init, StreamInv, Complete, Taken, Range
<1>2. Inv /\ StreamInv /\ Complete /\ [Next]_vars => StreamInv' /\ Complete'
  <2> SUFFICES ASSUME Inv, StreamInv, Complete, [Next]_vars
               PROVE  StreamInv' /\ Complete'
    OBVIOUS
  <2> USE DEF Inv, given, central
  <2>1. CASE Notify
    BY <2>1, NotifyStep
  <2>2. CASE Poll
    BY <2>2, PollStep
  <2>3. CASE LinkLost \/ OtherEvent \/ End \/ UNCHANGED vars
    BY <2>3, QuietStep DEF LinkLost, OtherEvent, End, Goto, vars, StreamInv
  <2>4. CASE Open \/ Watch \/ OpenFails
    BY <2>4, QuietStep DEF Open, Watch, OpenFails, Fails, Goto, StreamInv
  <2>5. CASE SubscribeFirst \/ SubscribeSecond
    BY <2>5, QuietStep
    DEF SubscribeFirst, SubscribeSecond, Subscribe, SkipMissing, Fails, Goto, StreamInv
  <2> QED
    BY <2>1, <2>2, <2>3, <2>4, <2>5 DEF Next
<1> QED
  BY <1>1, <1>2, InvHolds, PTL DEF Spec
=============================================================================
