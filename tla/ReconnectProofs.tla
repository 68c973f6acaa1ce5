-------------------------- MODULE ReconnectProofs --------------------------
(***************************************************************************)
(* Proofs about the supervisor of Reconnect, for every buffer size, number *)
(* of connect attempts, failure budget and counter width.                  *)
(***************************************************************************)
EXTENDS Reconnect, TLAPS

(* Which target the task holds, by where it is: this is what makes          *)
(* FreshTarget inductive.                                                   *)
TargetInv ==
    /\ pc = "find" => target = "none"
    /\ pc = "connect" => target = "fresh"
    /\ pc = "sleep" => target # "spent"
    /\ pc = "emit" =>
        /\ event.kind \in {"WaitingForDevice", "Disconnected"} =>
             target = "none"
        /\ event.kind = "Retrying" => target # "spent"

(* Disconnects issued so far, by where the task is: none in a session that  *)
(* is being opened or streamed, one while it is being closed.               *)
DiscInv ==
    /\ disc \in {0, 1}
    /\ pc \in {"open", "next"} => disc = 0
    /\ (pc = "emit" /\ event.kind \in {"Connected", "Item"}) => disc = 0
    /\ Closing => disc = 1

(* Once an event has followed a stop, the next thing the task does is look  *)
(* at the flag.                                                             *)
LateInv ==
    /\ late \in {0, 1}
    /\ late = 1 =>
        stop /\ (poll = "stop" \/ pc \in {"done", "closeExit"})

(* A task that is over takes no further step, and only then is cancelled;   *)
(* a disconnect is not raced with the stop flag.                            *)
ExitInv ==
    /\ Closing => poll # "stop"
    /\ exit = "cancelled" => pc = "done"
    /\ pc = "done" => poll = "parked"

(* What the event being sent says of the failures behind it.                *)
EventInv ==
    pc = "emit" =>
        /\ event.attempt =
             IF event.kind \in {"Retrying", "GaveUp"} THEN attempts ELSE 0
        /\ event.kind \in {"WaitingForDevice", "Retrying", "GaveUp"} =>
             attempts > 0
        /\ event.kind = "GaveUp" => Exhausted(attempts)

LinkInv == ~EndsEarly => NoOrphanLink

IInv ==
    /\ TypeOK
    /\ TargetInv
    /\ DiscInv
    /\ LateInv
    /\ ExitInv
    /\ LinkInv
    /\ FailureBudget
    /\ EventInv


USE AttemptsAssumption, CountAssumption, BufferAssumption DEF Tries

(* An event without details is one of the events.                           *)
LEMMA PlainTyped == ASSUME NEW kind \in Kinds
    PROVE  Plain(kind) \in Events /\ Plain(kind).kind = kind
           /\ Plain(kind).attempt = 0
BY DEF Plain, Events, Errors, Kinds

(* count_failure: the counter stays in its range and the report it emits is *)
(* the one it was given, or GaveUp exactly when the budget is spent.        *)
LEMMA CountTyped ==
    ASSUME attempts \in 0..MaxCount, NEW report \in Events,
           report.kind # "GaveUp", CountFailure(report)
    PROVE  /\ attempts' \in 0..MaxCount
           /\ attempts' = IF attempts < MaxCount THEN attempts + 1
                                               ELSE attempts
           /\ event' \in Events
           /\ event'.kind \in {report.kind, "GaveUp"}
           /\ event'.attempt = IF event'.kind = "GaveUp" THEN attempts'
                                                      ELSE report.attempt
           /\ attempts' > 0
           /\ (Limited /\ attempts' >= MaxAttempts)
                    <=> event'.kind = "GaveUp"
           /\ pc' = "emit"
           /\ poll' = "stop"
<1>1. /\ attempts' \in 0..MaxCount
      /\ attempts' = IF attempts < MaxCount THEN attempts + 1 ELSE attempts
      /\ attempts' > 0
  BY DEF CountFailure
<1>2. "GaveUp" \in Kinds /\ 0 \in 0..Tries
  BY DEF Kinds
<1>3. [report EXCEPT !.kind = "GaveUp", !.attempt = attempts', !.retry = 0]
        \in Events
  BY <1>1, <1>2 DEF Events
<1>4. CASE Exhausted(attempts')
  BY <1>1, <1>3, <1>4 DEF CountFailure, Emit, Enter, Exhausted, Events
<1>5. CASE ~Exhausted(attempts')
  BY <1>1, <1>5 DEF CountFailure, Emit, Enter, Exhausted
<1> QED
  BY <1>4, <1>5

(* failure: the same for a Retrying report.                                 *)
LEMMA FailureTyped ==
    ASSUME attempts \in 0..MaxCount, NEW try \in 0..Tries,
           NEW error \in Errors, Failure(try, error)
    PROVE  /\ attempts' \in 0..MaxCount
           /\ attempts' = IF attempts < MaxCount THEN attempts + 1
                                               ELSE attempts
           /\ event' \in Events
           /\ event'.kind \in {"Retrying", "GaveUp"}
           /\ event'.attempt = attempts'
           /\ attempts' > 0
           /\ (Limited /\ attempts' >= MaxAttempts)
                    <=> event'.kind = "GaveUp"
           /\ pc' = "emit"
           /\ poll' = "stop"
<1> DEFINE report == [kind |-> "Retrying", retry |-> try, error |-> error,
                      attempt |-> IF attempts < MaxCount THEN attempts + 1
                                                         ELSE attempts]
<1>1. report \in Events /\ report.kind = "Retrying"
  BY DEF Events, Kinds
<1>2. CountFailure(report) /\ report.attempt = attempts'
  BY DEF Failure, CountFailure
<1> HIDE DEF report
<1> QED
  BY <1>1, <1>2, CountTyped

(* Every step of the supervisor and of what surrounds it keeps the types.   *)
LEMMA TypeStep == TypeOK /\ [Next]_vars => TypeOK'
<1> SUFFICES ASSUME TypeOK, [Next]_vars PROVE TypeOK'
  OBVIOUS
<1> USE DEF TypeOK, At, Enter, task, channel, consumer, device
<1>1. CASE SeeStop
  BY <1>1 DEF SeeStop, Unsent, Leave, Close
<1>2. CASE NoStop
  BY <1>2 DEF NoStop
<1>3. CASE Park
  BY <1>3 DEF Park
<1>4. CASE Wake
  BY <1>4 DEF Wake
<1>5. CASE Cancel
  BY <1>5 DEF Cancel
<1>6. CASE FindOk
  BY <1>6 DEF FindOk
<1>7. CASE FindNone
  BY <1>7, PlainTyped, CountTyped DEF FindNone, Kinds
<1>8. CASE FindErr
  BY <1>8, FailureTyped DEF FindErr, Errors
<1>9. CASE ConnectOk
  BY <1>9 DEF ConnectOk
<1>10. CASE ConnectErr
  BY <1>10, FailureTyped DEF ConnectErr, Errors, DropTarget
<1>11. CASE OpenOk
  BY <1>11, PlainTyped DEF OpenOk, Emit, Kinds
<1>12. CASE OpenErr
  BY <1>12 DEF OpenErr, Close
<1>13. CASE NextItem
  BY <1>13, PlainTyped DEF NextItem, Emit, Kinds
<1>14. CASE NextEnded
  BY <1>14, PlainTyped DEF NextEnded, DropTarget, Emit, Kinds
<1>15. CASE NextIdle
  BY <1>15 DEF NextIdle, Close
<1>16. CASE Send
  <2>1. event.kind \in Kinds
    BY DEF Events
  <2>2. queue' \in Seq(Events) /\ late' \in Nat
    BY <1>16 DEF Send
  <2> QED
    BY <1>16, <2>1, <2>2 DEF Send, AfterSend, Kinds
<1>17. CASE SendClosed
  BY <1>17 DEF SendClosed, Unsent, Leave, Close
<1>18. CASE Slept
  BY <1>18 DEF Slept
<1>19. CASE CloseFailed
  BY <1>19, FailureTyped DEF CloseFailed, Errors, DropTarget, Closed
<1>20. CASE CloseIdle
  BY <1>20, PlainTyped DEF CloseIdle, Closed, DropTarget, Emit, Kinds
<1>21. CASE CloseExit
  BY <1>21 DEF CloseExit, Closed
<1>22. CASE Recv
  BY <1>22 DEF Recv
<1>23. CASE Stop
  BY <1>23 DEF Stop
<1>24. CASE Abort
  BY <1>24 DEF Abort
<1>25. CASE CloseReceiver
  BY <1>25 DEF CloseReceiver
<1>26. CASE LinkDrops
  BY <1>26 DEF LinkDrops
<1>27. CASE ItemArrives
  BY <1>27 DEF ItemArrives
<1>28. CASE UNCHANGED vars
  BY <1>28 DEF vars
<1> QED
  BY <1>1, <1>2, <1>3, <1>4, <1>5, <1>6, <1>7, <1>8, <1>9, <1>10, <1>11, <1>12,
     <1>13, <1>14, <1>15, <1>16, <1>17, <1>18, <1>19, <1>20, <1>21, <1>22,
     <1>23, <1>24, <1>25, <1>26, <1>27, <1>28
     DEF Next, Supervisor, Outside, Polling, Connecting, Streaming,
         Disconnecting

(* The stream starts with every variable in its type.                       *)
LEMMA TypeInit == Init => TypeOK
<1> SUFFICES ASSUME Init PROVE TypeOK
  OBVIOUS
<1>2. event \in Events
  BY PlainTyped DEF Init, Kinds
<1>3. retry \in 0..Tries /\ attempts \in 0..MaxCount
  BY FlagsAssumption DEF Init
<1>4. target \in {"none", "fresh", "spent"} /\ pc \in {"connect", "find"}
  BY FlagsAssumption DEF Init
<1>5. queue \in Seq(Events)
  BY DEF Init
<1>6. poll \in {"stop", "work", "parked"} /\ pc \in {"find", "connect"}
  BY <1>4 DEF Init
<1> QED
  BY <1>2, <1>3, <1>4, <1>5, <1>6 DEF Init, TypeOK

(* The variables of the supervisor stay in their types: the failure counter *)
(* within its width, the connect attempt within the attempts per scan.      *)
THEOREM TypeCorrect == Spec => []TypeOK
BY TypeInit, TypeStep, PTL DEF Spec

(* The invariant is inductive. A session is left with its device            *)
(* undisconnected only through Leave, which disconnects, and every other    *)
(* way out of it goes through exactly one of the closing awaits.            *)
LEMMA IInvStep == IInv /\ [Next]_vars => IInv'
<1> SUFFICES ASSUME IInv, [Next]_vars PROVE IInv'
  OBVIOUS
<1>t. TypeOK /\ TypeOK'
  BY TypeStep DEF IInv
<1> SUFFICES TargetInv' /\ DiscInv' /\ LateInv' /\ ExitInv'
               /\ LinkInv' /\ FailureBudget' /\ EventInv'
  BY <1>t DEF IInv
<1>k. event.kind \in Kinds /\ event'.kind \in Kinds
  BY <1>t DEF TypeOK, Events
<1> USE DEF IInv, TypeOK, TargetInv, DiscInv, LateInv, ExitInv, LinkInv,
            NoOrphanLink, FailureBudget, EventInv, Exhausted, InSession,
            Closing, At, Enter,
            task, channel, consumer, device
<1>1. CASE SeeStop
  <2>1. CASE InSession
    BY <1>1, <1>t, <2>1 DEF SeeStop, Unsent, Leave, Close
  <2>2. CASE ~InSession
    BY <1>1, <1>t, <2>2 DEF SeeStop, Unsent, Leave, Close
  <2> QED
    BY <2>1, <2>2
<1>2. CASE NoStop
  BY <1>2, <1>t DEF NoStop
<1>3. CASE Park
  BY <1>3, <1>t DEF Park
<1>4. CASE Wake
  BY <1>4, <1>t DEF Wake
<1>5. CASE Cancel
  BY <1>5, <1>t DEF Cancel
<1>6. CASE FindOk
  BY <1>6, <1>t DEF FindOk
<1>7. CASE FindNone
  BY <1>7, <1>t, PlainTyped, CountTyped DEF FindNone, Kinds
<1>8. CASE FindErr
  BY <1>8, <1>t, FailureTyped DEF FindErr, Errors
<1>9. CASE ConnectOk
  BY <1>9, <1>t DEF ConnectOk
<1>10. CASE ConnectErr
  BY <1>10, <1>t, FailureTyped DEF ConnectErr, Errors, DropTarget
<1>11. CASE OpenOk
  BY <1>11, <1>t, PlainTyped DEF OpenOk, Emit, Kinds
<1>12. CASE OpenErr
  BY <1>12, <1>t DEF OpenErr, Close
<1>13. CASE NextItem
  BY <1>13, <1>t, PlainTyped DEF NextItem, Emit, Kinds
<1>14. CASE NextEnded
  BY <1>14, <1>t, PlainTyped DEF NextEnded, DropTarget, Emit, Kinds
<1>15. CASE NextIdle
  BY <1>15, <1>t DEF NextIdle, Close
<1>16. CASE Send
  <2>1. CASE event.kind \in {"Connected", "Item"}
    <3>1. pc' = "next" /\ poll' = "stop"
      BY <1>16, <2>1 DEF Send, AfterSend
    <3> QED
      BY <1>16, <1>t, <2>1, <3>1 DEF Send
  <2>2. CASE event.kind \in {"WaitingForDevice", "Disconnected"}
    <3>1. pc' = "find" /\ poll' = "stop"
      BY <1>16, <2>2 DEF Send, AfterSend
    <3> QED
      BY <1>16, <1>t, <2>2, <3>1 DEF Send
  <2>3. CASE event.kind = "Retrying"
    BY <1>16, <1>t, <2>3 DEF Send, AfterSend
  <2>4. CASE event.kind = "GaveUp"
    BY <1>16, <1>t, <2>4 DEF Send, AfterSend
  <2> QED
    BY <1>k, <2>1, <2>2, <2>3, <2>4 DEF Kinds
<1>17. CASE SendClosed
  BY <1>17, <1>t DEF SendClosed, Unsent, Leave, Close
<1>18. CASE Slept
  BY <1>18, <1>t DEF Slept
<1>19. CASE CloseFailed
  BY <1>19, <1>t, FailureTyped DEF CloseFailed, Errors, DropTarget, Closed
<1>20. CASE CloseIdle
  BY <1>20, <1>t, PlainTyped DEF CloseIdle, Closed, DropTarget, Emit, Kinds
<1>21. CASE CloseExit
  BY <1>21, <1>t DEF CloseExit, Closed
<1>22. CASE Recv
  BY <1>22, <1>t DEF Recv
<1>23. CASE Stop
  BY <1>23, <1>t DEF Stop
<1>24. CASE Abort
  BY <1>24, <1>t DEF Abort
<1>25. CASE CloseReceiver
  BY <1>25, <1>t DEF CloseReceiver
<1>26. CASE LinkDrops
  BY <1>26, <1>t DEF LinkDrops
<1>27. CASE ItemArrives
  BY <1>27, <1>t DEF ItemArrives
<1>28. CASE UNCHANGED vars
  BY <1>28 DEF vars
<1> QED
  BY <1>1, <1>2, <1>3, <1>4, <1>5, <1>6, <1>7, <1>8, <1>9, <1>10, <1>11, <1>12,
     <1>13, <1>14, <1>15, <1>16, <1>17, <1>18, <1>19, <1>20, <1>21, <1>22,
     <1>23, <1>24, <1>25, <1>26, <1>27, <1>28
     DEF Next, Supervisor, Outside, Polling, Connecting, Streaming,
         Disconnecting

(* The invariant holds when the task is spawned.                            *)
LEMMA IInvInit == Init => IInv
<1> SUFFICES ASSUME Init PROVE IInv
  OBVIOUS
<1>1. TypeOK
  BY TypeInit
<1>2. pc \in {"find", "connect"} /\ (pc = "find" => target = "none")
        /\ (pc = "connect" => target = "fresh")
  BY FlagsAssumption DEF Init
<1> QED
  BY <1>1, <1>2 DEF Init, IInv, TargetInv, DiscInv, LateInv, ExitInv, LinkInv,
         NoOrphanLink,
         FailureBudget, EventInv, Closing

(* The invariant holds in every reachable state.                            *)
LEMMA IInvHolds == Spec => []IInv
BY IInvInit, IInvStep, PTL DEF Spec

(* run() connects only to a target that has not produced a connection yet.  *)
THEOREM FreshTargets == Spec => []FreshTarget
<1>1. IInv => FreshTarget
  BY DEF IInv, TargetInv, FreshTarget
<1> QED
  BY <1>1, IInvHolds, PTL

(* No device is disconnected twice by the supervisor.                       *)
THEOREM DisconnectsOnce == Spec => []SingleDisconnect
<1>1. IInv => SingleDisconnect
  BY DEF IInv, DiscInv, SingleDisconnect
<1> QED
  BY <1>1, IInvHolds, PTL

(* As long as sources end their stream only when the link is lost, which    *)
(* the Source trait asks of them, the supervisor leaves no live link        *)
(* behind.                                                                  *)
THEOREM NoLinkOrphaned ==
    ASSUME ~EndsEarly PROVE Spec => []NoOrphanLink
<1>1. IInv => NoOrphanLink
  BY DEF IInv, LinkInv
<1> QED
  BY <1>1, IInvHolds, PTL

(* count_failure ends the stream before another attempt exceeds             *)
(* max_attempts.                                                            *)
THEOREM BudgetKept == Spec => []FailureBudget
<1>1. IInv => FailureBudget
  BY DEF IInv
<1> QED
  BY <1>1, IInvHolds, PTL

(* A stop is followed by at most one more event.                            *)
THEOREM StopBounds == Spec => []OneEventAfterStop
<1>1. IInv => OneEventAfterStop
  BY DEF IInv, LateInv, OneEventAfterStop
<1> QED
  BY <1>1, IInvHolds, PTL


(* The supervisor starts where its promise starts.                          *)
LEMMA RefinedInit == Init => Promise!Init
<1> SUFFICES ASSUME Init PROVE Promise!Init
  OBVIOUS
<1>1. pc \in {"find", "connect"}
  BY FlagsAssumption DEF Init
<1> QED
  BY <1>1 DEF Init, Promise!Init, Phase

(* Every step of the supervisor is one the promise allows, or invisible in  *)
(* it.                                                                      *)
LEMMA RefinedStep == IInv /\ [Next]_vars => [Promise!Next]_Promise!vars
<1> SUFFICES ASSUME IInv, [Next]_vars
             PROVE  [Promise!Next]_Promise!vars
  OBVIOUS
<1>t. TypeOK /\ IInv' /\ TypeOK'
  BY IInvStep, TypeStep DEF IInv
<1>k. event.kind \in Kinds
  BY <1>t DEF TypeOK, Events
<1> USE DEF Phase, At, Enter, task, channel, consumer, device, Promise!vars
<1>1. CASE SeeStop
  <2>1. Phase' = "over" /\ UNCHANGED <<attempts, queue, rxClosed>>
    BY <1>1 DEF SeeStop, Unsent, Leave, Close
  <2> QED
    BY <2>1 DEF Promise!Next, Promise!End
<1>2. CASE NoStop
  BY <1>2 DEF NoStop
<1>3. CASE Park
  BY <1>3 DEF Park
<1>4. CASE Wake
  BY <1>4 DEF Wake
<1>5. CASE Cancel
  BY <1>5 DEF Cancel, Promise!Next, Promise!End
<1>6. CASE FindOk
  BY <1>6 DEF FindOk
<1>7. CASE FindNone
  <2>1. /\ Phase = "down" /\ Phase' = "failing"
        /\ attempts' = IF attempts < MaxCount THEN attempts + 1 ELSE attempts
    BY <1>7, <1>t, PlainTyped, CountTyped DEF FindNone, Kinds, TypeOK, Closed
  <2>2. UNCHANGED <<queue, rxClosed>>
    BY <1>7 DEF FindNone, Closed
  <2>3. Promise!Fail
    BY <2>1, <2>2 DEF Promise!Fail
  <2> QED
    BY <2>3 DEF Promise!Next
<1>8. CASE FindErr
  <2>1. /\ Phase = "down" /\ Phase' = "failing"
        /\ attempts' = IF attempts < MaxCount THEN attempts + 1 ELSE attempts
    BY <1>8, <1>t, FailureTyped DEF FindErr, Errors, TypeOK, Closed
  <2>2. UNCHANGED <<queue, rxClosed>>
    BY <1>8 DEF FindErr, Closed
  <2>3. Promise!Fail
    BY <2>1, <2>2 DEF Promise!Fail
  <2> QED
    BY <2>3 DEF Promise!Next
<1>9. CASE ConnectOk
  BY <1>9 DEF ConnectOk
<1>10. CASE ConnectErr
  <2>1. /\ Phase = "down" /\ Phase' = "failing"
        /\ attempts' = IF attempts < MaxCount THEN attempts + 1 ELSE attempts
    BY <1>10, <1>t, FailureTyped DEF ConnectErr, Errors, DropTarget, TypeOK,
       Closed
  <2>2. UNCHANGED <<queue, rxClosed>>
    BY <1>10 DEF ConnectErr, Closed
  <2>3. Promise!Fail
    BY <2>1, <2>2 DEF Promise!Fail
  <2> QED
    BY <2>3 DEF Promise!Next
<1>11. CASE OpenOk
  <2>1. Phase = "down" /\ Phase' = "opening" /\ attempts' = 0
    BY <1>11 DEF OpenOk, Emit, Plain
  <2> QED
    BY <1>11, <2>1 DEF OpenOk, Promise!Next, Promise!Open
<1>12. CASE OpenErr
  BY <1>12 DEF OpenErr, Close
<1>13. CASE NextItem
  BY <1>13 DEF NextItem, Emit, Plain
<1>14. CASE NextEnded
  BY <1>14 DEF NextEnded, Emit, Plain, DropTarget
<1>15. CASE NextIdle
  BY <1>15 DEF NextIdle, Close
<1>16. CASE Send
  <2> USE DEF Promise!Produce
  <2>1. /\ ~rxClosed
        /\ Len(queue) < EventBuffer
        /\ queue' = Append(queue, event)
        /\ event \in Events
        /\ UNCHANGED <<attempts, event, rxClosed>>
    BY <1>16, <1>t DEF Send, TypeOK
  <2>2. EventInv /\ FailureBudget /\ pc = "emit"
    BY <1>16 DEF IInv, Send
  <2>3. CASE event.kind = "Connected"
    <3>1. pc' = "next"
      BY <1>16, <2>3 DEF Send, AfterSend
    <3>2. Phase = "opening" /\ Phase' = "up"
      BY <2>2, <2>3, <3>1
    <3>3. Promise!Greet
      BY <2>1, <2>2, <2>3, <3>2
        DEF Promise!Greet, Promise!Exhausted, EventInv, FailureBudget,
            Exhausted
    <3> QED
      BY <3>3 DEF Promise!Next
  <2>4. CASE event.kind = "Item"
    <3>1. pc' = "next"
      BY <1>16, <2>4 DEF Send, AfterSend
    <3>2. Phase = "up" /\ Phase' = "up"
      BY <2>2, <2>4, <3>1
    <3>3. Promise!Forward
      BY <2>1, <2>2, <2>4, <3>2
        DEF Promise!Forward, Promise!Exhausted, EventInv, FailureBudget,
            Exhausted
    <3> QED
      BY <3>3 DEF Promise!Next
  <2>5. CASE event.kind = "Disconnected"
    <3>1. pc' = "find"
      BY <1>16, <2>5 DEF Send, AfterSend
    <3>2. Phase = "up" /\ Phase' = "down"
      BY <2>2, <2>5, <3>1
    <3>3. Promise!Lose
      BY <2>1, <2>2, <2>5, <3>2
        DEF Promise!Lose, Promise!Exhausted, EventInv, FailureBudget,
            Exhausted
    <3> QED
      BY <3>3 DEF Promise!Next
  <2>6. CASE event.kind = "WaitingForDevice"
    <3>1. pc' = "find"
      BY <1>16, <2>6 DEF Send, AfterSend
    <3>2. Phase = "failing" /\ Phase' = "down"
      BY <2>2, <2>6, <3>1
    <3>3. Promise!Report
      BY <2>1, <2>2, <2>6, <3>2
        DEF Promise!Report, Promise!Exhausted, EventInv, FailureBudget,
            Exhausted
    <3> QED
      BY <3>3 DEF Promise!Next
  <2>7. CASE event.kind = "Retrying"
    <3>1. pc' = "sleep"
      BY <1>16, <2>7 DEF Send, AfterSend
    <3>2. Phase = "failing" /\ Phase' = "down"
      BY <2>2, <2>7, <3>1
    <3>3. Promise!Report
      BY <2>1, <2>2, <2>7, <3>2
        DEF Promise!Report, Promise!Exhausted, EventInv, FailureBudget,
            Exhausted
    <3> QED
      BY <3>3 DEF Promise!Next
  <2>8. CASE event.kind = "GaveUp"
    <3>1. pc' = "done"
      BY <1>16, <2>8 DEF Send, AfterSend
    <3>2. Phase = "failing" /\ Phase' = "over"
      BY <2>2, <2>8, <3>1
    <3>3. Promise!GiveUp
      BY <2>1, <2>2, <2>8, <3>2
        DEF Promise!GiveUp, Promise!Exhausted, EventInv, FailureBudget,
            Exhausted
    <3> QED
      BY <3>3 DEF Promise!Next
  <2> QED
    BY <1>k, <2>3, <2>4, <2>5, <2>6, <2>7, <2>8 DEF Kinds
<1>17. CASE SendClosed
  <2>1. Phase' = "over" /\ UNCHANGED <<attempts, queue, rxClosed>>
    BY <1>17 DEF SendClosed, Unsent, Leave, Close
  <2> QED
    BY <2>1 DEF Promise!Next, Promise!End
<1>18. CASE Slept
  BY <1>18 DEF Slept
<1>19. CASE CloseFailed
  <2>1. /\ Phase = "down" /\ Phase' = "failing"
        /\ attempts' = IF attempts < MaxCount THEN attempts + 1 ELSE attempts
    BY <1>19, <1>t, FailureTyped DEF CloseFailed, Errors, DropTarget, Closed,
       TypeOK, Closed
  <2>2. UNCHANGED <<queue, rxClosed>>
    BY <1>19 DEF CloseFailed, Closed
  <2>3. Promise!Fail
    BY <2>1, <2>2 DEF Promise!Fail
  <2> QED
    BY <2>3 DEF Promise!Next
<1>20. CASE CloseIdle
  BY <1>20 DEF CloseIdle, Emit, Plain, Closed, DropTarget
<1>21. CASE CloseExit
  BY <1>21 DEF CloseExit, Closed
<1>22. CASE Recv
  BY <1>22 DEF Recv, Promise!Next, Promise!Deliver
<1>23. CASE Stop
  BY <1>23 DEF Stop
<1>24. CASE Abort
  BY <1>24 DEF Abort
<1>25. CASE CloseReceiver
  BY <1>25 DEF CloseReceiver, Promise!Next, Promise!Drop
<1>26. CASE LinkDrops
  BY <1>26 DEF LinkDrops
<1>27. CASE ItemArrives
  BY <1>27 DEF ItemArrives
<1>28. CASE UNCHANGED vars
  BY <1>28 DEF vars
<1> QED
  BY <1>1, <1>2, <1>3, <1>4, <1>5, <1>6, <1>7, <1>8, <1>9, <1>10, <1>11, <1>12,
     <1>13, <1>14, <1>15, <1>16, <1>17, <1>18, <1>19, <1>20, <1>21, <1>22,
     <1>23, <1>24, <1>25, <1>26, <1>27, <1>28
     DEF Next, Supervisor, Outside, Polling, Connecting, Streaming,
         Disconnecting

(* The stream delivers what EventStream promises: events in the order of    *)
(* its phases, each failure report carrying the failures since the last     *)
(* connection.                                                              *)
THEOREM PromiseKept == Spec => StreamPromise
BY RefinedInit, RefinedStep, IInvHolds, PTL DEF Spec, StreamPromise,
   Promise!Spec
=============================================================================
