----------------------------- MODULE Reconnect -----------------------------
(***************************************************************************)
(* The supervisor task behind `Reconnecting` (src/src/reconnect.rs), the   *)
(* channel it fills, the handle that stops it, the consumer that polls or  *)
(* drops the stream, and the device link the supervisor holds.             *)
(*                                                                         *)
(* `pc` is the await the task is suspended in. A poll of the task runs it  *)
(* from one await to the next: every await but the disconnects is wrapped  *)
(* in `unless_stopped`, which looks at the stop flag first ("stop") and    *)
(* polls the work second ("work"); the poll ends when the work is pending  *)
(* ("parked"). Other threads act between any two of these steps, and an    *)
(* aborted task is cancelled only once it is parked.                       *)
(*                                                                         *)
(*   find, connect, open   Connector::find, Connector::connect,            *)
(*                         Source::open                                    *)
(*   next                  waiting for the session's next item             *)
(*   emit                  sending `event`, which says what comes after    *)
(*   sleep                 the backoff delay                               *)
(*   closeFailed           disconnecting after open failed                 *)
(*   closeIdle             disconnecting a silent link                     *)
(*   closeExit             disconnecting on the way out                    *)
(***************************************************************************)
EXTENDS Integers, Sequences

CONSTANTS
    EventBuffer,   \* capacity of the event channel (32 in the code)
    Attempts,      \* connect_attempts_per_scan
    Limited,       \* max_attempts is Some(MaxAttempts)
    MaxAttempts,
    IdleTimeout,   \* idle_timeout is set
    Initial,       \* the stream starts from a device already discovered
    EndsEarly,     \* the source's stream may end while the link is up
    MaxCount       \* where the u32 failure counter saturates

ASSUME BufferAssumption == EventBuffer \in Nat \ {0}
ASSUME AttemptsAssumption == Attempts \in Nat
ASSUME LimitAssumption == Limited \in BOOLEAN /\ MaxAttempts \in Nat
ASSUME FlagsAssumption ==
    IdleTimeout \in BOOLEAN /\ Initial \in BOOLEAN /\ EndsEarly \in BOOLEAN
ASSUME CountAssumption == MaxCount \in Nat \ {0}

VARIABLES
    pc, poll,   \* where the task is, and what its current poll does next
    target,     \* the connect target: none, fresh, or spent by a connection
    retry,      \* number of the connect attempt on it
    attempts,   \* consecutive failures since the last connection
    event,      \* the event being sent, or the last one sent
    exit,       \* why the task ended
    queue,      \* the channel
    rxClosed,   \* the receiver is gone
    stop,       \* the stop flag
    aborted,    \* the stream's drop has aborted the task
    late,       \* events sent since stop was requested
    link,       \* of the current, else the last, device
    disc,       \* disconnects issued on it
    arrived     \* an item is waiting in the session's stream

task == <<pc, poll, target, retry, attempts, event, exit>>
channel == <<queue, late>>
consumer == <<rxClosed, stop, aborted>>
device == <<link, disc, arrived>>
vars == <<task, channel, consumer, device>>

Kinds == {"Connected", "Item", "Disconnected", "WaitingForDevice",
          "Retrying", "GaveUp"}
Errors == {"none", "scan", "connect", "open"}
Tries == IF Attempts = 0 THEN 1 ELSE Attempts
Events == [kind : Kinds, attempt : 0..MaxCount, retry : 0..Tries,
           error : Errors]

Plain(kind) == [kind |-> kind, attempt |-> 0, retry |-> 0, error |-> "none"]

Closing == pc \in {"closeFailed", "closeIdle", "closeExit"}

\* Mutant: Disconnected is emitted inside the session.
InSessionEmitsLoss ==
    \/ pc \in {"open", "next", "closeIdle", "closeFailed"}
    \/ pc = "emit" /\ event.kind \in {"Connected", "Item", "Disconnected"}

(* session() is on the stack, so run() disconnects if it is left early.     *)
InSession ==
    \/ pc \in {"open", "next", "closeIdle", "closeFailed"}
    \/ pc = "emit" /\ event.kind \in {"Connected", "Item"}

\* Mutant: one attempt too many.
ExhaustedLate(count) == Limited /\ count > MaxAttempts

Exhausted(count) == Limited /\ count >= MaxAttempts

Init ==
    /\ pc = IF Initial THEN "connect" ELSE "find"
    /\ poll = "stop"
    /\ target = IF Initial THEN "fresh" ELSE "none"
    /\ retry = IF Initial THEN 1 ELSE 0
    /\ attempts = 0
    /\ event = Plain("WaitingForDevice")
    /\ exit = "none"
    /\ queue = << >>
    /\ rxClosed = FALSE
    /\ stop = FALSE
    /\ aborted = FALSE
    /\ late = 0
    /\ link = "none"
    /\ disc = 0
    /\ arrived = FALSE

---------------------------------------------------------------------------
(* Polling *)

At(await) == pc = await /\ poll = "work"

Enter(await) == pc' = await /\ poll' = "stop"

Emit(e) == event' = e /\ Enter("emit")

Close(await) ==
    /\ pc' = await
    /\ poll' = "work"
    /\ disc' = disc + 1
    /\ UNCHANGED <<link, arrived>>

\* Mutant: `?` on the session instead of disconnecting on the way out.
LeaveConnected(why) ==
    /\ exit' = why
    /\ pc' = "done"
    /\ poll' = "parked"
    /\ UNCHANGED <<target, retry, attempts, event, device>>

Leave(why) ==
    /\ exit' = why
    /\ IF InSession
         THEN Close("closeExit")
         ELSE /\ pc' = "done"
              /\ poll' = "parked"
              /\ UNCHANGED device
    /\ UNCHANGED <<target, retry, attempts, event>>

(* Where the budget is spent, the stream has given up whether or not the    *)
(* consumer gets to hear of it.                                             *)
Unsent(why) == IF pc = "emit" /\ event.kind = "GaveUp" THEN "gaveUp" ELSE why

SeeStop ==
    /\ poll = "stop"
    /\ stop
    /\ Leave(Unsent("stopped"))
    /\ UNCHANGED <<channel, consumer>>

\* Mutant: the select is not biased.
NoStopUnbiased ==
    /\ poll = "stop"
    /\ poll' = "work"
    /\ UNCHANGED <<pc, target, retry, attempts, event, exit>>
    /\ UNCHANGED <<channel, consumer, device>>

NoStop ==
    /\ poll = "stop"
    /\ ~stop
    /\ poll' = "work"
    /\ UNCHANGED <<pc, target, retry, attempts, event, exit>>
    /\ UNCHANGED <<channel, consumer, device>>

Park ==
    /\ poll = "work"
    /\ pc = "emit" => Len(queue) = EventBuffer /\ ~rxClosed
    /\ poll' = "parked"
    /\ UNCHANGED <<pc, target, retry, attempts, event, exit>>
    /\ UNCHANGED <<channel, consumer, device>>

\* Mutant: the stop flag is read before the send, not while it waits.
WakeSending ==
    /\ poll = "parked"
    /\ pc # "done"
    /\ ~aborted
    /\ poll' = IF Closing \/ pc = "emit" THEN "work" ELSE "stop"
    /\ UNCHANGED <<pc, target, retry, attempts, event, exit>>
    /\ UNCHANGED <<channel, consumer, device>>

Wake ==
    /\ poll = "parked"
    /\ pc # "done"
    /\ ~aborted
    /\ poll' = IF Closing THEN "work" ELSE "stop"
    /\ UNCHANGED <<pc, target, retry, attempts, event, exit>>
    /\ UNCHANGED <<channel, consumer, device>>

Cancel ==
    /\ poll = "parked"
    /\ pc # "done"
    /\ aborted
    /\ pc' = "done"
    /\ exit' = "cancelled"
    /\ UNCHANGED <<poll, target, retry, attempts, event>>
    /\ UNCHANGED <<channel, consumer, device>>

---------------------------------------------------------------------------
(* Scanning and connecting *)

CountFailure(report) ==
    /\ attempts' = IF attempts < MaxCount THEN attempts + 1 ELSE attempts
    /\ IF Exhausted(attempts')
         THEN Emit([report EXCEPT !.kind = "GaveUp", !.attempt = attempts',
                                  !.retry = 0])
         ELSE Emit(report)

Failure(try, error) ==
    CountFailure([kind |-> "Retrying", retry |-> try, error |-> error,
                  attempt |-> IF attempts < MaxCount THEN attempts + 1
                                                     ELSE attempts])

DropTarget == target' = "none" /\ retry' = 0

FindOk ==
    /\ At("find")
    /\ target' = "fresh"
    /\ retry' = 1
    /\ Enter("connect")
    /\ UNCHANGED <<attempts, event, exit, channel, consumer, device>>

FindNone ==
    /\ At("find")
    /\ CountFailure(Plain("WaitingForDevice"))
    /\ UNCHANGED <<target, retry, exit, channel, consumer, device>>

FindErr ==
    /\ At("find")
    /\ Failure(1, "scan")
    /\ UNCHANGED <<target, retry, exit, channel, consumer, device>>

\* Mutant: the failure count is reset before the source is open.
ConnectOkResets ==
    /\ At("connect")
    /\ target' = "spent"
    /\ attempts' = 0
    /\ link' = "up"
    /\ disc' = 0
    /\ arrived' = FALSE
    /\ Enter("open")
    /\ UNCHANGED <<retry, event, exit, channel, consumer>>

ConnectOk ==
    /\ At("connect")
    /\ target' = "spent"
    /\ link' = "up"
    /\ disc' = 0
    /\ arrived' = FALSE
    /\ Enter("open")
    /\ UNCHANGED <<retry, attempts, event, exit, channel, consumer>>

\* Mutant: one connect attempt too many.
ConnectErrOnceMore ==
    /\ At("connect")
    /\ Failure(retry, "connect")
    /\ IF retry <= Tries
         THEN retry' = retry + 1 /\ UNCHANGED target
         ELSE DropTarget
    /\ UNCHANGED <<exit, channel, consumer, device>>

ConnectErr ==
    /\ At("connect")
    /\ Failure(retry, "connect")
    /\ IF retry < Tries
         THEN retry' = retry + 1 /\ UNCHANGED target
         ELSE DropTarget
    /\ UNCHANGED <<exit, channel, consumer, device>>

---------------------------------------------------------------------------
(* A session *)

\* Mutant: the failure count is not reset.
OpenOkKeepsCount ==
    /\ At("open")
    /\ Emit(Plain("Connected"))
    /\ UNCHANGED <<target, retry, attempts, exit, channel, consumer, device>>

OpenOk ==
    /\ At("open")
    /\ attempts' = 0
    /\ Emit(Plain("Connected"))
    /\ UNCHANGED <<target, retry, exit, channel, consumer, device>>

OpenErr ==
    /\ At("open")
    /\ Close("closeFailed")
    /\ UNCHANGED <<target, retry, attempts, event, exit, channel, consumer>>

NextItem ==
    /\ At("next")
    /\ arrived
    /\ arrived' = FALSE
    /\ Emit(Plain("Item"))
    /\ UNCHANGED <<target, retry, attempts, exit, channel, consumer>>
    /\ UNCHANGED <<link, disc>>

NextEnded ==
    /\ At("next")
    /\ link = "lost" \/ EndsEarly
    /\ Emit(Plain("Disconnected"))
    /\ DropTarget
    /\ UNCHANGED <<attempts, exit, channel, consumer, device>>

NextIdle ==
    /\ At("next")
    /\ IdleTimeout
    /\ ~arrived
    /\ Close("closeIdle")
    /\ UNCHANGED <<target, retry, attempts, event, exit, channel, consumer>>

(* The disconnect succeeds, fails or times out: its result is ignored.      *)
Closed(await) ==
    /\ At(await)
    /\ link' \in {link, "lost"}
    /\ UNCHANGED <<disc, arrived>>

\* Mutant: `continue` instead of `break` after a failed open.
CloseFailedRetries ==
    /\ Closed("closeFailed")
    /\ Failure(retry, "open")
    /\ UNCHANGED <<target, retry>>
    /\ UNCHANGED <<exit, channel, consumer>>

CloseFailed ==
    /\ Closed("closeFailed")
    /\ Failure(retry, "open")
    /\ DropTarget
    /\ UNCHANGED <<exit, channel, consumer>>

CloseIdle ==
    /\ Closed("closeIdle")
    /\ Emit(Plain("Disconnected"))
    /\ DropTarget
    /\ UNCHANGED <<attempts, exit, channel, consumer>>

CloseExit ==
    /\ Closed("closeExit")
    /\ pc' = "done"
    /\ poll' = "parked"
    /\ UNCHANGED <<target, retry, attempts, event, exit, channel, consumer>>

---------------------------------------------------------------------------
(* Sending and sleeping *)

AfterSend ==
    CASE event.kind \in {"Connected", "Item"} -> Enter("next")
      [] event.kind \in {"WaitingForDevice", "Disconnected"} -> Enter("find")
      [] event.kind = "Retrying" -> Enter("sleep")
      [] event.kind = "GaveUp" -> pc' = "done" /\ poll' = "parked"

Send ==
    /\ At("emit")
    /\ ~rxClosed
    /\ Len(queue) < EventBuffer
    /\ queue' = Append(queue, event)
    /\ late' = IF stop THEN late + 1 ELSE 0
    /\ AfterSend
    /\ exit' = IF event.kind = "GaveUp" THEN "gaveUp" ELSE exit
    /\ UNCHANGED <<target, retry, attempts, event, consumer, device>>

SendClosed ==
    /\ At("emit")
    /\ rxClosed
    /\ Leave(Unsent("consumerGone"))
    /\ UNCHANGED <<channel, consumer>>

Slept ==
    /\ At("sleep")
    /\ Enter(IF target = "none" THEN "find" ELSE "connect")
    /\ UNCHANGED <<target, retry, attempts, event, exit>>
    /\ UNCHANGED <<channel, consumer, device>>

---------------------------------------------------------------------------
(* The consumer, the stop handle, and the device *)

Recv ==
    /\ ~aborted
    /\ queue # << >>
    /\ queue' = Tail(queue)
    /\ UNCHANGED <<task, late, consumer, device>>

Stop ==
    /\ ~stop
    /\ stop' = TRUE
    /\ UNCHANGED <<task, channel, rxClosed, aborted, device>>

Abort ==
    /\ ~aborted
    /\ aborted' = TRUE
    /\ UNCHANGED <<task, channel, rxClosed, stop, device>>

CloseReceiver ==
    /\ aborted
    /\ ~rxClosed
    /\ rxClosed' = TRUE
    /\ queue' = << >>
    /\ UNCHANGED <<task, late, stop, aborted, device>>

LinkDrops ==
    /\ link = "up"
    /\ link' = "lost"
    /\ UNCHANGED <<task, channel, consumer, disc, arrived>>

ItemArrives ==
    /\ link = "up"
    /\ InSession
    /\ ~arrived
    /\ arrived' = TRUE
    /\ UNCHANGED <<task, channel, consumer, link, disc>>

---------------------------------------------------------------------------
Connecting ==
    \/ FindOk \/ FindNone \/ FindErr
    \/ ConnectOk \/ ConnectErr
    \/ OpenOk \/ OpenErr

Streaming == NextItem \/ NextEnded \/ NextIdle \/ Send \/ SendClosed \/ Slept

Disconnecting == CloseFailed \/ CloseIdle \/ CloseExit

Polling == SeeStop \/ NoStop \/ Park \/ Wake \/ Cancel

Supervisor == Polling \/ Connecting \/ Streaming \/ Disconnecting

Outside == Recv \/ Stop \/ Abort \/ CloseReceiver \/ LinkDrops \/ ItemArrives

Next == Supervisor \/ Outside

Spec == Init /\ [][Next]_vars

(* The runtime polls a woken task and lets a running one go on, and cancels *)
(* an aborted one; the bound on disconnect_quietly ends every disconnect.   *)
SchedulerFairness ==
    /\ WF_vars(Polling \/ Connecting \/ Streaming \/ Disconnecting)
    /\ SF_vars(Disconnecting)

FairSpec == Spec /\ SchedulerFairness

(* The scan, connect and open calls the environment answers; recv is a      *)
(* consumer that keeps polling the stream.                                  *)
Answered ==
    /\ SF_vars(FindOk \/ FindNone \/ FindErr)
    /\ SF_vars(ConnectOk \/ ConnectErr)
    /\ SF_vars(OpenOk \/ OpenErr)
    /\ SF_vars(Slept)
    /\ SF_vars(NextEnded)
    /\ WF_vars(Recv)

---------------------------------------------------------------------------
(* Properties *)

TypeOK ==
    /\ pc \in {"find", "connect", "open", "next", "emit", "sleep", "done",
              "closeFailed", "closeIdle", "closeExit"}
    /\ poll \in {"stop", "work", "parked"}
    /\ target \in {"none", "fresh", "spent"}
    /\ retry \in 0..Tries
    /\ attempts \in 0..MaxCount
    /\ event \in Events
    /\ exit \in {"none", "stopped", "consumerGone", "gaveUp", "cancelled"}
    /\ queue \in Seq(Events)
    /\ rxClosed \in BOOLEAN
    /\ stop \in BOOLEAN
    /\ aborted \in BOOLEAN
    /\ arrived \in BOOLEAN
    /\ late \in Nat
    /\ link \in {"none", "up", "lost"}
    /\ disc \in Nat

(* A target is connected to only until it has produced a connection once:   *)
(* every reconnection goes through a fresh scan, whichever way the last     *)
(* session ended.                                                           *)
FreshTarget == pc = "connect" => target = "fresh"

(* No device is disconnected twice, whatever combination of open failure,   *)
(* idle timeout, stop and drop ends its session.                            *)
SingleDisconnect == disc <= 1

(* A live link that nobody has asked to close belongs to a session that is  *)
(* still running, unless the stream was dropped and its task cancelled.     *)
NoOrphanLink == (link = "up" /\ disc = 0) => (InSession \/ exit = "cancelled")

(* The supervisor never starts another attempt with its failure budget      *)
(* spent: it is reporting GaveUp or has ended.                              *)
FailureBudget ==
    (Limited /\ attempts > 0 /\ attempts >= MaxAttempts) =>
        (pc = "done" \/ (pc = "emit" /\ event.kind = "GaveUp"))

(* Once stop is requested the consumer is sent at most one more event, the  *)
(* one whose send had already passed its look at the flag.                  *)
OneEventAfterStop == late <= 1

(* The stream's phase, in the terms of its promise.                         *)
Phase ==
    CASE pc \in {"done", "closeExit"} -> "over"
      [] pc \in {"next", "closeIdle"} -> "up"
      [] pc \in {"find", "connect", "open", "sleep", "closeFailed"} -> "down"
      [] pc = "emit" ->
            CASE event.kind \in {"Item", "Disconnected"} -> "up"
              [] event.kind = "Connected" -> "opening"
              [] OTHER -> "failing"

Promise == INSTANCE EventStream WITH
    Capacity <- EventBuffer,
    Event <- Events,
    phase <- Phase,
    failures <- attempts,
    out <- queue,
    dropped <- rxClosed

(* What the stream delivers, in which order and with which failure counts,  *)
(* is what EventStream promises.                                            *)
StreamPromise == Promise!Spec

(* With a failure budget, calls that return and a consumer that polls, the  *)
(* supervisor does not fail for ever: it streams again and again, or ends.  *)
StreamsOrEnds ==
    (Limited /\ Answered) => ([]<>(pc = "next") \/ <>(pc = "done"))

(* Dropping the stream aborts the task without disconnecting the device: a  *)
(* task that is sending an event when the stream goes away leaves the link. *)
DropNeverDisconnects ==
    [][(aborted /\ ~stop /\ pc = "emit") => disc' <= disc]_vars
=============================================================================
