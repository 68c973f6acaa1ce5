---------------------------- MODULE DeviceStream ----------------------------
(***************************************************************************)
(* A stream of `Adapter::stream_with_reconnect`: the supervisor task       *)
(* (Reconnect) over the real connector (AddressConnector in                *)
(* src/src/backend/mod.rs), whose find is a search with a scan of its own  *)
(* (Discovery) and whose connect is a call into the adapter                *)
(* (BackendConnect). Nobody else uses the adapter or the device, and the   *)
(* runtime stays up: one that shuts down takes the task with it.           *)
(*                                                                         *)
(* A step of this system is a step of the supervisor, of its search and    *)
(* of its call, taken together where the code goes from one to the other   *)
(* within one await: the answer of the search is the answer of find, the   *)
(* device of the call is the device of the session, and a future that the  *)
(* supervisor drops is a search or a call abandoned where it stands.       *)
(***************************************************************************)
EXTENDS Reconnect

CONSTANTS
    me,            \* the stream, as a caller and as a search
    Meter,         \* the device the stream follows
    MaxPending     \* bound on the disconnects in flight outside the calls

ASSUME PendingAssumption == MaxPending \in Nat

VARIABLES
    call, os, pending, runtime, excused,              \* of BackendConnect
    search, heard, found, current, owed, scanning, alone   \* of Discovery

connection == <<call, os, pending, runtime, excused>>
searching == <<search, heard, found, current, owed, scanning, alone>>
deviceVars == <<vars, connection, searching>>

Backend == INSTANCE BackendConnect WITH
    pc <- call, Callers <- {me}

Search == INSTANCE Discovery WITH
    pc <- search,
    events <- heard,
    Peripherals <- {Meter},
    Fluke <- {Meter},
    Owned <- {me},
    Passive <- {},
    Accept <- [s \in {me} |-> {Meter}],
    EventBuffer <- 1

DeviceInit == Init /\ Backend!Init /\ Search!Init

---------------------------------------------------------------------------
(* AddressConnector::find *)

(* The search has an answer for find once it rests again.                   *)
Answers ==
    \/ search'[me] \notin Search!Resting /\ UNCHANGED vars
    \/ search'[me] = "idle" /\ Search!Returned(me) # {} /\ FindOk
    \/ search'[me] = "idle" /\ Search!Returned(me) = {} /\ FindNone
    \/ search'[me] \in {"failed", "errored"} /\ FindErr

(* The first poll forgets the adapter's peripherals and begins the search,  *)
(* the later ones go on with it.                                            *)
Finding ==
    /\ At("find")
    /\ \/ Search!Begin(me) \/ Search!ForgetFails(me) \/ Search!EventsFail(me)
       \/ Search!Progress(me)
    /\ Answers
    /\ UNCHANGED connection

(* A device that is connected does not advertise. Its advertisements are    *)
(* all that the adapter broadcasts to the search here.                      *)
Advertised ==
    /\ os # "up"
    /\ Search!Advertise(Meter)
    /\ UNCHANGED <<vars, connection>>

---------------------------------------------------------------------------
(* Connector::connect *)

Calling ==
    /\ At("connect")
    /\ Backend!Call(me) \/ Backend!Attempt(me) \/ Backend!Up(me)
       \/ Backend!AttemptFails(me)
    /\ UNCHANGED <<vars, searching>>

Connected ==
    /\ ConnectOk
    /\ Backend!Discovered(me)
    /\ UNCHANGED searching

NotConnected ==
    /\ ConnectErr
    /\ Backend!LookupFails(me) \/ Backend!Released(me)
    /\ UNCHANGED searching

---------------------------------------------------------------------------
(* The session *)

(* The link of the session follows the connection.                          *)
LinkFollows ==
    link' = IF link = "up" /\ os = "up" /\ os' = "idle" THEN "lost" ELSE link

(* disconnect_quietly: the disconnect answers, or is given up on.           *)
SessionCloses ==
    /\ Disconnecting
    /\ Backend!Disconnect(me) \/ Backend!DropDisconnect(me)
    /\ LinkFollows
    /\ UNCHANGED searching

(* The stream of notifications has ended: the device is let go of.          *)
SessionEnds ==
    /\ NextEnded
    /\ Backend!Forget(me)
    /\ UNCHANGED searching

(* What the supervisor does without the adapter.                            *)
OnItsOwn ==
    /\ \/ NoStop \/ Park \/ Wake
       \/ OpenOk \/ OpenErr \/ NextItem \/ NextIdle
       \/ Send \/ SendClosed \/ Slept
    /\ UNCHANGED <<connection, searching>>

---------------------------------------------------------------------------
(* Futures dropped in the middle *)

DropsSearch ==
    IF pc = "find" /\ search[me] \notin Search!Resting
      THEN Search!Abandon(me)
      ELSE UNCHANGED searching

DropsCall ==
    IF pc = "connect" /\ call[me] # "idle"
      THEN Backend!DropCall(me)
      ELSE UNCHANGED connection

(* The stop is seen before a search or a call is polled again.              *)
StopSeen == SeeStop /\ DropsSearch /\ DropsCall

(* The aborted task is dropped with whatever it holds: a session's device,  *)
(* and the disconnect it may be waiting for.                                *)
Cancelled ==
    /\ Cancel
    /\ DropsSearch
    /\ \/ Closing /\ Backend!DropDisconnect(me)
       \/ ~Closing /\ InSession /\ Backend!Forget(me)
       \/ ~Closing /\ ~InSession /\ DropsCall

---------------------------------------------------------------------------
(* Everybody else *)

Outsiders ==
    /\ Outside
    /\ link' = link
    /\ UNCHANGED <<connection, searching>>

(* A disconnect left behind may arrive in a later session of the stream.    *)
ConnectionMoves ==
    /\ Backend!Detached \/ Backend!OsConnects \/ Backend!OsLoses
    /\ LinkFollows
    /\ UNCHANGED <<task, channel, consumer, disc, arrived, searching>>

---------------------------------------------------------------------------
Working ==
    \/ Finding \/ Calling \/ Connected \/ NotConnected
    \/ SessionCloses \/ SessionEnds \/ OnItsOwn \/ StopSeen \/ Cancelled

DeviceNext == Working \/ Advertised \/ Outsiders \/ ConnectionMoves

DeviceSpec == DeviceInit /\ [][DeviceNext]_deviceVars

(* As SchedulerFairness: the runtime polls the task, cancels an aborted     *)
(* one and runs a spawned disconnect, and five seconds bound the one the    *)
(* supervisor waits for. A poll returns, however many answers it finds      *)
(* ready. Nothing is assumed of the adapter's answers.                      *)
DeviceFairness ==
    /\ WF_deviceVars(Working)
    /\ SF_deviceVars(OnItsOwn /\ Park)
    /\ SF_deviceVars(SessionCloses)
    /\ WF_deviceVars(Backend!Detached /\ ConnectionMoves)

DeviceFairSpec == DeviceSpec /\ DeviceFairness

---------------------------------------------------------------------------
(* Properties *)

(* Where search and call may be, seen from the supervisor.                  *)
Places ==
    /\ search[me] \notin Search!Resting => pc = "find"
    /\ call[me] \in Backend!Guarded \cup {"lookup", "release"} => pc = "connect"
    /\ call[me] = "connected" <=> InSession \/ Closing

(* Supervisor, search and call agree: a search runs only inside find, a     *)
(* call only inside connect, the device is held for as long as its session  *)
(* and its disconnect last, and a link the supervisor takes for up is one   *)
(* the system has not lost.                                                 *)
Agreement ==
    /\ Backend!TypeOK /\ Search!TypeOK
    /\ Places
    /\ link = "up" => os = "up"

(* A stream that has ended, except by being dropped, has left the device to *)
(* nobody: its connection is gone or a disconnect is on its way to it,      *)
(* unless that disconnect failed.                                           *)
NothingLeftBehind ==
    (pc = "done" /\ exit # "cancelled") =>
        os = "idle" \/ pending > 0 \/ excused

(* As long as every stop_scan succeeds, the stream's scan never runs beside *)
(* a connect attempt, a session or a backoff delay.                         *)
NoScanWhileConnecting == (alone /\ pc \notin {"find", "done"}) => ~scanning

(* A stop ends the stream with its device released, unless the disconnect   *)
(* fails, and a drop ends it, though nobody polls the stream and whatever   *)
(* the adapter answers or does not answer.                                  *)
ReleasedWhenAsked ==
    (stop \/ aborted) ~>
        (pc = "done" /\ (exit = "cancelled" \/ os = "idle" \/ excused))

(* What can go wrong between losing a session and having the next.          *)
Setback ==
    \/ Search!ForgetFails(me) \/ Search!EventsFail(me)
    \/ Search!StartScanFails(me) \/ (Search!StartScan(me) /\ scanning)
    \/ Search!DescribeFails(me) \/ Search!WindowEnds(me)
    \/ Backend!AttemptFails(me) \/ Backend!LookupFails(me)
    \/ Backend!OsLoses

(* A device in reach: calls answer, the consumer polls, and from some time  *)
(* on nothing goes wrong.                                                   *)
InReach ==
    /\ SF_deviceVars(Working /\ ~Polling)
    /\ WF_deviceVars(Outsiders /\ Recv)
    /\ WF_deviceVars(Advertised)
    /\ WF_deviceVars(Backend!OsConnects /\ ConnectionMoves)
    /\ <>[][~Setback]_deviceVars

(* A session that lost its link, or was closed for its silence, is followed *)
(* by another one with the device found afresh, or the stream ends, unless  *)
(* a disconnect failed: the device is then stuck with a connection that     *)
(* nobody has, and does not advertise.                                      *)
Reconnects ==
    InReach =>
        ((pc = "next" /\ link = "lost") \/ pc = "closeIdle")
            ~> (pc \in {"open", "done"} \/ excused)
=============================================================================
