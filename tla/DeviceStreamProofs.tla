------------------------- MODULE DeviceStreamProofs -------------------------
(***************************************************************************)
(* Proofs about DeviceStream: what is proved of the supervisor alone, of   *)
(* the search and of the call holds of the three together, a stream that   *)
(* has ended leaves no connection behind, its scan runs beside nothing     *)
(* else, and the parts agree. For every policy, buffer size and bound on   *)
(* the disconnects in flight.                                              *)
(***************************************************************************)
EXTENDS DeviceStream, ReconnectProofs, FiniteSetTheorems

---------------------------------------------------------------------------
(* The composition and its parts *)

(* Every step of the stream is a step of its supervisor or leaves it alone. *)
LEMMA SupervisorStep == [DeviceNext]_deviceVars => [Next]_vars
<1> SUFFICES ASSUME DeviceNext PROVE [Next]_vars
  BY DEF deviceVars
<1>1. CASE Finding
  BY <1>1 DEF Finding, Answers, Next, Supervisor, Connecting
<1>2. CASE Calling \/ Connected \/ NotConnected
  BY <1>2 DEF Calling, Connected, NotConnected, Next, Supervisor, Connecting
<1>3. CASE SessionCloses \/ SessionEnds
  BY <1>3 DEF SessionCloses, SessionEnds, Next, Supervisor, Streaming
<1>4. CASE OnItsOwn
  BY <1>4 DEF OnItsOwn, Next, Supervisor, Connecting, Streaming, Polling
<1>5. CASE StopSeen \/ Cancelled
  BY <1>5 DEF StopSeen, Cancelled, Next, Supervisor, Polling
<1>6. CASE Outsiders \/ Advertised
  BY <1>6 DEF Outsiders, Advertised, Next
<1>7. CASE ConnectionMoves
  <2>1. link' = link \/ (link = "up" /\ link' = "lost")
    BY <1>7 DEF ConnectionMoves, LinkFollows
  <2>2. UNCHANGED <<task, channel, consumer, disc, arrived>>
    BY <1>7 DEF ConnectionMoves
  <2> QED
    BY <2>1, <2>2 DEF Next, Outside, LinkDrops, vars, device
<1> QED
  BY <1>1, <1>2, <1>3, <1>4, <1>5, <1>6, <1>7 DEF DeviceNext, Working

(* The supervisor over the real connector is the supervisor of Reconnect,   *)
(* whose find, connect and disconnect may answer anything at any time.      *)
THEOREM StreamIsReconnect == DeviceSpec => Spec
<1>1. DeviceInit => Init
  BY DEF DeviceInit
<1> QED
  BY <1>1, SupervisorStep, PTL DEF DeviceSpec, Spec

(* So the stream keeps the promise of a reconnecting stream: the order of   *)
(* its events, their failure counts and their delivery, with the real       *)
(* searches and connection attempts under it and whatever they drop.        *)
THEOREM StreamKeepsPromise == DeviceSpec => StreamPromise
BY StreamIsReconnect, PromiseKept, PTL

(* Its connects and disconnects are those of a caller of the adapter.       *)
THEOREM StreamIsCaller == DeviceSpec => Backend!Spec
<1>1. DeviceInit => Backend!Init
  BY DEF DeviceInit
<1>2. [DeviceNext]_deviceVars => [Backend!Next]_(Backend!vars)
  <2> SUFFICES ASSUME DeviceNext PROVE [Backend!Next]_(Backend!vars)
    BY DEF deviceVars, connection, Backend!vars
  <2> USE DEF Backend!Next, Backend!CallSteps, connection, Backend!vars
  <2>1. CASE Finding \/ Advertised \/ OnItsOwn \/ Outsiders
    BY <2>1 DEF Finding, Advertised, OnItsOwn, Outsiders
  <2>2. CASE Calling \/ Connected \/ NotConnected
    BY <2>2 DEF Calling, Connected, NotConnected
  <2>3. CASE SessionCloses \/ SessionEnds
    BY <2>3 DEF SessionCloses, SessionEnds
  <2>4. CASE StopSeen \/ Cancelled
    BY <2>4 DEF StopSeen, Cancelled, DropsCall
  <2>5. CASE ConnectionMoves
    BY <2>5 DEF ConnectionMoves
  <2> QED
    BY <2>1, <2>2, <2>3, <2>4, <2>5 DEF DeviceNext, Working
<1> QED
  BY <1>1, <1>2, PTL DEF DeviceSpec, Backend!Spec

(* Its finds are searches with a scan of their own.                         *)
THEOREM StreamIsSearch == DeviceSpec => Search!Spec
<1>1. DeviceInit => Search!Init
  BY DEF DeviceInit
<1>2. [DeviceNext]_deviceVars => [Search!Next]_(Search!vars)
  <2> SUFFICES ASSUME DeviceNext PROVE [Search!Next]_(Search!vars)
    BY DEF deviceVars, searching, Search!vars, Search!scan
  <2> USE DEF Search!Next, searching, Search!vars, Search!scan,
              Search!Searches
  <2>1. CASE Finding
    BY <2>1 DEF Finding
  <2>2. CASE Advertised
    BY <2>2 DEF Advertised
  <2>3. CASE Calling \/ Connected \/ NotConnected \/ SessionCloses
             \/ SessionEnds \/ OnItsOwn \/ Outsiders \/ ConnectionMoves
    BY <2>3 DEF Calling, Connected, NotConnected, SessionCloses,
                SessionEnds, OnItsOwn, Outsiders, ConnectionMoves
  <2>4. CASE StopSeen \/ Cancelled
    BY <2>4 DEF StopSeen, Cancelled, DropsSearch
  <2> QED
    BY <2>1, <2>2, <2>3, <2>4 DEF DeviceNext, Working
<1> QED
  BY <1>1, <1>2, PTL DEF DeviceSpec, Search!Spec

---------------------------------------------------------------------------
(* What the stream leaves behind *)

(* Where search and call are, and that a connection has an owner: the call, *)
(* the session, or a disconnect in flight.                                  *)
DeviceInv ==
    /\ call \in [{me} -> Backend!Owning \cup {"idle", "lookup"}]
    /\ pending \in Nat
    /\ search = [s \in {me} |-> search[s]]
    /\ Places
    /\ Backend!NothingHeld

(* A failure is reported outside the session.                               *)
Failing ==
    /\ pc' = "emit"
    /\ event'.kind \in {"WaitingForDevice", "Retrying", "GaveUp"}

(* A failure of find, connect or open goes on to report itself.             *)
LEMMA FailureMoves ==
    ASSUME TypeOK, FindNone \/ FindErr \/ ConnectErr \/ CloseFailed
    PROVE  Failing
<1> USE DEF TypeOK
<1>1. CASE FindNone
  <2>1. Plain("WaitingForDevice") \in Events
        /\ Plain("WaitingForDevice").kind = "WaitingForDevice"
    BY PlainTyped DEF Kinds
  <2>2. CountFailure(Plain("WaitingForDevice"))
    BY <1>1 DEF FindNone
  <2> QED
    BY <2>1, <2>2, CountTyped DEF Failing
<1>2. ASSUME NEW try \in 0..Tries, NEW error \in Errors, Failure(try, error)
      PROVE  Failing
  BY <1>2, FailureTyped DEF Failing
<1> QED
  BY <1>1, <1>2, AttemptsAssumption
  DEF FindErr, ConnectErr, CloseFailed, Errors, Tries

(* The step of a search is a step to one of its places.                     *)
LEMMA SearchMoves ==
    ASSUME search = [s \in {me} |-> search[s]],
           Finding \/ Advertised \/ DropsSearch
    PROVE  search' = [s \in {me} |-> search'[s]]
BY DEF Finding, Advertised, DropsSearch, searching, Search!Begin, Search!ForgetFails,
   Search!EventsFail, Search!Progress, Search!StopFirst, Search!StartScan,
   Search!StartScanFails, Search!Started, Search!Take, Search!Described,
   Search!DescribeFails, Search!WindowEnds, Search!StopAfter,
   Search!Abandon, Search!Goto, Search!Advertise, Search!Broadcast

(* A search that has answered rests.                                        *)
LEMMA FindKeeps ==
    ASSUME TypeOK, DeviceInv, Finding \/ Advertised
    PROVE  DeviceInv'
<1> USE DEF DeviceInv, Places, connection, InSession, Closing, Backend!NothingHeld
<1>1. CASE Advertised
  BY <1>1, SearchMoves
  DEF Advertised, Search!Advertise, Search!Broadcast, vars, task, channel, consumer, device
<1>2. CASE Finding
  <2>1. UNCHANGED <<call, os, pending, runtime, excused>>
    BY <1>2 DEF Finding
  <2>2. search' = [s \in {me} |-> search'[s]]
    BY <1>2, SearchMoves
  <2>3. call[me] = "idle" /\ pc = "find"
    BY <1>2 DEF Finding, At, Backend!Owning, Backend!Guarded
  <2>4. CASE search'[me] \notin Search!Resting /\ UNCHANGED vars
    BY <2>1, <2>2, <2>3, <2>4 DEF vars, task
  <2>5. CASE search'[me] \in Search!Resting /\ FindOk
    BY <2>1, <2>2, <2>3, <2>5 DEF FindOk, Enter
  <2>6. CASE search'[me] \in Search!Resting /\ (FindNone \/ FindErr)
    <3>1. Failing
      BY <2>6, FailureMoves
    <3> QED
      BY <2>1, <2>2, <2>3, <2>6, <3>1 DEF Failing
  <2> QED
    BY <1>2, <2>4, <2>5, <2>6 DEF Finding, Answers, Search!Resting
<1> QED
  BY <1>1, <1>2

(* A disconnect that did not release the connection is excused, or another  *)
(* one is in flight.                                                        *)
LEMMA LostExcused ==
    ASSUME Backend!ReleaseLost \/ Backend!Disconnected,
           call'[me] = "idle", pending' \in Nat
    PROVE  os' # "idle" => pending' > 0 \/ excused'
<1>1. Backend!ReleaseLost => (os' # "idle" /\ Backend!Unowned' => excused')
  BY Zenon DEF Backend!ReleaseLost
<1>2. pending' = 0 => Backend!Unowned'
  BY DEF Backend!Unowned, Backend!Owning, Backend!Guarded
<1> QED
  BY <1>1, <1>2 DEF Backend!Disconnected

(* A call answers as it comes to rest or hands its device over.             *)
LEMMA ConnectKeeps ==
    ASSUME TypeOK, DeviceInv, Calling \/ Connected \/ NotConnected
    PROVE  DeviceInv'
<1> USE DEF DeviceInv, Places, searching, InSession, Closing,
            Backend!NothingHeld, Backend!Goto, Backend!Owning,
            Backend!Guarded
<1>1. UNCHANGED search /\ pc = "connect"
  BY DEF Calling, Connected, NotConnected, ConnectOk, ConnectErr, At
<1>2. CASE Calling
  BY <1>1, <1>2 DEF Calling, Backend!Call, Backend!Attempt, Backend!Up,
                    Backend!AttemptFails, vars, task
<1>3. CASE Connected
  BY <1>1, <1>3 DEF Connected, ConnectOk, Enter, Backend!Discovered
<1>4. CASE NotConnected
  <2>1. Failing
    BY <1>4, FailureMoves DEF NotConnected
  <2>2. pending' = pending /\ call' = [call EXCEPT ![me] = "idle"]
    BY <1>4 DEF NotConnected, Backend!LookupFails, Backend!Released
  <2>3. CASE Backend!LookupFails(me)
    BY <1>1, <2>1, <2>2, <2>3 DEF Backend!LookupFails, Failing
  <2>4. CASE Backend!Released(me)
    <3>1. os' # "idle" => pending > 0 \/ excused'
      BY <2>2, <2>4, LostExcused DEF Backend!Released
    <3> QED
      BY <1>1, <2>1, <2>2, <3>1 DEF Failing
  <2> QED
    BY <1>4, <2>3, <2>4 DEF NotConnected
<1> QED
  BY <1>2, <1>3, <1>4

(* The device is let go of with the session.                                *)
LEMMA SessionKeeps ==
    ASSUME TypeOK, DeviceInv, SessionCloses \/ SessionEnds
    PROVE  DeviceInv'
<1> USE DEF DeviceInv, Places, searching, InSession, Closing,
            Backend!NothingHeld, Backend!Goto, Backend!Owning,
            Backend!Guarded
<1>1. UNCHANGED search /\ search[me] \in Search!Resting
  BY DEF SessionCloses, SessionEnds, NextEnded, Disconnecting, CloseFailed,
         CloseIdle, CloseExit, Closed, At
<1>2. call' = [call EXCEPT ![me] = "idle"]
  BY DEF SessionCloses, SessionEnds, Backend!Disconnect,
         Backend!DropDisconnect, Backend!Forget
<1>3. pending' \in Nat
  BY DEF SessionCloses, SessionEnds, Backend!Disconnect,
         Backend!DropDisconnect, Backend!Forget
<1>4. os' # "idle" => pending' > 0 \/ excused'
  <2>1. CASE Backend!DropDisconnect(me)
    BY <2>1 DEF Backend!DropDisconnect
  <2>2. CASE Backend!Disconnect(me) \/ Backend!Forget(me)
    BY <1>2, <1>3, <2>2, LostExcused DEF Backend!Disconnect, Backend!Forget
  <2> QED
    BY <2>1, <2>2 DEF SessionCloses, SessionEnds
<1>5. ~(pc' \in {"open", "next", "closeIdle", "closeFailed", "closeExit"}
        \/ (pc' = "emit" /\ event'.kind \in {"Connected", "Item"}))
  <2>1. CASE CloseFailed
    <3>1. Failing
      BY <2>1, FailureMoves
    <3> QED
      BY <3>1 DEF Failing
  <2>2. CASE CloseIdle \/ CloseExit \/ NextEnded
    BY <2>2 DEF CloseIdle, CloseExit, NextEnded, Emit, Enter, Plain
  <2> QED
    BY <2>1, <2>2 DEF SessionCloses, SessionEnds, Disconnecting
<1> QED
  BY <1>1, <1>2, <1>3, <1>4, <1>5

(* A future dropped in the middle leaves its search or its call at rest,    *)
(* the connection with a disconnect on its way.                             *)
LEMMA DropKeeps ==
    ASSUME TypeOK, ExitInv, DeviceInv, StopSeen \/ Cancelled
    PROVE  DeviceInv'
<1> USE DEF DeviceInv, Places, InSession, Closing,
            Backend!NothingHeld, Backend!Goto, Backend!Owning,
            Backend!Guarded
<1>1. search' = [s \in {me} |-> search'[s]]
      /\ search'[me] \in Search!Resting
  BY SearchMoves
  DEF StopSeen, Cancelled, DropsSearch, Search!Abandon, Search!Goto,
      Search!Resting, searching
<1>2. ASSUME DropsCall
      PROVE  /\ call' \in [{me} -> Backend!Owning \cup {"idle", "lookup"}]
             /\ pending' \in Nat
             /\ call'[me] = IF pc = "connect" THEN "idle" ELSE call[me]
             /\ Backend!NothingHeld'
  <2>1. CASE UNCHANGED connection
    BY <1>2, <2>1 DEF DropsCall, connection, Backend!DropCall
  <2>2. CASE Backend!DropCall(me) /\ pc = "connect"
    <3>1. /\ call' = [call EXCEPT ![me] = "idle"]
          /\ os' = os
          /\ pending' \in Nat
      BY <2>2 DEF Backend!DropCall
    <3>2. CASE call[me] = "release" \/ (call[me] \in Backend!Guarded /\ runtime)
      BY <2>2, <3>1, <3>2 DEF Backend!DropCall
    <3>3. CASE call[me] \in Backend!Guarded /\ ~runtime
      BY <2>2, <3>1, <3>3, LostExcused DEF Backend!DropCall
    <3>4. CASE call[me] = "lookup"
      BY <2>2, <3>1, <3>4 DEF Backend!DropCall
    <3> QED
      BY <2>2, <3>1, <3>2, <3>3, <3>4 DEF Backend!DropCall
  <2> QED
    BY <1>2, <2>1, <2>2 DEF DropsCall
<1>3. CASE StopSeen
  <2>1. IF InSession THEN pc' = "closeExit" ELSE pc' = "done"
    BY <1>3 DEF StopSeen, SeeStop, Leave, Close
  <2>2. DropsCall /\ ~Closing
    BY <1>3 DEF StopSeen, SeeStop, ExitInv
  <2> QED
    BY <1>1, <1>2, <2>1, <2>2
<1>4. CASE Cancelled
  <2>1. pc' = "done"
    BY <1>4 DEF Cancelled, Cancel
  <2>2. CASE ~Closing /\ ~InSession /\ DropsCall
    BY <1>1, <1>2, <2>1, <2>2
  <2>3. CASE (Closing /\ Backend!DropDisconnect(me))
             \/ (~Closing /\ InSession /\ Backend!Forget(me))
    <3>1. call' = [call EXCEPT ![me] = "idle"] /\ pending' \in Nat
      BY <2>3 DEF Backend!DropDisconnect, Backend!Forget
    <3>2. os' # "idle" => pending' > 0 \/ excused'
      BY <2>3, <3>1, LostExcused DEF Backend!DropDisconnect, Backend!Forget
    <3> QED
      BY <1>1, <2>1, <3>1, <3>2
  <2> QED
    BY <1>4, <2>2, <2>3 DEF Cancelled
<1> QED
  BY <1>3, <1>4

(* What happens without the adapter's calls.                                *)
LEMMA RestKeeps ==
    ASSUME TypeOK, DeviceInv, OnItsOwn \/ Outsiders \/ ConnectionMoves
    PROVE  DeviceInv'
<1> USE DEF DeviceInv, Places, InSession, Closing,
            Backend!NothingHeld, Backend!Goto, Backend!Owning,
            Backend!Guarded, connection, searching
<1>1. CASE OnItsOwn
  <2>1. UNCHANGED <<call, os, pending, excused, search>>
    BY <1>1 DEF OnItsOwn
  <2>2. InSession' \/ Closing' <=> InSession \/ Closing
    <3>1. CASE NoStop \/ Park \/ Wake
      BY <3>1 DEF NoStop, Park, Wake
    <3>2. CASE OpenOk \/ OpenErr \/ NextItem \/ NextIdle
      BY <3>2 DEF OpenOk, OpenErr, NextItem, NextIdle, At, Emit, Enter,
                  Plain, Close
    <3>3. CASE Send
      BY <3>3 DEF Send, At, AfterSend, Enter, TypeOK, Events, Kinds
    <3>4. CASE SendClosed
      BY <3>4 DEF SendClosed, At, Leave, Close
    <3>5. CASE Slept
      BY <3>5 DEF Slept, At, Enter
    <3> QED
      BY <1>1, <3>1, <3>2, <3>3, <3>4, <3>5 DEF OnItsOwn
  <2>3. pc \in {"find", "connect"} => pc' = pc
    BY <1>1 DEF OnItsOwn, NoStop, Park, Wake, OpenOk, OpenErr, NextItem,
                NextIdle, Send, SendClosed, Slept, At
  <2> QED
    BY <2>1, <2>2, <2>3
<1>2. CASE Outsiders
  BY <1>2 DEF Outsiders, Outside, Recv, Stop, Abort, CloseReceiver,
              LinkDrops, ItemArrives, task
<1>3. CASE ConnectionMoves
  <2>1. UNCHANGED <<call, search, pc, event>> /\ pending' \in Nat
    BY <1>3 DEF ConnectionMoves, task, Backend!Detached, Backend!OsConnects,
                Backend!OsLoses
  <2>2. Backend!NothingHeld'
    <3>1. CASE call[me] \in Backend!Owning
      BY <2>1, <3>1
    <3>2. CASE call[me] \notin Backend!Owning /\ Backend!Detached
      <4>1. Backend!ReleaseLost => (os' # "idle" /\ Backend!Unowned' => excused')
        BY Zenon DEF Backend!ReleaseLost
      <4>2. pending' = 0 => Backend!Unowned'
        BY <2>1, <3>2 DEF Backend!Unowned
      <4> QED
        BY <2>1, <3>2, <4>1, <4>2 DEF Backend!Detached, Backend!Disconnected
    <3>3. CASE Backend!OsConnects \/ Backend!OsLoses
      BY <2>1, <3>3 DEF Backend!OsConnects, Backend!OsLoses
    <3> QED
      BY <1>3, <2>1, <3>1, <3>2, <3>3 DEF ConnectionMoves
  <2> QED
    BY <2>1, <2>2
<1> QED
  BY <1>1, <1>2, <1>3

(* The invariant that relates the parts holds of every reachable state.     *)
LEMMA DeviceInvHolds == DeviceSpec => []DeviceInv
<1>1. DeviceInit => DeviceInv
  BY DEF DeviceInit, Init, Backend!Init, Search!Init, Search!Searches,
         DeviceInv, Places, InSession, Closing, Backend!NothingHeld,
         Backend!Owning, Backend!Guarded, Search!Resting
<1>2. IInv /\ DeviceInv /\ [DeviceNext]_deviceVars => DeviceInv'
  <2> SUFFICES ASSUME TypeOK, ExitInv, DeviceInv, [DeviceNext]_deviceVars
               PROVE  DeviceInv'
    BY DEF IInv
  <2>1. CASE UNCHANGED deviceVars
    BY <2>1 DEF deviceVars, connection, searching, vars, task, DeviceInv,
                Places, InSession, Closing, Backend!NothingHeld
  <2> QED
    BY <2>1, FindKeeps, ConnectKeeps, SessionKeeps, DropKeeps, RestKeeps
    DEF DeviceNext, Working
<1> QED
  BY <1>1, <1>2, StreamIsReconnect, IInvHolds, PTL DEF DeviceSpec

(* A reconnecting stream that was stopped, gave up or lost its consumer     *)
(* leaves no connection behind but one a disconnect is on its way to, or    *)
(* has failed to close.                                                     *)
THEOREM LeavesNothing == DeviceSpec => []NothingLeftBehind
<1>1. DeviceInv => NothingLeftBehind
  BY DEF DeviceInv, Places, NothingLeftBehind, InSession, Closing,
         Backend!NothingHeld, Backend!Owning, Backend!Guarded
<1> QED
  BY <1>1, DeviceInvHolds, PTL

---------------------------------------------------------------------------
(* The stream's scan *)

(* A search that begins with no scan running leaves none behind unless it   *)
(* is dropped, and only a stream that ends drops it. That a search leaves   *)
(* none is not enough: the next one may fail before its first stop.         *)
ScanInv ==
    (/\ alone
     /\ pc # "done"
     /\ search[me] \in Search!Resting \cup {"stopping", "starting"})
        => ~scanning

(* Each step keeps what holds of the scan and the search.                   *)
LEMMA ScanStep ==
    ASSUME TypeOK, ExitInv, DeviceInv, ScanInv, [DeviceNext]_deviceVars
    PROVE  ScanInv'
<1> DEFINE Quiet == Search!Resting \cup {"stopping", "starting"}
<1>1. CASE Finding
  <2>1. pc # "done" /\ search = [s \in {me} |-> search[s]]
    BY <1>1 DEF Finding, At, DeviceInv
  <2>2. CASE Search!Begin(me) \/ Search!ForgetFails(me) \/ Search!EventsFail(me)
    <3>1. search[me] \in Quiet /\ UNCHANGED <<scanning, alone>>
      BY <2>2 DEF Search!Begin, Search!ForgetFails, Search!EventsFail, Search!Goto, Search!scan
    <3> QED
      BY <2>1, <3>1 DEF ScanInv
  <2>3. CASE Search!StopFirst(me) \/ Search!StopAfter(me)
    BY <2>3 DEF ScanInv, Search!StopFirst, Search!StopAfter, Search!StopScan
  <2>4. CASE Search!StartScan(me) \/ Search!StartScanFails(me)
    BY <2>1, <2>4
    DEF ScanInv, Search!StartScan, Search!StartScanFails, Search!Goto, Search!Resting,
        Search!scan
  <2>5. CASE Search!Started(me) \/ Search!Take(me) \/ Search!DescribeFails(me)
             \/ Search!Described(me) \/ Search!WindowEnds(me)
    <3>1. search'[me] \in {"collect", "describe", "closing"}
      BY <2>1, <2>5
      DEF Search!Started, Search!Take, Search!DescribeFails, Search!Described,
          Search!WindowEnds, Search!Finish, Search!Goto
    <3> QED
      BY <3>1 DEF ScanInv, Search!Resting
  <2> QED
    BY <1>1, <2>2, <2>3, <2>4, <2>5 DEF Finding, Search!Progress
<1>2. CASE StopSeen \/ Cancelled
  <2>1. CASE UNCHANGED searching
    <3>1. pc # "done"
      BY <1>2 DEF StopSeen, SeeStop, Cancelled, Cancel, ExitInv
    <3> QED
      BY <2>1, <3>1 DEF ScanInv, searching
  <2>2. CASE pc = "find"
    BY <1>2, <2>2 DEF ScanInv, StopSeen, SeeStop, Leave, InSession, Cancelled, Cancel
  <2> QED
    BY <1>2, <2>1, <2>2 DEF StopSeen, Cancelled, DropsSearch
<1>3. CASE Advertised \/ Outsiders \/ ConnectionMoves \/ UNCHANGED deviceVars
  BY <1>3
  DEF ScanInv, Advertised, Search!Advertise, Search!Broadcast, Search!scan, Outsiders,
      Outside, Recv, Stop, Abort, CloseReceiver, LinkDrops, ItemArrives, ConnectionMoves,
      deviceVars, searching, vars, task
<1>4. CASE Calling \/ Connected \/ NotConnected \/ SessionCloses \/ SessionEnds \/ OnItsOwn
  <2>1. UNCHANGED searching
    BY <1>4 DEF Calling, Connected, NotConnected, SessionCloses, SessionEnds, OnItsOwn
  <2>2. pc # "done"
    BY <1>4
    DEF Calling, Connected, NotConnected, SessionCloses, SessionEnds, OnItsOwn, ConnectOk,
        ConnectErr, Disconnecting, CloseFailed, CloseIdle, CloseExit, Closed, NextEnded,
        NoStop, Park, Wake, OpenOk, OpenErr, NextItem, NextIdle, Send, SendClosed, Slept, At,
        ExitInv
  <2> QED
    BY <2>1, <2>2 DEF ScanInv, searching
<1> QED
  BY <1>1, <1>2, <1>3, <1>4 DEF DeviceNext, Working

(* As long as every stop of the scan succeeds, the stream's scan never runs *)
(* beside a connection attempt, a session or a delay: a stop or a drop in   *)
(* the middle of a search ends the stream.                                  *)
THEOREM ScansAlone == DeviceSpec => []NoScanWhileConnecting
<1>1. DeviceInit => ScanInv
  BY DEF DeviceInit, Search!Init, ScanInv
<1>2. IInv /\ DeviceInv /\ ScanInv /\ [DeviceNext]_deviceVars => ScanInv'
  BY ScanStep DEF IInv
<1>3. DeviceInv /\ ScanInv => NoScanWhileConnecting
  BY DEF DeviceInv, Places, ScanInv, NoScanWhileConnecting
<1> QED
  BY <1>1, <1>2, <1>3, StreamIsReconnect, IInvHolds, DeviceInvHolds, PTL DEF DeviceSpec

---------------------------------------------------------------------------
(* Agreement of the parts *)

SearchProofs == INSTANCE DiscoveryProofs WITH
    pc <- search,
    events <- heard,
    Peripherals <- {Meter},
    Fluke <- {Meter},
    Owned <- {me},
    Passive <- {},
    Accept <- [s \in {me} |-> {Meter}],
    EventBuffer <- 1

BackendProofs == INSTANCE BackendConnectProofs WITH
    pc <- call, Callers <- {me}

(* What is proved of Discovery holds of the stream's search.                *)
LEMMA SearchTyped == Search!Spec => []Search!TypeOK
<1>1. Search!TypeOK <=> SearchProofs!TypeOK
  BY DEF Search!TypeOK, SearchProofs!TypeOK, Search!Searches,
         SearchProofs!Searches, Search!Subscribed, SearchProofs!Subscribed,
         Search!Resting, SearchProofs!Resting, Search!CentralEvents,
         SearchProofs!CentralEvents
<1>2. Search!TypeOK' <=> SearchProofs!TypeOK'
  BY DEF Search!TypeOK, SearchProofs!TypeOK, Search!Searches,
         SearchProofs!Searches, Search!Subscribed, SearchProofs!Subscribed,
         Search!Resting, SearchProofs!Resting, Search!CentralEvents,
         SearchProofs!CentralEvents
<1>3. Search!Init <=> SearchProofs!Init
  BY DEF Search!Init, SearchProofs!Init, Search!Searches,
         SearchProofs!Searches
<1>4. Search!Init => Search!TypeOK
  BY <1>1, <1>3, SearchProofs!InitTyped
<1>5. [Search!Next]_(Search!vars) => [SearchProofs!Next]_(SearchProofs!vars)
  <2> USE DEF Search!Goto, SearchProofs!Goto, Search!StopScan,
              SearchProofs!StopScan, Search!Opening, SearchProofs!Opening,
              Search!Finish, SearchProofs!Finish, Search!NoEvents,
              SearchProofs!NoEvents, Search!Stops, SearchProofs!Stops,
              Search!Searches, SearchProofs!Searches, Search!Resting,
              SearchProofs!Resting, Search!scan, SearchProofs!scan
  <2>1. ASSUME NEW s
       PROVE  /\ Search!Begin(s) => SearchProofs!Begin(s)
              /\ Search!ForgetFails(s) => SearchProofs!ForgetFails(s)
              /\ Search!EventsFail(s) => SearchProofs!EventsFail(s)
    BY Zenon DEF Search!Begin, SearchProofs!Begin, Search!ForgetFails,
                 SearchProofs!ForgetFails, Search!EventsFail,
                 SearchProofs!EventsFail
  <2>2. ASSUME NEW s
       PROVE  /\ Search!StopFirst(s) => SearchProofs!StopFirst(s)
              /\ Search!StartScan(s) => SearchProofs!StartScan(s)
              /\ Search!StartScanFails(s) => SearchProofs!StartScanFails(s)
              /\ Search!Started(s) => SearchProofs!Started(s)
    BY Zenon DEF Search!StopFirst, SearchProofs!StopFirst, Search!StartScan,
                 SearchProofs!StartScan, Search!StartScanFails,
                 SearchProofs!StartScanFails, Search!Started,
                 SearchProofs!Started
  <2>3. ASSUME NEW s
       PROVE  Search!Take(s) => SearchProofs!Take(s)
    BY Zenon DEF Search!Take, SearchProofs!Take, Search!Range,
                 SearchProofs!Range
  <2>4. ASSUME NEW s
       PROVE  Search!Described(s) => SearchProofs!Described(s)
    BY Zenon DEF Search!Described, SearchProofs!Described
  <2>5. ASSUME NEW s
       PROVE  /\ Search!DescribeFails(s) => SearchProofs!DescribeFails(s)
              /\ Search!WindowEnds(s) => SearchProofs!WindowEnds(s)
              /\ Search!StopAfter(s) => SearchProofs!StopAfter(s)
    BY Zenon DEF Search!DescribeFails, SearchProofs!DescribeFails,
                 Search!WindowEnds, SearchProofs!WindowEnds,
                 Search!StopAfter, SearchProofs!StopAfter
  <2>6. ASSUME NEW s
       PROVE  Search!Abandon(s) => SearchProofs!Abandon(s)
    BY Zenon DEF Search!Abandon, SearchProofs!Abandon, Search!Subscribed,
                 SearchProofs!Subscribed
  <2>7. ASSUME NEW told
       PROVE  Search!Broadcast(told) => SearchProofs!Broadcast(told)
    BY Zenon
    DEF Search!Broadcast, SearchProofs!Broadcast, Search!Range,
        SearchProofs!Range, Search!Heard, SearchProofs!Heard, Search!Lagged,
        SearchProofs!Lagged, Search!Subscribed, SearchProofs!Subscribed,
        Search!Listening, SearchProofs!Listening
  <2> QED
    BY <2>1, <2>2, <2>3, <2>4, <2>5, <2>6, <2>7
    DEF Search!Next, SearchProofs!Next, Search!Progress,
        SearchProofs!Progress, Search!HostToggles, SearchProofs!HostToggles,
        Search!Advertise, SearchProofs!Advertise, Search!OtherEvent,
        SearchProofs!OtherEvent, Search!vars, SearchProofs!vars
<1>6. SearchProofs!TypeOK /\ [SearchProofs!Next]_(SearchProofs!vars)
        => SearchProofs!TypeOK'
  BY SearchProofs!TypeStep
<1>7. Search!TypeOK /\ [Search!Next]_(Search!vars) => Search!TypeOK'
  BY <1>1, <1>2, <1>5, <1>6
<1> QED
  BY <1>4, <1>7, PTL DEF Search!Spec

(* What is proved of BackendConnect holds of the stream's calls.            *)
LEMMA BackendTyped == Backend!Spec => []Backend!TypeOK
<1>1. Backend!TypeOK <=> BackendProofs!TypeOK
  BY DEF Backend!TypeOK, BackendProofs!TypeOK, Backend!Guarded,
         BackendProofs!Guarded, Backend!Owning, BackendProofs!Owning
<1>2. Backend!TypeOK' <=> BackendProofs!TypeOK'
  BY DEF Backend!TypeOK, BackendProofs!TypeOK, Backend!Guarded,
         BackendProofs!Guarded, Backend!Owning, BackendProofs!Owning
<1>3. Backend!Init => Backend!TypeOK
  <2>1. Backend!Init => pending \in 0..MaxPending
    BY PendingAssumption DEF Backend!Init
  <2> QED
    BY <2>1 DEF Backend!Init, Backend!TypeOK
<1>4. [Backend!Next]_(Backend!vars) => [BackendProofs!Next]_(BackendProofs!vars)
  BY Zenon
  DEF Backend!Next, BackendProofs!Next, Backend!CallSteps,
      BackendProofs!CallSteps, Backend!Call, BackendProofs!Call,
      Backend!LookupFails, BackendProofs!LookupFails, Backend!Attempt,
      BackendProofs!Attempt, Backend!Up, BackendProofs!Up,
      Backend!Discovered, BackendProofs!Discovered, Backend!AttemptFails,
      BackendProofs!AttemptFails, Backend!Released, BackendProofs!Released,
      Backend!DropCall, BackendProofs!DropCall, Backend!Disconnect,
      BackendProofs!Disconnect, Backend!DropDisconnect,
      BackendProofs!DropDisconnect, Backend!Forget, BackendProofs!Forget,
      Backend!Detached, BackendProofs!Detached, Backend!Shutdown,
      BackendProofs!Shutdown, Backend!OsConnects, BackendProofs!OsConnects,
      Backend!OsLoses, BackendProofs!OsLoses, Backend!Disconnected,
      BackendProofs!Disconnected, Backend!ReleaseLost,
      BackendProofs!ReleaseLost, Backend!Unowned, BackendProofs!Unowned,
      Backend!Goto, BackendProofs!Goto, Backend!Guarded,
      BackendProofs!Guarded, Backend!Owning, BackendProofs!Owning,
      Backend!vars, BackendProofs!vars
<1>5. BackendProofs!TypeOK /\ [BackendProofs!Next]_(BackendProofs!vars)
        => BackendProofs!TypeOK'
  BY FS_Singleton, PendingAssumption, BackendProofs!TypeStep
  DEF IsFiniteSet, BackendProofs!IsFiniteSet
<1>6. Backend!TypeOK /\ [Backend!Next]_(Backend!vars) => Backend!TypeOK'
  BY <1>1, <1>2, <1>4, <1>5
<1> QED
  BY <1>3, <1>6, PTL DEF Backend!Spec

(* A device that has been heard since its search began was not connected,   *)
(* and neither is one the stream has found and not yet connected to.        *)
ReachInv ==
    /\ link = "up" => os = "up"
    /\ target = "fresh" => link # "up"
    /\ search[me] # "describe" => current[me] = {}
    /\ (/\ search[me] \notin Search!Resting
        /\ heard[me] # << >> \/ current[me] # {} \/ found[me] # << >>)
           => link # "up"

(* Each step keeps that a device within reach is not taken for connected.   *)
LEMMA ReachStep ==
    ASSUME TypeOK, TargetInv, DeviceInv, Search!TypeOK, ReachInv, [DeviceNext]_deviceVars
    PROVE  ReachInv'
<1> USE DEF ReachInv
<1>1. CASE Finding
  <2>1. /\ UNCHANGED <<os, link>>
        /\ target' = target \/ (search'[me] = "idle" /\ Search!Returned(me) # {})
    BY <1>1
    DEF Finding, connection, Answers, vars, task, device, FindOk, FindNone, FindErr
  <2>2. /\ search'[me] # "describe" => current'[me] = {}
        /\ \/ heard'[me] = << >> /\ current'[me] = {} /\ found'[me] = << >>
           \/ search'[me] \in Search!Resting
           \/ /\ search[me] \notin Search!Resting
              /\ heard'[me] # << >> => heard[me] # << >>
              /\ current'[me] # {} => heard[me] # << >> \/ current[me] # {}
              /\ found'[me] # << >> => found[me] # << >> \/ current[me] # {}
    <3>1. /\ DOMAIN search = {me} /\ DOMAIN heard = {me} /\ DOMAIN current = {me}
          /\ DOMAIN found = {me} /\ heard[me] \in Seq(Search!CentralEvents)
          /\ me \in Search!Searches
      BY DEF Search!TypeOK, Search!Searches
    <3>2. CASE Search!Begin(me)
      BY <3>1, <3>2
      DEF Search!Begin, Search!Goto, Search!NoEvents, Search!Opening, Search!Resting,
          Search!TypeOK
    <3>3. CASE Search!ForgetFails(me) \/ Search!EventsFail(me) \/ Search!StartScanFails(me)
      BY <3>1, <3>3
      DEF Search!ForgetFails, Search!EventsFail, Search!StartScanFails, Search!Goto,
          Search!Resting, Search!TypeOK
    <3>4. CASE Search!StopFirst(me) \/ Search!Started(me) \/ Search!StopAfter(me)
      BY <3>1, <3>4
      DEF Search!StopFirst, Search!Started, Search!StopAfter, Search!Goto, Search!Resting,
          Search!TypeOK
    <3>5. CASE Search!StartScan(me) \/ Search!WindowEnds(me)
      BY <3>1, <3>5
      DEF Search!StartScan, Search!WindowEnds, Search!Finish, Search!NoEvents, Search!Goto,
          Search!Resting, Search!TypeOK
    <3>6. CASE Search!Take(me)
      <4>1. /\ search[me] = "collect" /\ search'[me] \in {"collect", "describe"}
            /\ heard[me] # << >> /\ heard'[me] = Tail(heard[me]) /\ found' = found
            /\ search'[me] = "collect" => current'[me] = {}
        BY <3>1, <3>6 DEF Search!Take, Search!Goto, Search!TypeOK
      <4> QED
        BY <4>1 DEF Search!Resting
    <3>7. CASE Search!DescribeFails(me)
      BY <3>1, <3>7 DEF Search!DescribeFails, Search!Goto, Search!Resting, Search!TypeOK
    <3>8. CASE Search!Described(me)
      BY <3>1, <3>8
      DEF Search!Described, Search!Finish, Search!NoEvents, Search!Goto, Search!Resting,
          Search!TypeOK
    <3> QED
      BY <1>1, <3>2, <3>3, <3>4, <3>5, <3>6, <3>7, <3>8 DEF Finding, Search!Progress
  <2>3. search'[me] = "idle" /\ Search!Returned(me) # {}
          => search[me] \notin Search!Resting /\ found[me] # << >>
    <3> SUFFICES ASSUME search'[me] = "idle", Search!Returned(me) # {}
                 PROVE  search[me] \notin Search!Resting /\ found[me] # << >>
      OBVIOUS
    <3>1. found[me] # << >>
      BY DEF Search!Returned, Search!Range
    <3>2. search[me] = "closing"
      BY <1>1
      DEF Finding, Search!Progress, Search!Begin, Search!ForgetFails, Search!EventsFail,
          Search!StopFirst, Search!StartScan, Search!StartScanFails, Search!Started,
          Search!Take, Search!Described, Search!DescribeFails, Search!WindowEnds,
          Search!StopAfter, Search!Goto, Search!Opening, Search!Finish, Search!TypeOK,
          Search!Searches
    <3> QED
      BY <3>1, <3>2 DEF Search!Resting
  <2> QED
    BY <2>1, <2>2, <2>3
<1>2. CASE Advertised
  <2>1. /\ os # "up" /\ UNCHANGED <<os, link, target, search, current>>
    BY <1>2 DEF Advertised, Search!Advertise, Search!Broadcast, vars, task, device, connection
  <2> QED
    BY <2>1
<1>3. CASE Calling \/ NotConnected
  <2>1. pc = "connect" /\ link' = link
    BY <1>3 DEF Calling, NotConnected, ConnectErr, At, vars, device
  <2>2. link # "up"
    BY <2>1 DEF TargetInv
  <2> QED
    BY <1>3, <2>1, <2>2 DEF Calling, NotConnected, searching
<1>4. CASE Connected
  BY <1>4 DEF Connected, ConnectOk, At, Backend!Discovered, searching, DeviceInv, Places
<1>5. CASE SessionCloses \/ SessionEnds \/ ConnectionMoves
  <2>1. /\ UNCHANGED searching
        /\ link' = "up" => link = "up" /\ (os = "up" => os' = "up")
        /\ target' \in {target, "none"}
    <3>1. UNCHANGED searching
      BY <1>5 DEF SessionCloses, SessionEnds, ConnectionMoves
    <3>2. target' \in {target, "none"}
      BY <1>5
      DEF SessionCloses, SessionEnds, ConnectionMoves, Disconnecting, CloseFailed, CloseIdle,
          CloseExit, NextEnded, DropTarget, task
    <3>3. CASE SessionEnds
      BY <3>1, <3>2, <3>3 DEF SessionEnds, NextEnded, Backend!Forget, device
    <3>4. CASE SessionCloses \/ ConnectionMoves
      <4>1. LinkFollows
        BY <3>4 DEF SessionCloses, ConnectionMoves
      <4>2. os' \in {os, "idle"} \/ os # "up"
        BY <3>4
        DEF SessionCloses, ConnectionMoves, Backend!Disconnect, Backend!DropDisconnect,
            Backend!Detached, Backend!Disconnected, Backend!OsConnects, Backend!OsLoses
      <4> QED
        BY <3>1, <3>2, <4>1, <4>2 DEF LinkFollows
    <3> QED
      BY <1>5, <3>3, <3>4
  <2> QED
    BY <2>1 DEF searching
<1>6. CASE OnItsOwn \/ Outsiders \/ UNCHANGED deviceVars
  <2>1. UNCHANGED <<link, target, os, search, heard, current, found>>
    BY <1>6
    DEF OnItsOwn, Outsiders, deviceVars, connection, searching, vars, task, device, Outside,
        Recv, Stop, Abort, CloseReceiver, LinkDrops, ItemArrives, NoStop, Park, Wake, OpenOk,
        OpenErr, Close, NextItem, NextIdle, Send, SendClosed, Leave, Slept
  <2> QED
    BY <2>1
<1>7. CASE StopSeen \/ Cancelled
  <2>1. UNCHANGED <<link, target>>
    BY <1>7 DEF StopSeen, SeeStop, Leave, Close, Cancelled, Cancel, device
  <2>2. link = "up" => os' = os
    BY <1>7
    DEF StopSeen, Cancelled, DropsCall, Backend!DropCall, Backend!DropDisconnect,
        Backend!Forget, connection
  <2>3. \/ UNCHANGED searching
        \/ search'[me] \in Search!Resting /\ current'[me] = {}
    BY <1>7
    DEF StopSeen, Cancelled, DropsSearch, Search!Abandon, Search!Goto, Search!Resting,
        Search!TypeOK, Search!Searches
  <2> QED
    BY <2>1, <2>2, <2>3 DEF searching, Search!Resting
<1> QED
  BY <1>1, <1>2, <1>3, <1>4, <1>5, <1>6, <1>7 DEF DeviceNext, Working

(* Supervisor, search and calls agree at every moment, whatever is dropped  *)
(* in the middle and whatever disconnect arrives late: for every policy,    *)
(* channel and bound, and for sources that end their stream early too.      *)
THEOREM PartsAgree == DeviceSpec => []Agreement
<1>1. DeviceInit => ReachInv
  BY DEF DeviceInit, Init, Search!Init, Search!Searches, ReachInv, Search!Resting
<1>2. IInv /\ DeviceInv /\ Search!TypeOK /\ ReachInv /\ [DeviceNext]_deviceVars => ReachInv'
  BY ReachStep DEF IInv
<1>3. DeviceInv /\ Backend!TypeOK /\ Search!TypeOK /\ ReachInv => Agreement
  BY DEF DeviceInv, ReachInv, Agreement
<1> QED
  BY <1>1, <1>2, <1>3, StreamIsReconnect, StreamIsSearch, StreamIsCaller, SearchTyped,
     BackendTyped, IInvHolds, DeviceInvHolds, PTL DEF DeviceSpec
=============================================================================
