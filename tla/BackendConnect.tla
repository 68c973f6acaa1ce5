-------------------------- MODULE BackendConnect --------------------------
(***************************************************************************)
(* `Adapter::connect_with_timeout` (src/src/backend/mod.rs), its           *)
(* ConnectGuard, and the connection the operating system holds for the     *)
(* peripheral. Several callers may connect to it through clones of the     *)
(* adapter, and each may drop its call at any await.                       *)
(*                                                                         *)
(*   idle       not calling; nothing is owed                               *)
(*   lookup     adapter.peripheral, before the guard exists                *)
(*   connect    peripheral.connect_with_timeout, inside the timeout        *)
(*   discover   peripheral.discover_services, inside the timeout           *)
(*   release    the attempt failed: guard disarmed, disconnecting          *)
(*   connected  the device was handed to the caller                        *)
(***************************************************************************)
EXTENDS Integers, FiniteSets

CONSTANTS
    Callers,
    MaxPending     \* bound on the disconnects in flight outside the calls

ASSUME CallersAssumption == IsFiniteSet(Callers)
ASSUME PendingAssumption == MaxPending \in Nat

VARIABLES
    pc,        \* of each caller
    os,        \* the peripheral's connection: idle, connecting or up
    pending,   \* disconnects nobody waits for: spawned, or sent and abandoned
    runtime,   \* a Tokio runtime is there to spawn on
    excused    \* nobody's since a disconnect failed or could not be spawned,
               \* or since its user dropped it without one

vars == <<pc, os, pending, runtime, excused>>

Guarded == {"connect", "discover"}
Owning == Guarded \cup {"release", "connected"}

Init ==
    /\ pc = [c \in Callers |-> "idle"]
    /\ os = "idle"
    /\ pending = 0
    /\ runtime = TRUE
    /\ excused = FALSE

(* Nobody is making, releasing or using the connection.                     *)
Unowned == pending = 0 /\ \A c \in Callers : pc[c] \notin Owning

(* A disconnect that should have released the connection did not, or its    *)
(* last user let it go without one.                                         *)
ReleaseLost == excused' = (os' # "idle" /\ (excused \/ Unowned'))

Goto(c, from, to) == pc[c] = from /\ pc' = [pc EXCEPT ![c] = to]

Call(c) ==
    /\ runtime
    /\ Goto(c, "idle", "lookup")
    /\ UNCHANGED <<os, pending, runtime, excused>>

LookupFails(c) ==
    /\ Goto(c, "lookup", "idle")
    /\ UNCHANGED <<os, pending, runtime, excused>>

Attempt(c) ==
    /\ runtime
    /\ Goto(c, "lookup", "connect")
    /\ os' = IF os = "idle" THEN "connecting" ELSE os
    /\ excused' = FALSE
    /\ UNCHANGED <<pending, runtime>>

Up(c) ==
    /\ Goto(c, "connect", "discover")
    /\ os = "up"
    /\ UNCHANGED <<os, pending, runtime, excused>>

Discovered(c) ==
    /\ Goto(c, "discover", "connected")
    /\ os = "up"
    /\ UNCHANGED <<os, pending, runtime, excused>>

\* Mutant: a failed attempt is left to the guard, which is already disarmed.
AttemptFailsUnreleased(c) ==
    /\ Goto(c, "connect", "idle") \/ Goto(c, "discover", "idle")
    /\ UNCHANGED <<os, pending, runtime, excused>>

\* Mutant: discovery is outside the timeout.
AttemptFailsUntimed(c) ==
    /\ Goto(c, "connect", "release")
    /\ UNCHANGED <<os, pending, runtime, excused>>

(* An error of either call, or the timeout around both.                     *)
AttemptFails(c) ==
    /\ Goto(c, "connect", "release") \/ Goto(c, "discover", "release")
    /\ UNCHANGED <<os, pending, runtime, excused>>

(* A disconnect closes the connection or cancels one still being made; it   *)
(* may also fail.                                                           *)
Disconnected ==
    \/ os' = "idle" /\ excused' = FALSE
    \/ os' = os /\ ReleaseLost

Released(c) ==
    /\ Goto(c, "release", "idle")
    /\ UNCHANGED <<pending, runtime>>
    /\ Disconnected

\* Mutant: the call has no guard.
DropCallUnguarded(c) ==
    /\ \E from \in {"lookup", "release"} \cup Guarded : Goto(c, from, "idle")
    /\ UNCHANGED <<os, pending, runtime, excused>>

(* The call's future is dropped at an await. The guard spawns a disconnect  *)
(* if it is armed; one already sent by the call itself stays in flight.     *)
DropCall(c) ==
    /\ \E from \in {"lookup", "release"} \cup Guarded : Goto(c, from, "idle")
    /\ LET sent == pc[c] = "release" \/ (pc[c] \in Guarded /\ runtime)
       IN  /\ sent => pending < MaxPending
           /\ pending' = IF sent THEN pending + 1 ELSE pending
           /\ os' = os
           /\ IF pc[c] \in Guarded /\ ~runtime THEN ReleaseLost
                                               ELSE UNCHANGED excused
    /\ UNCHANGED runtime

\* Mutant: a disconnect is waited for twice.
DetachedTwice ==
    /\ pending > 0
    /\ pending' = pending - 2
    /\ UNCHANGED <<pc, runtime>>
    /\ Disconnected

Detached ==
    /\ pending > 0
    /\ pending' = pending - 1
    /\ UNCHANGED <<pc, runtime>>
    /\ Disconnected

Disconnect(c) ==
    /\ Goto(c, "connected", "idle")
    /\ UNCHANGED <<pending, runtime>>
    /\ Disconnected

(* The user gives up on the disconnect it sent, as disconnect_quietly does  *)
(* after a while.                                                           *)
DropDisconnect(c) ==
    /\ Goto(c, "connected", "idle")
    /\ pending < MaxPending
    /\ pending' = pending + 1
    /\ UNCHANGED <<os, runtime, excused>>

(* The device is dropped without disconnecting: nothing is sent.            *)
Forget(c) ==
    /\ Goto(c, "connected", "idle")
    /\ UNCHANGED <<os, pending, runtime>>
    /\ ReleaseLost

(* The runtime shuts down: what was spawned on it is not run.               *)
Shutdown ==
    /\ runtime
    /\ runtime' = FALSE
    /\ pending' = 0
    /\ UNCHANGED <<pc, os>>
    /\ ReleaseLost

(* The operating system completes a connect at any time, whoever still      *)
(* waits for it, and loses or abandons a connection at any time.            *)
OsConnects ==
    /\ os = "connecting"
    /\ os' = "up"
    /\ UNCHANGED <<pc, pending, runtime, excused>>

OsLoses ==
    /\ os # "idle"
    /\ os' = "idle"
    /\ excused' = FALSE
    /\ UNCHANGED <<pc, pending, runtime>>

CallSteps(c) ==
    LookupFails(c) \/ Attempt(c) \/ Up(c) \/ Discovered(c) \/ AttemptFails(c)

Next ==
    \/ \E c \in Callers :
        \/ Call(c) \/ CallSteps(c) \/ Released(c) \/ DropCall(c)
        \/ Disconnect(c) \/ DropDisconnect(c) \/ Forget(c)
    \/ Detached \/ Shutdown \/ OsConnects \/ OsLoses

Spec == Init /\ [][Next]_vars

(* Calls into the system return and the timer around the attempt fires; a   *)
(* spawned disconnect is run.                                               *)
Fairness ==
    /\ \A c \in Callers :
        WF_vars(Attempt(c) \/ LookupFails(c)) /\ WF_vars(Released(c))
        /\ WF_vars(AttemptFails(c))
    /\ WF_vars(Detached)

FairSpec == Spec /\ Fairness

---------------------------------------------------------------------------
TypeOK ==
    /\ pc \in [Callers -> Owning \cup {"idle", "lookup"}]
    /\ os \in {"idle", "connecting", "up"}
    /\ pending \in 0..MaxPending
    /\ runtime \in BOOLEAN
    /\ excused \in BOOLEAN

(* No connection, up or still being made, is held for nobody: a caller is   *)
(* connecting, releasing or using it, or a disconnect for it is in flight,  *)
(* unless a disconnect failed, there was no runtime to spawn it on, or its  *)
(* last user dropped the device without asking for one.                     *)
NothingHeld ==
    os # "idle" =>
        \/ \E c \in Callers : pc[c] \in Owning
        \/ pending > 0
        \/ excused

(* What an abandoned attempt left behind is let go of, or taken over.       *)
LetGo ==
    (os # "idle" /\ \A c \in Callers : pc[c] \notin Owning) ~>
        (os = "idle" \/ excused \/ \E c \in Callers : pc[c] \in Owning)

(* A call ends: with a device, an error, or because it was dropped.         *)
CallEnds == \A c \in Callers :
    pc[c] \in Guarded ~> pc[c] \in {"connected", "idle"}
=============================================================================
