---------------------------- MODULE EventStream ----------------------------
(***************************************************************************)
(* What a `Reconnecting` stream promises to whoever polls it, without the  *)
(* supervisor task that produces it (src/src/reconnect.rs): the order in   *)
(* which events may follow each other, the failure count they carry, and   *)
(* first-in first-out delivery through a bounded channel.                  *)
(*                                                                         *)
(*   down     no connection; failures are being reported                   *)
(*   failing  a failed scan or connect attempt is about to be reported     *)
(*   opening  a connection is up, Connected is about to be reported        *)
(*   up       items flow                                                   *)
(*   over     nothing more will be produced                                *)
(***************************************************************************)
EXTENDS Integers, Sequences

CONSTANTS
    Capacity,      \* of the channel
    MaxCount,      \* largest value of the failure counter, where it saturates
    Limited,       \* whether the policy has a max_attempts
    MaxAttempts,   \* its value
    Event          \* the events, records with at least a kind and an attempt

VARIABLES
    phase,     \* of the stream, as seen by its producer
    failures,  \* consecutive failures since the last connection
    out,       \* events produced and not yet delivered
    dropped    \* the consumer has dropped its end

vars == <<phase, failures, out, dropped>>

Init ==
    /\ phase = "down"
    /\ failures = 0
    /\ out = << >>
    /\ dropped = FALSE

Exhausted == Limited /\ failures >= MaxAttempts

Produce(kind, count) ==
    /\ ~dropped
    /\ Len(out) < Capacity
    /\ \E e \in Event :
        /\ e.kind = kind
        /\ e.attempt = count
        /\ out' = Append(out, e)

Fail ==
    /\ phase = "down"
    /\ phase' = "failing"
    /\ failures' = IF failures < MaxCount THEN failures + 1 ELSE failures
    /\ UNCHANGED <<out, dropped>>

Report ==
    /\ phase = "failing"
    /\ ~Exhausted
    /\ Produce("WaitingForDevice", 0) \/ Produce("Retrying", failures)
    /\ phase' = "down"
    /\ UNCHANGED <<failures, dropped>>

GiveUp ==
    /\ phase = "failing"
    /\ Exhausted
    /\ Produce("GaveUp", failures)
    /\ phase' = "over"
    /\ UNCHANGED <<failures, dropped>>

Open ==
    /\ phase = "down"
    /\ phase' = "opening"
    /\ failures' = 0
    /\ UNCHANGED <<out, dropped>>

Greet ==
    /\ phase = "opening"
    /\ Produce("Connected", 0)
    /\ phase' = "up"
    /\ UNCHANGED <<failures, dropped>>

Forward ==
    /\ phase = "up"
    /\ Produce("Item", 0)
    /\ UNCHANGED <<phase, failures, dropped>>

Lose ==
    /\ phase = "up"
    /\ Produce("Disconnected", 0)
    /\ phase' = "down"
    /\ UNCHANGED <<failures, dropped>>

(* The producer ends: it was stopped, cancelled, or found nobody listening. *)
End ==
    /\ phase # "over"
    /\ phase' = "over"
    /\ UNCHANGED <<failures, out, dropped>>

Deliver ==
    /\ out # << >>
    /\ out' = Tail(out)
    /\ UNCHANGED <<phase, failures, dropped>>

(* The consumer goes away, and what it had not received with it.            *)
Drop ==
    /\ ~dropped
    /\ dropped' = TRUE
    /\ out' = << >>
    /\ UNCHANGED <<phase, failures>>

Next ==
    \/ Fail \/ Report \/ GiveUp \/ Open \/ Greet \/ Forward \/ Lose
    \/ End \/ Deliver \/ Drop

Spec == Init /\ [][Next]_vars
=============================================================================
