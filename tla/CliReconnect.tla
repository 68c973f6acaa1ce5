---------------------------- MODULE CliReconnect ----------------------------
(***************************************************************************)
(* `fluke-connect stream --reconnect` (stream_reconnect in                 *)
(* src/src/bin/fluke-connect.rs): the loop that polls a reconnecting       *)
(* stream, prints its readings and stops it on --count, --seconds or       *)
(* Ctrl-C. The stream is EventStream, what Reconnect is shown to deliver.  *)
(*                                                                         *)
(*   discover   looking for the device, before there is a stream           *)
(*   loop       polling the stream                                         *)
(*   broke      the stream has ended                                       *)
(*   bailed     the stream gave up                                         *)
(*   failed     an error                                                   *)
(*   panicked   eprintln panics when its output is closed                  *)
(*   killed     Ctrl-C before the loop has polled for it                   *)
(***************************************************************************)
EXTENDS EventStream

CONSTANTS
    HasCount,      \* --count was given
    Count,         \* its value
    WritesFail     \* standard output may be closed

ASSUME CountOptionAssumption == HasCount \in BOOLEAN /\ Count \in Nat
ASSUME WritesAssumption == WritesFail \in BOOLEAN

VARIABLES
    cli,       \* where the program is, or how it ended
    awaited,   \* Ctrl-C is handled, it no longer kills the process
    stop,      \* the stream's stop flag
    seen,      \* readings counted
    printed    \* lines written

cliVars == <<cli, awaited, stop, seen, printed>>
allVars == <<vars, cliVars>>

CliInit ==
    /\ Init
    /\ cli = "discover"
    /\ awaited = FALSE
    /\ stop = FALSE
    /\ seen = 0
    /\ printed = 0

Discover ==
    /\ cli = "discover"
    /\ cli' \in {"loop", "failed"}
    /\ UNCHANGED <<vars, awaited, stop, seen, printed>>

(* The select polls for Ctrl-C, if not for a branch that was ready before.  *)
Await ==
    /\ cli = "loop"
    /\ ~stop
    /\ ~awaited
    /\ awaited' = TRUE
    /\ UNCHANGED <<vars, cli, stop, seen, printed>>

Kill ==
    /\ cli \in {"discover", "loop"}
    /\ ~awaited
    /\ cli' = "killed"
    /\ UNCHANGED <<vars, awaited, stop, seen, printed>>

(* The deadline or Ctrl-C.                                                  *)
Interrupt ==
    /\ cli = "loop"
    /\ ~stop
    /\ stop' = TRUE
    /\ UNCHANGED <<vars, cli, awaited, seen, printed>>

Counted == HasCount /\ seen' >= Count

\* Mutant: readings buffered before the stop are printed.
PrintingBuffered(event) == event.valid

(* What is printed: a readable item received before the stop.               *)
Printing(event) == event.valid /\ ~stop

\* Mutant: the loop leaves as soon as the count is reached.
PrintLeaves ==
    /\ printed' = printed + 1
    /\ seen' = seen + 1
    /\ cli' = IF Counted THEN "broke" ELSE cli
    /\ UNCHANGED <<awaited, stop>>

PrintReading ==
    /\ printed' = printed + 1
    /\ seen' = seen + 1
    /\ stop' = (stop \/ Counted)
    /\ UNCHANGED <<cli, awaited>>

(* A write error leaves the loop, and so does a panic, and the stream is    *)
(* dropped unstopped.                                                       *)
PrintFails(how) ==
    /\ WritesFail
    /\ cli' = how
    /\ UNCHANGED <<awaited, stop, seen, printed>>

Ignore == UNCHANGED cliVars

(* One event: a reading, an unreadable one, or a change of state.           *)
HandleReading ==
    /\ cli = "loop"
    /\ Deliver
    /\ Head(out).kind = "Item"
    /\ IF Printing(Head(out))
         THEN PrintReading \/ PrintFails("failed")
         ELSE Ignore \/ (~Head(out).valid /\ PrintFails("panicked"))

HandleNotice ==
    /\ cli = "loop"
    /\ Deliver
    /\ Head(out).kind \notin {"Item", "GaveUp"}
    /\ Ignore \/ PrintFails("panicked")

HandleGaveUp ==
    /\ cli = "loop"
    /\ Deliver
    /\ Head(out).kind = "GaveUp"
    /\ cli' = "bailed"
    /\ UNCHANGED <<awaited, stop, seen, printed>>

\* Mutant: the end of the stream is polled again.
HandleEndPolls ==
    /\ cli = "loop"
    /\ phase = "over"
    /\ out = << >>
    /\ UNCHANGED allVars

HandleEnd ==
    /\ cli = "loop"
    /\ phase = "over"
    /\ out = << >>
    /\ cli' = "broke"
    /\ UNCHANGED <<vars, awaited, stop, seen, printed>>

(* The supervisor; it ends because it was stopped or has given up.          *)
Supervise ==
    /\ cli = "loop"
    /\ Fail \/ Report \/ GiveUp \/ Open \/ Greet \/ Forward \/ Lose
    /\ UNCHANGED cliVars

Stopped ==
    /\ stop
    /\ End
    /\ UNCHANGED cliVars

(* The stream goes out of scope, which aborts its supervisor.               *)
DropStream ==
    /\ cli \in {"broke", "bailed", "failed", "panicked"}
    /\ Drop
    /\ UNCHANGED cliVars

CliNext ==
    \/ Discover \/ Await \/ Kill \/ Interrupt
    \/ HandleReading \/ HandleNotice \/ HandleGaveUp \/ HandleEnd
    \/ Supervise \/ Stopped \/ DropStream

(* The select polls the stream, and a stopped supervisor ends.              *)
CliFairness ==
    /\ WF_allVars(HandleReading \/ HandleNotice \/ HandleGaveUp \/ HandleEnd)
    /\ WF_allVars(Stopped)
=============================================================================
