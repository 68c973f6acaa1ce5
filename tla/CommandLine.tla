---------------------------- MODULE CommandLine ----------------------------
(***************************************************************************)
(* The program `fluke-connect` (main in src/src/bin/fluke-connect.rs):     *)
(* doctor and scan, which hold no device, stream --reconnect               *)
(* (CliReconnect), and the commands that connect once (CliDevice).         *)
(***************************************************************************)
EXTENDS CliReconnect

CONSTANTS
    MaxBuffered,   \* bound on the notifications waiting in the stream
    MaxNameLen,    \* bytes in a device's name (98 in the code)
    Names          \* names a user may ask for: an argument holds no NUL

ASSUME NotificationsAssumption == MaxBuffered \in Nat
ASSUME NamesAssumption == MaxNameLen \in Nat /\ Names \subseteq Seq(1..2047)

VARIABLES
    mode,      \* what main has chosen: look, once, reconnect; over after look
    command, step, held, shown, lines, handling, left, userString, named

Once == INSTANCE CliDevice

onceVars == <<command, step, held, shown, lines, handling, left, userString, named>>
mainVars == <<mode, vars, cli, awaited, stop, seen, printed, onceVars>>

MainInit ==
    /\ mode \in {"look", "once", "reconnect"}
    /\ CliInit
    /\ Once!Init

(* doctor and scan return whatever they find or fail to.                    *)
Look ==
    /\ mode = "look"
    /\ mode' = "over"
    /\ UNCHANGED <<allVars, onceVars>>

MainNext ==
    \/ Look
    \/ mode = "once" /\ Once!Next /\ UNCHANGED <<mode, vars, cli, awaited, stop>>
    \/ mode = "reconnect" /\ CliNext /\ UNCHANGED <<mode, onceVars>>

MainSpec == MainInit /\ [][MainNext]_mainVars

MainFairSpec == MainSpec /\ Once!Fairness /\ CliFairness

---------------------------------------------------------------------------
(* --count never overshoots, whatever is buffered when it is reached: the   *)
(* promise of the comment in stream_reconnect. (--count 0 prints one line:  *)
(* the count is looked at after a line.)                                    *)
NeverOvershoots == (HasCount /\ Count > 0) => printed <= Count

(* A reconnecting stream that ended, or gave up, leaves the link released:  *)
(* the supervisor has disconnected or lost the device and streams no more.  *)
LoopReleases == cli \in {"broke", "bailed"} => phase \notin {"opening", "up"}

(* A command that connected asks for a disconnect before the program ends,  *)
(* whichever command it is and whichever of its steps fails, unless it      *)
(* panics for a closed output or is killed. The disconnect may be refused:  *)
(* that is only warned about.                                               *)
ReleasedOnExit ==
    (step = "exited" /\ left \notin {"panic", "killed"}) =>
        held \in {"none", "left", "released", "refused"}

(* The comment in main(): the link is always released, so that the device   *)
(* advertises for the next run, whichever command returns to main and       *)
(* whichever way.                                                           *)
AlwaysReleases ==
    /\ ReleasedOnExit
    /\ cli \in {"broke", "bailed", "failed"} => phase \notin {"opening", "up"}

(* A name the client accepted is read back as it was given, but for the     *)
(* white space at its end, whether or not the device pads it with NULs, and *)
(* the device never cuts it in the middle of a character, which would leave *)
(* it unreadable.                                                           *)
NameReadsBack ==
    LET read == Once!DecodeString(userString)
        white == {i \in DOMAIN named : named[i] \in Once!White}
    IN  /\ read = SubSeq(named, 1, Len(read))
        /\ (Len(read) + 1)..Len(named) \subseteq white
        /\ Len(read) \notin white

(* After --count, --seconds or Ctrl-C the reconnecting stream is drained to *)
(* its end and the loop is left, however many events are still buffered.    *)
StopEnds == stop ~> cli # "loop"

(* A lost link ends stream and dump, even with notifications still waiting  *)
(* in the stream's buffer.                                                  *)
EndsWithLink == held = "lost" /\ step = "loop" ~> step = "exited"
=============================================================================
