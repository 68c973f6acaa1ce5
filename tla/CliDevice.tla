------------------------------ MODULE CliDevice ------------------------------
(***************************************************************************)
(* The commands of `fluke-connect` that connect once (main, run and the    *)
(* functions run calls in src/src/bin/fluke-connect.rs, with the client    *)
(* calls they make): connect, run the command, and release the link. The   *)
(* program is run again and again on one device, which keeps its name; a   *)
(* device still connected by an earlier run does not advertise.            *)
(*                                                                         *)
(*   connect    discovering and connecting                                 *)
(*   info       reading what info prints                                   *)
(*   write      locator, set-name, set-id and set-time                     *)
(*   open       opening the notification stream                            *)
(*   binary     dump subscribes to the reading characteristic              *)
(*   ascii      dump subscribes to the ASCII display, if it can            *)
(*   file       dump creates its file                                      *)
(*   loop       printing, or capturing to the file                         *)
(*   flush      dump flushes its file                                      *)
(*   release    device.disconnect()                                        *)
(*   exited     the process has ended                                      *)
(***************************************************************************)
EXTENDS DeviceStrings

CONSTANTS
    HasCount,      \* stream has --count
    Count,         \* its value
    MaxBuffered,   \* bound on the notifications waiting in the stream
    Names          \* names a user may ask for

VARIABLES
    command,
    step,
    held,        \* the link: none, up, lost, released, refused (up, though it was
                 \* asked to disconnect), or left by an earlier run
    shown,       \* the answers info has
    lines,       \* notifications waiting, TRUE for one that decodes
    seen,        \* notifications taken by stream
    printed,     \* lines stream has written
    handling,    \* Ctrl-C is handled, it no longer kills the process
    left,        \* why the command ended
    userString,  \* the name in the device
    named        \* the name it was last given

stream == <<lines, seen, printed, handling>>
name == <<userString, named>>
vars == <<command, step, held, shown, stream, left, name>>

Commands == {"info", "set-name", "write", "stream", "dump"}

(* info shows the five fields of device_info and five more answers.         *)
InfoFields == 5
InfoLines == 10

Init ==
    /\ command \in Commands
    /\ step = "connect"
    /\ held = "none"
    /\ shown = 0
    /\ lines = << >>
    /\ seen = 0
    /\ printed = 0
    /\ handling = FALSE
    /\ left = "no"
    /\ userString = << >>
    /\ named = << >>

(* The program is run again.                                                *)
Again ==
    /\ step = "exited"
    /\ command' \in Commands
    /\ step' = "connect"
    /\ held' = IF held \in {"up", "refused"} THEN "left" ELSE "none"
    /\ shown' = 0
    /\ lines' = << >>
    /\ seen' = 0
    /\ printed' = 0
    /\ handling' = FALSE
    /\ left' = "no"
    /\ UNCHANGED name

Goto(from, to) == step = from /\ step' = to

(* The command returns from a step, and main releases the link.             *)
Return(from, why) == Goto(from, "release") /\ left' = why

\* Mutant: an error of the command is returned by main at once.
FailsUnreleased(from) ==
    /\ Goto(from, "exited")
    /\ left' = "error"
    /\ UNCHANGED <<command, held, shown, stream, name>>

(* The ? of the command: any of its steps may fail.                         *)
Fails(from) ==
    /\ Return(from, "error")
    /\ UNCHANGED <<command, held, shown, stream, name>>

(* A call of the device that must succeed.                                  *)
Calls(from, to) ==
    /\ held = "up"
    /\ Goto(from, to)
    /\ UNCHANGED <<command, held, shown, stream, left, name>>

(* println and eprintln panic when their output is closed, and the panic    *)
(* takes main with it.                                                      *)
Panics(from) ==
    /\ Goto(from, "exited")
    /\ left' = "panic"
    /\ UNCHANGED <<command, held, shown, stream, name>>

(* Where there is something to print, after what has been done so far; the  *)
(* loop of dump prints nothing.                                             *)
Closed ==
    \/ step = "info" /\ shown >= InfoFields /\ Panics("info")
    \/ \E from \in {"connect", "open", "ascii", "file", "flush"} : Panics(from)
    \/ command = "stream" /\ Panics("loop")

(* Ctrl-C before a loop has polled for it.                                  *)
Killed ==
    /\ ~handling
    /\ step # "exited"
    /\ step' = "exited"
    /\ left' = "killed"
    /\ UNCHANGED <<command, held, shown, stream, name>>

ConnectFails ==
    /\ Goto("connect", "exited")
    /\ left' = "error"
    /\ UNCHANGED <<command, held, shown, stream, name>>

FirstStep ==
    CASE command = "info" -> "info"
      [] command \in {"set-name", "write"} -> "write"
      [] command \in {"stream", "dump"} -> "open"

(* That it has connected is printed.                                        *)
Connect ==
    /\ held = "none"
    /\ held' = "up"
    /\ \/ Goto("connect", FirstStep) /\ UNCHANGED left
       \/ Goto("connect", "exited") /\ left' = "panic"
    /\ UNCHANGED <<command, shown, stream, name>>

---------------------------------------------------------------------------
(* info: one read after the other. A field the device does not expose is    *)
(* left out, any other failure in device_info fails the command, and the    *)
(* failure of a later read is printed in place of its answer.               *)
Answered == step = "info" /\ shown < InfoLines /\ shown' = shown + 1

ReadInfo ==
    /\ Answered
    /\ UNCHANGED <<command, step, held, stream, left, name>>

InfoFails == shown < InfoFields /\ Fails("info")

InfoDone ==
    /\ shown = InfoLines
    /\ Return("info", "done")
    /\ UNCHANGED <<command, held, shown, stream, name>>

(* One write; of what is written, the name is what the device keeps.        *)
Written ==
    IF command = "set-name"
      THEN \E n \in Names :
             /\ NameFits(n)
             /\ userString' \in Stored(Utf8(n))
             /\ named' = n
      ELSE UNCHANGED name

(* The answer to the write is printed.                                      *)
Write ==
    /\ held = "up"
    /\ Written
    /\ \/ Return("write", "done")
       \/ Goto("write", "exited") /\ left' = "panic"
    /\ UNCHANGED <<command, held, shown, stream>>

(* A name that is too long and a clock before 1970 fail before the write;   *)
(* one that fails may have reached the device.                              *)
WriteCommandFails ==
    /\ Return("write", "error")
    /\ UNCHANGED name \/ Written
    /\ UNCHANGED <<command, held, shown, stream>>

---------------------------------------------------------------------------
(* stream opens its source, which subscribes; dump opens the notifications  *)
(* and subscribes itself.                                                   *)
Open == Calls("open", IF command = "stream" THEN "loop" ELSE "binary")

SubscribeBinary == Calls("binary", "ascii")

(* Best effort: a failure is noted.                                         *)
SubscribeAscii ==
    /\ Goto("ascii", "file")
    /\ UNCHANGED <<command, held, shown, stream, left, name>>

CreateFile ==
    /\ Goto("file", "loop")
    /\ UNCHANGED <<command, held, shown, stream, left, name>>

PrepareFails == \E from \in {"open", "binary", "file"} : Fails(from)

(* The device notifies from its first subscription on.                      *)
Notify ==
    /\ step \in {"ascii", "file", "loop"}
    /\ held = "up"
    /\ Len(lines) < MaxBuffered
    /\ \E decodes \in BOOLEAN : lines' = Append(lines, decodes)
    /\ UNCHANGED <<command, step, held, shown, seen, printed, handling, left, name>>

LinkLost ==
    /\ held \in {"up", "left"}
    /\ held' = IF held = "up" THEN "lost" ELSE "none"
    /\ UNCHANGED <<command, step, shown, stream, left, name>>

\* Mutant: one reading more than asked for.
CountedAbove == HasCount /\ seen' > Count

Counted == HasCount /\ seen' >= Count

Taken == step = "loop" /\ lines # << >> /\ lines' = Tail(lines)

(* dump writes every payload; stream reports one that does not decode.      *)
Writes == command = "dump" \/ Head(lines)

NextLine ==
    /\ command = "stream"
    /\ Taken
    /\ seen' = seen + 1
    /\ printed' = IF Writes THEN printed + 1 ELSE printed
    /\ IF Counted THEN Return("loop", "count") ELSE UNCHANGED <<step, left>>
    /\ UNCHANGED <<command, held, shown, handling, name>>

CaptureLine ==
    /\ command = "dump"
    /\ Taken
    /\ UNCHANGED <<command, step, held, shown, seen, printed, handling, left, name>>

WriteFails ==
    /\ Taken
    /\ Writes
    /\ Return("loop", "error")
    /\ UNCHANGED <<command, held, shown, seen, printed, handling, name>>

(* Leaving the loop: dump flushes its file first.                           *)
LeaveLoop(why) ==
    /\ IF command = "dump" THEN Goto("loop", "flush") /\ left' = why
                           ELSE Return("loop", why)
    /\ UNCHANGED <<command, held, shown, stream, name>>

\* Mutant: the end of the stream is not looked at.
EndOfStreamIgnored ==
    /\ step = "loop"
    /\ held = "lost"
    /\ UNCHANGED vars

(* The stream ends with the link, whatever it still holds.                  *)
EndOfStream == held = "lost" /\ LeaveLoop("lost")

(* The select polls for Ctrl-C, if not for a branch that was ready before.  *)
Listen ==
    /\ step = "loop"
    /\ ~handling
    /\ handling' = TRUE
    /\ UNCHANGED <<command, step, held, shown, lines, seen, printed, left, name>>

(* The deadline or Ctrl-C.                                                  *)
Interrupt == LeaveLoop("interrupt")

Flush ==
    /\ Goto("flush", "release")
    /\ UNCHANGED <<command, held, shown, stream, left, name>>

FlushFails == Fails("flush")

(* disconnect(); a failure of it is only warned about.                      *)
Release ==
    /\ Goto("release", "exited")
    /\ \/ held' = "released" /\ UNCHANGED left
       \/ /\ held' = IF held = "up" THEN "refused" ELSE "released"
          /\ left' \in {left, "panic"}
    /\ UNCHANGED <<command, shown, stream, name>>

Next ==
    \/ Again
    \/ Connect \/ ConnectFails
    \/ ReadInfo \/ InfoFails \/ InfoDone
    \/ Write \/ WriteCommandFails
    \/ Open \/ SubscribeBinary \/ SubscribeAscii \/ CreateFile \/ PrepareFails
    \/ Notify \/ LinkLost
    \/ NextLine \/ CaptureLine \/ WriteFails \/ EndOfStream \/ Listen \/ Interrupt
    \/ Flush \/ FlushFails
    \/ Release
    \/ Closed \/ Killed

(* The loop is polled, the end of the stream among what it polls, and the   *)
(* calls to the file system and to the device return.                       *)
Fairness ==
    /\ WF_vars(NextLine \/ CaptureLine \/ WriteFails \/ EndOfStream)
    /\ WF_vars(Flush \/ FlushFails)
    /\ WF_vars(Release)
=============================================================================
