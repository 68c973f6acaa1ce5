------------------------- MODULE CommandLineProofs -------------------------
(***************************************************************************)
(* Proofs about CommandLine, for any count, any stream that keeps the      *)
(* promise of EventStream, and any number of runs on one device.           *)
(***************************************************************************)
EXTENDS CommandLine, SequenceTheorems, WellFoundedInduction, TLAPS

Typed ==
    /\ seen \in Nat
    /\ printed \in Nat
    /\ out \in Seq(Event)

(* Which readings have been counted: as many as printed by the reconnecting *)
(* stream, which sets the stop with the last one; at least as many by the   *)
(* plain one, which leaves its loop with the last one.                      *)
Counting ==
    /\ printed <= seen
    /\ HasCount /\ Count > 0 =>
        /\ seen <= Count
        /\ (mode = "reconnect" /\ ~stop) => seen < Count
        /\ (mode = "once" /\ step \notin {"flush", "release", "exited"}) => seen < Count

(* A stream that has given up produces nothing more.                        *)
GaveUpIsOver ==
    (\E i \in 1..Len(out) : out[i].kind = "GaveUp") => phase = "over"

(* Nothing is held before the connection is made, but what an earlier run   *)
(* left connected.                                                          *)
HeldInv ==
    /\ command \in Once!Commands
    /\ step = "connect" => held \in {"none", "left"}
    /\ ReleasedOnExit

IInv == Typed /\ Counting /\ GaveUpIsOver /\ LoopReleases /\ HeldInv

USE CountOptionAssumption, WritesAssumption

---------------------------------------------------------------------------
(* The commands that connect once *)

(* A command that connects once counts a reading before it prints it.       *)
LEMMA OnceKeepsCounting ==
    ASSUME Typed, Counting, mode = "once", Once!Next, UNCHANGED <<mode, out>>
    PROVE  Typed' /\ Counting'
<1> DEFINE After == {"flush", "release", "exited"}
<1>1. CASE Once!Again
  BY <1>1 DEF Once!Again, Typed, Counting
<1>2. CASE Once!NextLine
  <2>1. /\ seen' = seen + 1 /\ printed' \in {printed, printed + 1}
        /\ step = "loop"
        /\ IF Once!Counted THEN step' = "release" ELSE step' = step
    BY <1>2 DEF Once!NextLine, Once!Taken, Once!Return, Once!Goto
  <2> QED
    BY <2>1 DEF Once!Counted, Typed, Counting
<1>3. CASE UNCHANGED <<seen, printed>> /\ (step \in After => step' \in After)
  BY <1>3 DEF Typed, Counting
<1> USE DEF Once!Goto, Once!Return, Once!Calls, Once!Fails, Once!Panics, Once!LeaveLoop,
            Once!stream, Once!name
<1>4. CASE Once!Connect \/ Once!ConnectFails \/ Once!ReadInfo \/ Once!InfoFails
           \/ Once!InfoDone \/ Once!Write \/ Once!WriteCommandFails
  BY <1>3, <1>4
  DEF Once!Connect, Once!ConnectFails, Once!ReadInfo, Once!Answered, Once!InfoFails,
      Once!InfoDone, Once!Write, Once!WriteCommandFails
<1>5. CASE Once!Open \/ Once!SubscribeBinary \/ Once!SubscribeAscii \/ Once!CreateFile
           \/ Once!PrepareFails \/ Once!Notify \/ Once!LinkLost
  BY <1>3, <1>5
  DEF Once!Open, Once!SubscribeBinary, Once!SubscribeAscii, Once!CreateFile,
      Once!PrepareFails, Once!Notify, Once!LinkLost
<1>6. CASE Once!CaptureLine \/ Once!WriteFails \/ Once!EndOfStream \/ Once!Listen
           \/ Once!Interrupt
  BY <1>3, <1>6
  DEF Once!CaptureLine, Once!WriteFails, Once!Taken, Once!EndOfStream, Once!Listen,
      Once!Interrupt
<1>7. CASE Once!Flush \/ Once!FlushFails \/ Once!Release \/ Once!Closed \/ Once!Killed
  BY <1>3, <1>7
  DEF Once!Flush, Once!FlushFails, Once!Release, Once!Closed, Once!Killed
<1> QED
  BY <1>1, <1>2, <1>4, <1>5, <1>6, <1>7 DEF Once!Next

(* A command ends by way of the release, unless it never connected, panics  *)
(* or is killed.                                                            *)
LEMMA OnceKeepsHeld ==
    ASSUME HeldInv, Once!Next
    PROVE  HeldInv'
<1> USE DEF HeldInv, ReleasedOnExit, Once!Goto, Once!Return, Once!Calls, Once!Fails,
            Once!Panics, Once!LeaveLoop
<1>1. CASE Once!Again \/ Once!Connect \/ Once!ConnectFails
  BY <1>1 DEF Once!Again, Once!Connect, Once!FirstStep, Once!Commands, Once!ConnectFails
<1>2. CASE Once!ReadInfo \/ Once!InfoFails \/ Once!InfoDone \/ Once!Write
           \/ Once!WriteCommandFails
  BY <1>2
  DEF Once!ReadInfo, Once!Answered, Once!InfoFails, Once!InfoDone, Once!Write,
      Once!WriteCommandFails
<1>3. CASE Once!Open \/ Once!SubscribeBinary \/ Once!SubscribeAscii \/ Once!CreateFile
           \/ Once!PrepareFails \/ Once!Notify \/ Once!LinkLost
  BY <1>3
  DEF Once!Open, Once!SubscribeBinary, Once!SubscribeAscii, Once!CreateFile,
      Once!PrepareFails, Once!Notify, Once!LinkLost
<1>4. CASE Once!NextLine \/ Once!CaptureLine \/ Once!WriteFails \/ Once!EndOfStream
           \/ Once!Listen \/ Once!Interrupt
  BY <1>4
  DEF Once!NextLine, Once!CaptureLine, Once!WriteFails, Once!Taken, Once!EndOfStream,
      Once!Listen, Once!Interrupt
<1>5. CASE Once!Flush \/ Once!FlushFails \/ Once!Release \/ Once!Closed \/ Once!Killed
  BY <1>5
  DEF Once!Flush, Once!FlushFails, Once!Release, Once!Closed, Once!Killed
<1> QED
  BY <1>1, <1>2, <1>3, <1>4, <1>5 DEF Once!Next

---------------------------------------------------------------------------
(* The reconnecting stream *)

(* What a step of the stream does to its channel: it adds one event, takes  *)
(* one, or leaves or drops them all.                                        *)
LEMMA StreamKeeps ==
    ASSUME out \in Seq(Event), GaveUpIsOver,
           Fail \/ Report \/ GiveUp \/ Open \/ Greet \/ Forward \/ Lose
           \/ End \/ Deliver \/ Drop
    PROVE  out' \in Seq(Event) /\ GaveUpIsOver'
<1>1. CASE Fail \/ Open \/ End
  BY <1>1 DEF Fail, Open, End, GaveUpIsOver
<1>2. ASSUME NEW kind, NEW count, Produce(kind, count),
             phase # "over", kind = "GaveUp" => phase' = "over"
      PROVE  out' \in Seq(Event) /\ GaveUpIsOver'
  <2>1. PICK e \in Event : e.kind = kind /\ out' = Append(out, e)
    BY <1>2 DEF Produce
  <2>2. /\ Len(out') = Len(out) + 1 /\ out'[Len(out) + 1] = e
        /\ \A i \in 1..Len(out) : out'[i] = out[i]
        /\ Len(out) \in Nat
    BY <2>1
  <2>3. \A i \in 1..Len(out) : out[i].kind # "GaveUp"
    BY <1>2 DEF GaveUpIsOver
  <2> QED
    BY <1>2, <2>1, <2>2, <2>3 DEF GaveUpIsOver
<1>3. CASE Report \/ GiveUp \/ Greet \/ Forward \/ Lose
  BY <1>2, <1>3 DEF Report, GiveUp, Greet, Forward, Lose
<1>4. CASE Deliver
  <2>1. /\ out # << >> /\ out' = Tail(out) /\ phase' = phase
    BY <1>4 DEF Deliver
  <2>2. /\ out' \in Seq(Event) /\ Len(out') = Len(out) - 1 /\ Len(out) \in Nat
        /\ \A i \in 1..Len(out') : out'[i] = out[i + 1]
    BY <2>1
  <2>3. \A i \in 1..Len(out') : i + 1 \in 1..Len(out)
    BY <2>2
  <2> QED
    BY <2>1, <2>2, <2>3 DEF GaveUpIsOver
<1>5. CASE Drop
  BY <1>5 DEF Drop, GaveUpIsOver
<1> QED
  BY <1>1, <1>3, <1>4, <1>5

(* The event at the head of the channel is in it.                           *)
LEMMA GaveUpDelivered ==
    ASSUME out \in Seq(Event), GaveUpIsOver, Deliver, Head(out).kind = "GaveUp"
    PROVE  phase' = "over"
<1>1. 1 \in 1..Len(out) /\ Head(out) = out[1] /\ phase' = phase
  BY DEF Deliver
<1> QED
  BY <1>1 DEF GaveUpIsOver

(* Every step of the reconnecting loop and of its stream keeps the          *)
(* invariant.                                                               *)
LEMMA LoopKeeps ==
    ASSUME IInv, mode = "reconnect", CliNext, UNCHANGED <<mode, onceVars>>
    PROVE  IInv'
<1>1. HeldInv'
  BY DEF IInv, HeldInv, ReleasedOnExit, onceVars
<1>2. out' \in Seq(Event) /\ GaveUpIsOver'
  <2>1. CASE UNCHANGED vars
    BY <2>1 DEF IInv, Typed, GaveUpIsOver, vars
  <2> QED
    BY <2>1, StreamKeeps
    DEF IInv, Typed, CliNext, Discover, Await, Kill, Interrupt, HandleReading, HandleNotice,
        HandleGaveUp, HandleEnd, Supervise, Stopped, DropStream, vars
<1>3. seen' \in Nat /\ printed' \in Nat /\ Counting'
  <2>1. CASE UNCHANGED <<seen, printed>> /\ (stop => stop')
    BY <2>1 DEF IInv, Typed, Counting
  <2>2. CASE PrintReading /\ ~stop
    BY <2>2 DEF PrintReading, Counted, IInv, Typed, Counting
  <2> QED
    BY <2>1, <2>2
    DEF CliNext, Discover, Await, Kill, Interrupt, HandleReading, HandleNotice,
        HandleGaveUp, HandleEnd, Supervise, Stopped, DropStream, Printing, PrintFails,
        Ignore, cliVars
<1>4. LoopReleases'
  <2>1. CASE HandleGaveUp
    BY <2>1, GaveUpDelivered DEF HandleGaveUp, IInv, Typed, LoopReleases
  <2>2. CASE HandleEnd \/ Stopped \/ DropStream
    BY <2>2
    DEF HandleEnd, Stopped, End, DropStream, Drop, cliVars, vars, IInv, LoopReleases
  <2>3. CASE Discover \/ Await \/ Kill \/ Interrupt \/ Supervise
    BY <2>3 DEF Discover, Await, Kill, Interrupt, Supervise, cliVars, LoopReleases
  <2>4. CASE HandleReading \/ HandleNotice
    BY <2>4
    DEF HandleReading, HandleNotice, PrintReading, PrintFails, Ignore, cliVars, LoopReleases
  <2> QED
    BY <2>1, <2>2, <2>3, <2>4 DEF CliNext
<1> QED
  BY <1>1, <1>2, <1>3, <1>4 DEF IInv, Typed

---------------------------------------------------------------------------
(* The invariant holds whichever command main runs.                         *)
LEMMA IInvHolds == MainSpec => []IInv
<1>1. MainInit => IInv
  BY DEF MainInit, CliInit, Init, Once!Init, IInv, Typed, Counting, GaveUpIsOver,
         LoopReleases, HeldInv, ReleasedOnExit
<1>2. IInv /\ [MainNext]_mainVars => IInv'
  <2> SUFFICES ASSUME IInv, [MainNext]_mainVars PROVE IInv'
    OBVIOUS
  <2>1. CASE Look \/ UNCHANGED mainVars
    BY <2>1
    DEF Look, mainVars, allVars, cliVars, onceVars, vars, IInv, Typed, Counting,
        GaveUpIsOver, LoopReleases, HeldInv, ReleasedOnExit
  <2>2. CASE mode = "once" /\ Once!Next /\ UNCHANGED <<mode, vars, cli, awaited, stop>>
    <3>1. UNCHANGED <<mode, out, phase, cli>>
      BY <2>2 DEF vars
    <3>2. Typed' /\ Counting' /\ HeldInv'
      BY <2>2, <3>1, OnceKeepsCounting, OnceKeepsHeld DEF IInv
    <3> QED
      BY <3>1, <3>2 DEF IInv, GaveUpIsOver, LoopReleases
  <2>3. CASE mode = "reconnect" /\ CliNext /\ UNCHANGED <<mode, onceVars>>
    BY <2>3, LoopKeeps
  <2> QED
    BY <2>1, <2>2, <2>3 DEF MainNext
<1> QED
  BY <1>1, <1>2, PTL DEF MainSpec

(* --count n prints at most n lines, whichever of the two loops runs, and   *)
(* whatever is buffered when the count is reached.                          *)
THEOREM CountKept == MainSpec => []NeverOvershoots
<1>1. IInv => NeverOvershoots
  BY DEF IInv, Typed, Counting, NeverOvershoots
<1> QED
  BY <1>1, IInvHolds, PTL

(* A reconnecting stream that has ended or given up has let its link go:    *)
(* what the loop returns on is its end, or a GaveUp, after which there is   *)
(* none but the end.                                                        *)
THEOREM LoopLetsGo == MainSpec => []LoopReleases
<1>1. IInv => LoopReleases
  BY DEF IInv
<1> QED
  BY <1>1, IInvHolds, PTL

(* Whatever step of a command that connects once fails, main disconnects.   *)
THEOREM LinkReleased == MainSpec => []ReleasedOnExit
<1>1. IInv => ReleasedOnExit
  BY DEF IInv, HeldInv
<1> QED
  BY <1>1, IInvHolds, PTL

(* Whatever command runs and however the loop is left, the program takes no *)
(* more of a reconnecting stream than its promise grants: it polls, stops   *)
(* and drops, and what it is shown to do holds over any stream that keeps   *)
(* the promise, Reconnect among them.                                       *)
THEOREM LoopKeepsPromise == MainSpec => Spec
<1>1. MainInit => Init
  BY DEF MainInit, CliInit
<1>2. [MainNext]_mainVars => [Next]_vars
  <2> SUFFICES ASSUME MainNext PROVE [Next]_vars
    BY DEF mainVars
  <2>1. CASE Look
    BY <2>1 DEF Look, allVars
  <2>2. CASE CliNext
    BY <2>2
    DEF CliNext, Discover, Await, Kill, Interrupt, HandleReading, HandleNotice,
        HandleGaveUp, HandleEnd, Supervise, Stopped, DropStream, Next
  <2> QED
    BY <2>1, <2>2 DEF MainNext
<1> QED
  BY <1>1, <1>2, PTL DEF MainSpec, Spec

---------------------------------------------------------------------------
(* The name of the device *)

(* A set with 0 that holds with n also n + 1 holds every natural number.    *)
LEMMA SetInduction ==
    ASSUME NEW S, 0 \in S, \A n \in Nat : n \in S => n + 1 \in S
    PROVE  Nat \subseteq S
<1> DEFINE Others == Nat \ S
           Less == {p \in Nat \X Nat : p[1] < p[2]}
<1>1. IsWellFoundedOn(Less, Nat)
  BY NatLessThanWellFounded DEF OpToRel
<1>2. ASSUME Others # {} PROVE FALSE
  <2>1. PICK least \in Others : \A n \in Others : ~(<<n, least>> \in Less)
    <3>1. Others \subseteq Nat
      OBVIOUS
    <3> HIDE DEF Others, Less
    <3> QED
      BY <1>1, <1>2, <3>1, WFMin
  <2>2. least \in Nat /\ least - 1 \in Nat
    OBVIOUS
  <2>3. <<least - 1, least>> \in Less
    BY <2>2
  <2>4. least - 1 \in S
    BY <2>1, <2>2, <2>3
  <2> QED
    BY <2>2, <2>4
<1> QED
  BY <1>2

(* What a recursive definition says of a function: where it starts, and     *)
(* how each value follows from the one before.                              *)
Recurs(f, base, N, rule) ==
    f[0] = base /\ \A n \in 1..N : f[n] = rule[n][f[n - 1]]

(* A value and, for each of the first numbers, a step that keeps a set of   *)
(* values define a function on them.                                        *)
LEMMA Recursion ==
    ASSUME NEW V, NEW base \in V, NEW N \in Nat, NEW rule \in [1..N -> [V -> V]]
    PROVE  \E f \in [0..N -> V] : Recurs(f, base, N, rule)
<1> DEFINE Upto(n, g) == /\ g \in [0..n -> V]
                         /\ g[0] = base
                         /\ \A i \in 1..n : g[i] = rule[i][g[i - 1]]
           Exists == {n \in Nat : n <= N => \E g : Upto(n, g)}
<1>1. 0 \in Exists
  <2>1. Upto(0, [i \in 0..0 |-> base])
    OBVIOUS
  <2> QED
    BY <2>1
<1>2. ASSUME NEW n \in Nat, NEW g, n + 1 <= N, Upto(n, g)
      PROVE  \E h : Upto(n + 1, h)
  <2> DEFINE next == rule[n + 1][g[n]]
             h == [i \in 0..(n + 1) |-> IF i = n + 1 THEN next ELSE g[i]]
  <2>1. next \in V
    <3>1. n + 1 \in 1..N /\ g[n] \in V
      BY <1>2
    <3> QED
      BY <3>1
  <2> HIDE DEF next
  <2>2. h \in [0..(n + 1) -> V]
    BY <1>2, <2>1
  <2>3. h[0] = base
    BY <1>2
  <2>4. ASSUME NEW i \in 1..(n + 1) PROVE h[i] = rule[i][h[i - 1]]
    <3>1. CASE i = n + 1
      <4>1. n \in 0..(n + 1) /\ n # n + 1 /\ i \in 0..(n + 1)
        OBVIOUS
      <4>2. h[n] = g[n] /\ h[i] = next
        BY <3>1, <4>1
      <4>3. i - 1 = n
        BY <3>1
      <4> QED
        BY <3>1, <4>2, <4>3 DEF next
    <3>2. CASE i # n + 1
      <4>1. i \in 1..n /\ i - 1 \in 0..n
        BY <3>2
      <4>2. h[i] = g[i] /\ h[i - 1] = g[i - 1]
        BY <4>1
      <4> QED
        BY <1>2, <4>1, <4>2
    <3> QED
      BY <3>1, <3>2
  <2>5. Upto(n + 1, h)
    <3> HIDE DEF h
    <3> QED
      BY <2>2, <2>3, <2>4
  <2> HIDE DEF Upto
  <2> QED
    BY <2>5
<1>3. N \in Exists
  <2> HIDE DEF Upto
  <2>1. \A n \in Nat : n \in Exists => n + 1 \in Exists
    <3> SUFFICES ASSUME NEW n \in Nat, n \in Exists, n + 1 <= N
                 PROVE  \E h : Upto(n + 1, h)
      OBVIOUS
    <3>1. PICK g : Upto(n, g)
      OBVIOUS
    <3> QED
      BY <1>2, <3>1
  <2> HIDE DEF Exists
  <2> QED
    BY <1>1, <2>1, SetInduction
<1>4. PICK f : Upto(N, f)
  <2> HIDE DEF Upto
  <2> QED
    BY <1>3
<1> QED
  BY <1>4 DEF Recurs

---------------------------------------------------------------------------
(* What a name is made of, and what it is written in: neither holds a NUL.  *)
Character == 1..2047

Byte == 1..255

(* The character a pair of bytes stands for.                                *)
Paired(lead, rest) == (lead - 192) * 64 + rest - 128

(* A character is one byte, or the first and the second of a pair.          *)
LEMMA CharEncoded ==
    ASSUME NEW c \in Character
    PROVE  \/ /\ c < 128 /\ c \in Byte
              /\ Once!EncodeChar(c) = <<c>>
           \/ \E lead \in Byte, rest \in Byte :
                /\ lead >= 192 /\ rest \in 128..191
                /\ Once!EncodeChar(c) = <<lead, rest>>
                /\ c = Paired(lead, rest)
<1>1. CASE c < 128
  <2>1. c \in Byte /\ Once!EncodeChar(c) = <<c>>
    BY <1>1 DEF Once!EncodeChar, Character, Byte
  <2> QED
    BY <1>1, <2>1
<1>2. CASE c >= 128
  <2> DEFINE lead == 192 + c \div 64
             rest == 128 + (c % 64)
  <2>1. /\ lead \in Byte /\ lead >= 192
        /\ rest \in Byte /\ rest \in 128..191
        /\ c = Paired(lead, rest)
    BY <1>2 DEF Character, Byte, Paired
  <2>2. Once!EncodeChar(c) = <<lead, rest>>
    BY <1>2 DEF Once!EncodeChar, Character
  <2> HIDE DEF lead, rest
  <2> QED
    BY <2>1, <2>2
<1> QED
  BY <1>1, <1>2 DEF Character

(* Either way a character is written in bytes.                              *)
LEMMA CharTyped ==
    ASSUME NEW c \in Character
    PROVE  Once!EncodeChar(c) \in Seq(Byte)
<1>1. \A a, b \in Byte : <<a>> \in Seq(Byte) /\ <<a, b>> \in Seq(Byte)
  OBVIOUS
<1>2. \/ \E a \in Byte : Once!EncodeChar(c) = <<a>>
      \/ \E a, b \in Byte : Once!EncodeChar(c) = <<a, b>>
  BY CharEncoded, Zenon
<1> QED
  BY <1>1, <1>2, Zenon

(* The bytes of a name grow by one character at a time.                     *)
Encodes(written, name) ==
    /\ written \in [0..Len(name) -> Seq(Byte)]
    /\ written[0] = << >>
    /\ \A n \in 1..Len(name) : written[n] = written[n - 1] \o Once!EncodeChar(name[n])

(* The recursive definition has a solution, and Encoding is one.            *)
LEMMA EncodingIs ==
    ASSUME NEW name \in Seq(Character)
    PROVE  Encodes(Once!Encoding(name), name)
<1> DEFINE N == Len(name)
           Bytes == Seq(Byte)
           code(n) == Once!EncodeChar(name[n])
           Written(g) == [n \in 0..N |-> IF n = 0 THEN << >> ELSE g[n - 1] \o code(n)]
           rule == [n \in 1..N |-> [bytes \in Bytes |-> bytes \o code(n)]]
<1>1. N \in Nat /\ \A n \in 1..N : code(n) \in Bytes
  BY CharTyped
<1>2. \A bytes \in Bytes, n \in 1..N : bytes \o code(n) \in Bytes
  <2> HIDE DEF code, N
  <2> QED
    BY <1>1, ConcatProperties
<1>3. << >> \in Bytes
  OBVIOUS
<1>4. Once!Encoding(name) = CHOOSE g : g = Written(g)
  BY Zenon DEF Once!Encoding
<1> HIDE DEF N, Bytes, code
<1>5. rule \in [1..N -> [Bytes -> Bytes]]
  BY <1>2
<1>6. PICK f \in [0..N -> Bytes] : Recurs(f, << >>, N, rule)
  <2> HIDE DEF rule
  <2> QED
    BY <1>1, <1>3, <1>5, Recursion
<1>7. ASSUME NEW n \in 1..N PROVE f[n] = f[n - 1] \o code(n)
  <2>1. n - 1 \in 0..N
    BY <1>1
  <2> QED
    BY <1>6, <2>1 DEF Recurs
<1>8. f = Written(f)
  <2>1. \A n \in 0..N : f[n] = IF n = 0 THEN << >> ELSE f[n - 1] \o code(n)
    BY <1>1, <1>6, <1>7 DEF Recurs
  <2> QED
    BY <2>1
<1> DEFINE g == Once!Encoding(name)
<1>9. g = Written(g)
  <2> HIDE DEF Written
  <2> QED
    BY <1>4, <1>8
<1> HIDE DEF g
<1>10. g[0] = << >> /\ DOMAIN g = 0..N /\ g = [n \in 0..N |-> g[n]]
  BY <1>1, <1>9
<1>11. ASSUME NEW n \in 1..N PROVE g[n] = g[n - 1] \o code(n)
  <2>1. n \in 0..N /\ n # 0
    BY <1>1
  <2> QED
    BY <1>9, <2>1
<1> DEFINE Reached == {n \in Nat : n <= N => g[n] \in Bytes}
<1>12. \A n \in Nat : n \in Reached => n + 1 \in Reached
  <2> SUFFICES ASSUME NEW n \in Nat, n \in Reached, n + 1 <= N
               PROVE  g[n + 1] \in Bytes
    BY <1>1
  <2>1. n + 1 \in 1..N /\ (n + 1) - 1 = n /\ n <= N
    BY <1>1
  <2>2. g[n] \in Bytes /\ g[n + 1] = g[n] \o code(n + 1)
    BY <1>11, <2>1
  <2> QED
    BY <1>2, <2>1, <2>2
<1>13. Nat \subseteq Reached
  <2>1. 0 \in Reached
    BY <1>3, <1>10
  <2> HIDE DEF Reached
  <2> QED
    BY <1>12, <2>1, SetInduction
<1>14. g \in [0..N -> Bytes]
  <2>1. \A n \in 0..N : g[n] \in Bytes
    BY <1>1, <1>13
  <2> QED
    BY <1>10, <2>1
<1> QED
  BY <1>10, <1>11, <1>14 DEF Encodes, g, N, Bytes, code

(* The bytes of the first characters begin those of the name.               *)
LEMMA EncodingGrows ==
    ASSUME NEW name \in Seq(Character), NEW w, Encodes(w, name), NEW i \in 0..Len(name)
    PROVE  /\ Len(w[i]) <= Len(w[Len(name)])
           /\ \A k \in 1..Len(w[i]) : w[Len(name)][k] = w[i][k]
<1> DEFINE N == Len(name)
           Begins(j) == /\ Len(w[j]) <= Len(w[N])
                        /\ \A k \in 1..Len(w[j]) : w[N][k] = w[j][k]
           Good == {d \in Nat : d <= N => Begins(N - d)}
<1>1. N \in Nat /\ \A n \in 0..N : w[n] \in Seq(Byte) /\ Len(w[n]) \in Nat
  BY DEF Encodes
<1>2. ASSUME NEW j \in 1..N, Begins(j) PROVE Begins(j - 1)
  <2> DEFINE s == w[j - 1]
             t == Once!EncodeChar(name[j])
  <2>1. s \in Seq(Byte) /\ t \in Seq(Byte) /\ w[j] = s \o t
    <3>1. j - 1 \in 0..N /\ name[j] \in Character
      BY <1>1
    <3> QED
      BY <1>1, <3>1, CharTyped DEF Encodes
  <2> HIDE DEF s, t
  <2>2. /\ Len(s) \in Nat /\ Len(t) \in Nat
        /\ Len(w[j]) = Len(s) + Len(t)
        /\ \A k \in 1..Len(s) + Len(t) :
             w[j][k] = IF k <= Len(s) THEN s[k] ELSE t[k - Len(s)]
    BY <2>1, ConcatProperties, LenProperties
  <2>3. Len(s) <= Len(w[N])
    BY <1>1, <1>2, <2>2
  <2>4. ASSUME NEW k \in 1..Len(s) PROVE w[N][k] = s[k]
    <3>1. k \in 1..Len(w[j]) /\ k <= Len(s)
      BY <2>2
    <3> QED
      BY <1>2, <2>2, <3>1
  <2> QED
    BY <2>3, <2>4 DEF s
<1>3. 0 \in Good
  <2>1. N - 0 = N
    BY <1>1
  <2> QED
    BY <1>1, <2>1
<1>4. ASSUME NEW d \in Nat, d \in Good PROVE d + 1 \in Good
  <2> SUFFICES ASSUME d + 1 <= N PROVE Begins(N - (d + 1))
    OBVIOUS
  <2>1. N - d \in 1..N /\ N - (d + 1) = (N - d) - 1
    BY <1>1
  <2>2. Begins(N - d)
    BY <1>1, <1>4
  <2> HIDE DEF Begins
  <2> QED
    BY <1>2, <2>1, <2>2
<1>5. N - i \in Good
  <2> HIDE DEF Good
  <2> QED
    BY <1>1, <1>3, <1>4, SetInduction
<1>6. N - (N - i) = i /\ N - i <= N
  BY <1>1
<1>7. Begins(i)
  <2> HIDE DEF Begins
  <2> QED
    BY <1>5, <1>6
<1> QED
  BY <1>7

---------------------------------------------------------------------------
(* What has been read: text so far, and perhaps the first byte of a pair.   *)
Partial == [text : Seq(Int), lead : Nat, bad : BOOLEAN]

(* What one more byte makes of it.                                          *)
LEMMA ByteRead ==
    ASSUME NEW r \in Partial, NEW b \in Nat
    PROVE  /\ Once!ReadByte(r, b) \in Partial
           /\ (~r.bad /\ r.lead = 0 /\ b < 128) =>
                Once!ReadByte(r, b) = Once!Whole(Append(r.text, b))
           /\ (~r.bad /\ r.lead = 0 /\ b >= 192) =>
                Once!ReadByte(r, b) = [text |-> r.text, lead |-> b, bad |-> FALSE]
           /\ (~r.bad /\ r.lead > 0 /\ b \in 128..191) =>
                Once!ReadByte(r, b) = Once!Whole(Append(r.text, (r.lead - 192) * 64 + b - 128))
<1> DEFINE pair == (r.lead - 192) * 64 + b - 128
           ascii == ~r.bad /\ r.lead = 0 /\ b < 128
           first == ~r.bad /\ r.lead = 0 /\ b >= 192
           second == ~r.bad /\ r.lead > 0 /\ b \in 128..191
<1>1. /\ r.text \in Seq(Int) /\ r.lead \in Nat /\ r.bad \in BOOLEAN
      /\ r = [text |-> r.text, lead |-> r.lead, bad |-> r.bad]
  BY DEF Partial
<1>2. pair \in Int /\ b \in Int
  BY <1>1
<1>3. Once!ReadByte(r, b) =
        CASE r.bad -> r
          [] ascii -> Once!Whole(Append(r.text, b))
          [] first -> [text |-> r.text, lead |-> b, bad |-> FALSE]
          [] second -> Once!Whole(Append(r.text, pair))
          [] OTHER -> [text |-> r.text, lead |-> 0, bad |-> TRUE]
  BY Zenon DEF Once!ReadByte
<1>4. /\ r.bad => ~ascii /\ ~first /\ ~second
      /\ ascii => ~r.bad /\ ~first /\ ~second
      /\ first => ~r.bad /\ ~ascii /\ ~second
      /\ second => ~r.bad /\ ~ascii /\ ~first
  BY <1>1
<1>5. /\ r.bad => Once!ReadByte(r, b) = r
      /\ ascii => Once!ReadByte(r, b) = Once!Whole(Append(r.text, b))
      /\ first => Once!ReadByte(r, b) = [text |-> r.text, lead |-> b, bad |-> FALSE]
      /\ second => Once!ReadByte(r, b) = Once!Whole(Append(r.text, pair))
      /\ (~r.bad /\ ~ascii /\ ~first /\ ~second) =>
           Once!ReadByte(r, b) = [text |-> r.text, lead |-> 0, bad |-> TRUE]
  <2> HIDE DEF pair, ascii, first, second
  <2> QED
    BY <1>3, <1>4, Zenon
<1>6. Once!ReadByte(r, b) \in Partial
  <2>1. Append(r.text, b) \in Seq(Int) /\ Append(r.text, pair) \in Seq(Int)
    <3> HIDE DEF pair
    <3> QED
      BY <1>1, <1>2
  <2>2. \A t \in Seq(Int), l \in Nat, d \in BOOLEAN :
           [text |-> t, lead |-> l, bad |-> d] \in Partial
    BY DEF Partial
  <2> HIDE DEF pair, ascii, first, second
  <2> QED
    BY <1>1, <1>5, <2>1, <2>2 DEF Once!Whole
<1> QED
  BY <1>5, <1>6

(* Bytes are read from the first to the last.                               *)
LEMMA ReadingIs ==
    ASSUME NEW bytes \in Seq(Byte)
    PROVE  /\ Once!Reading(bytes)[0] = Once!Whole(<< >>)
           /\ \A n \in 1..Len(bytes) :
                Once!Reading(bytes)[n] = Once!ReadByte(Once!Reading(bytes)[n - 1], bytes[n])
<1> DEFINE N == Len(bytes)
           start == Once!Whole(<< >>)
           Took(g) == [n \in 0..N |-> IF n = 0 THEN start ELSE Once!ReadByte(g[n - 1], bytes[n])]
           rule == [n \in 1..N |-> [r \in Partial |-> Once!ReadByte(r, bytes[n])]]
<1>1. N \in Nat /\ \A n \in 1..N : bytes[n] \in Nat
  <2>1. N \in Nat
    OBVIOUS
  <2>2. \A n \in 1..N : bytes[n] \in Byte
    BY ElementOfSeq
  <2>3. Byte \subseteq Nat
    BY DEF Byte
  <2> HIDE DEF N
  <2> QED
    BY <2>1, <2>2, <2>3
<1>2. start \in Partial
  BY DEF Once!Whole, Partial
<1>3. Once!Reading(bytes) = CHOOSE g : g = Took(g)
  BY Zenon DEF Once!Reading, Once!Whole
<1> HIDE DEF N, start
<1>4. rule \in [1..N -> [Partial -> Partial]]
  BY <1>1, ByteRead
<1>5. PICK f \in [0..N -> Partial] : Recurs(f, start, N, rule)
  <2> HIDE DEF rule
  <2> QED
    BY <1>1, <1>2, <1>4, Recursion
<1>6. ASSUME NEW n \in 1..N PROVE f[n] = Once!ReadByte(f[n - 1], bytes[n])
  <2>1. f[n - 1] \in Partial
    BY <1>1, <1>5
  <2> QED
    BY <1>5, <2>1 DEF Recurs
<1>7. f = Took(f)
  <2>1. \A n \in 0..N : f[n] = IF n = 0 THEN start ELSE Once!ReadByte(f[n - 1], bytes[n])
    BY <1>1, <1>5, <1>6 DEF Recurs
  <2> QED
    BY <2>1
<1> DEFINE g == Once!Reading(bytes)
<1>8. g = Took(g)
  <2> HIDE DEF Took
  <2> QED
    BY <1>3, <1>7
<1> HIDE DEF g
<1>9. g[0] = start
  BY <1>1, <1>8
<1>10. ASSUME NEW n \in 1..N PROVE g[n] = Once!ReadByte(g[n - 1], bytes[n])
  <2>1. n \in 0..N /\ n # 0
    BY <1>1
  <2> QED
    BY <1>8, <2>1
<1> QED
  BY <1>9, <1>10 DEF g, N, start

(* A character is read from its one byte ...                                *)
LEMMA AsciiRead ==
    ASSUME NEW text \in Seq(Int), NEW c \in Nat, c < 128
    PROVE  Once!ReadByte(Once!Whole(text), c) = Once!Whole(Append(text, c))
<1> DEFINE r == Once!Whole(text)
<1>1. r \in Partial /\ r.text = text /\ r.lead = 0 /\ r.bad = FALSE
  BY DEF Once!Whole, Partial
<1> HIDE DEF r
<1>2. Once!ReadByte(r, c) = Once!Whole(Append(text, c))
  BY <1>1, ByteRead
<1> QED
  BY <1>2 DEF r

(* ... or from its two.                                                     *)
LEMMA PairRead ==
    ASSUME NEW text \in Seq(Int), NEW lead \in Nat, NEW rest \in 128..191, lead >= 192
    PROVE  Once!ReadByte(Once!ReadByte(Once!Whole(text), lead), rest) =
             Once!Whole(Append(text, Paired(lead, rest)))
<1> DEFINE r == Once!Whole(text)
           half == Once!ReadByte(r, lead)
<1>1. r \in Partial /\ r.text = text /\ r.lead = 0 /\ r.bad = FALSE
  BY DEF Once!Whole, Partial
<1> HIDE DEF r
<1>2. half = [text |-> text, lead |-> lead, bad |-> FALSE] /\ half \in Partial
  BY <1>1, ByteRead
<1>3. half.text = text /\ half.lead = lead /\ half.bad = FALSE
  BY <1>2
<1>4. lead > 0 /\ rest \in Nat
  OBVIOUS
<1> HIDE DEF half
<1>5. Once!ReadByte(half, rest) = Once!Whole(Append(half.text, Paired(half.lead, rest)))
  BY <1>2, <1>3, <1>4, ByteRead DEF Paired
<1> QED
  BY <1>3, <1>5 DEF half, r

(* Where the bytes of a character end, the text read so far ends with it.   *)
LEMMA NameRead ==
    ASSUME NEW name \in Seq(Character)
    PROVE  Once!FromUtf8(Once!Utf8(name)) = name
<1> DEFINE N == Len(name)
           w == Once!Encoding(name)
           bytes == Once!Utf8(name)
           R == Once!Reading(bytes)
           sofar(i) == SubSeq(name, 1, i)
           Good == {i \in Nat : i <= N => R[Len(w[i])] = Once!Whole(sofar(i))}
<1>1. /\ N \in Nat
      /\ \A i \in 1..N : name[i] \in Character /\ name[i] \in Int
  <2>1. N \in Nat
    OBVIOUS
  <2>2. \A i \in 1..N : name[i] \in Character
    BY ElementOfSeq
  <2>3. Character \subseteq Int
    BY DEF Character
  <2> HIDE DEF N
  <2> QED
    BY <2>1, <2>2, <2>3
<1>2. Encodes(w, name) /\ bytes = w[N] /\ bytes \in Seq(Byte) /\ Len(bytes) \in Nat
  <2>1. Encodes(w, name)
    BY EncodingIs
  <2>2. bytes = w[N]
    BY DEF Once!Utf8
  <2> HIDE DEF w, bytes
  <2>3. bytes \in Seq(Byte)
    BY <1>1, <2>1, <2>2 DEF Encodes
  <2> QED
    BY <2>1, <2>2, <2>3, LenProperties
<1> HIDE DEF w, bytes
<1>3. /\ R[0] = Once!Whole(<< >>)
      /\ \A n \in 1..Len(bytes) : R[n] = Once!ReadByte(R[n - 1], bytes[n])
  BY <1>2, ReadingIs
<1> HIDE DEF R
<1>4. /\ sofar(0) = << >> /\ sofar(N) = name
      /\ \A i \in 0..N : sofar(i) \in Seq(Int)
      /\ \A i \in 1..N : sofar(i) = Append(sofar(i - 1), name[i])
  <2>1. sofar(0) = << >>
    BY SubSeqEmpty
  <2>2. sofar(N) = name
    BY SubSeqFull
  <2>3. ASSUME NEW i \in 0..N PROVE sofar(i) \in Seq(Int)
    <3>1. \A k \in 1..i : name[k] \in Int
      BY <1>1, <2>3
    <3> QED
      BY <2>3, <3>1, SubSeqProperties
  <2>4. ASSUME NEW i \in 1..N PROVE sofar(i) = Append(sofar(i - 1), name[i])
    <3>1. sofar(i) = sofar(i - 1) \o <<name[i]>>
      BY SubSeqRecursiveSecond
    <3>2. sofar(i - 1) \in Seq(Int) /\ name[i] \in Int
      BY <1>1, <2>3
    <3> HIDE DEF sofar
    <3> QED
      BY <3>1, <3>2, AppendIsConcat
  <2> QED
    BY <2>1, <2>2, <2>3, <2>4
<1> HIDE DEF sofar
<1>5. ASSUME NEW i \in 1..N, R[Len(w[i - 1])] = Once!Whole(sofar(i - 1))
      PROVE  R[Len(w[i])] = Once!Whole(sofar(i))
  <2> DEFINE before == w[i - 1]
             m == Len(before)
             c == name[i]
             t == Once!EncodeChar(c)
             text == sofar(i - 1)
  <2>1. /\ before \in Seq(Byte) /\ m \in Nat /\ c \in Character /\ t \in Seq(Byte)
        /\ text \in Seq(Int) /\ sofar(i) = Append(text, c)
        /\ w[i] = before \o t /\ R[m] = Once!Whole(text)
    <3>1. i - 1 \in 0..N
      BY <1>1
    <3>2. before \in Seq(Byte)
      BY <1>2, <3>1 DEF Encodes
    <3> QED
      BY <1>1, <1>2, <1>4, <1>5, <3>1, <3>2, CharTyped, LenProperties DEF Encodes
  <2>2. Len(w[i]) <= Len(bytes) /\ \A k \in 1..Len(w[i]) : bytes[k] = w[i][k]
    BY <1>1, <1>2, EncodingGrows
  <2> HIDE DEF before, t, text, c
  <2>3. /\ Len(w[i]) = m + Len(t) /\ Len(t) \in Nat
        /\ \A k \in 1..Len(t) : w[i][m + k] = t[k]
    <3>1. Len(t) \in Nat
      BY <2>1
    <3>2. /\ Len(w[i]) = m + Len(t)
          /\ \A k \in 1..m + Len(t) : w[i][k] = IF k <= m THEN before[k] ELSE t[k - m]
      BY <2>1, ConcatProperties
    <3> HIDE DEF m
    <3>3. ASSUME NEW k \in 1..Len(t) PROVE w[i][m + k] = t[k]
      <4>1. m + k \in 1..m + Len(t) /\ ~(m + k <= m) /\ (m + k) - m = k
        BY <2>1, <3>1
      <4> QED
        BY <3>2, <4>1
    <3> QED
      BY <3>1, <3>2, <3>3
  <2> HIDE DEF m
  <2>4. ASSUME NEW k \in 1..Len(t)
        PROVE  R[m + k] = Once!ReadByte(R[(m + k) - 1], t[k])
    <3>1. m + k \in 1..Len(w[i]) /\ m + k \in 1..Len(bytes)
      BY <1>2, <2>1, <2>2, <2>3
    <3>2. bytes[m + k] = t[k]
      BY <2>2, <2>3, <3>1
    <3>3. R[m + k] = Once!ReadByte(R[(m + k) - 1], bytes[m + k])
      BY <1>3, <3>1
    <3> QED
      BY <3>2, <3>3
  <2>5. CASE c < 128 /\ t = <<c>>
    <3>1. Len(t) = 1 /\ t[1] = c /\ c \in Nat
      BY <2>1, <2>5 DEF Character
    <3>2. R[m + 1] = Once!ReadByte(Once!Whole(text), c)
      BY <2>1, <2>4, <3>1
    <3> QED
      BY <2>1, <2>3, <2>5, <3>1, <3>2, AsciiRead
  <2>6. ASSUME NEW lead \in Byte, NEW rest \in Byte, lead >= 192, rest \in 128..191,
               t = <<lead, rest>>, c = Paired(lead, rest)
        PROVE  R[Len(w[i])] = Once!Whole(sofar(i))
    <3>1. Len(t) = 2 /\ t[1] = lead /\ t[2] = rest /\ lead \in Nat
      BY <2>6 DEF Byte
    <3>2. R[m + 1] = Once!ReadByte(Once!Whole(text), lead)
      BY <2>1, <2>4, <3>1
    <3>3. R[m + 2] = Once!ReadByte(R[m + 1], rest)
      <4>1. R[m + 2] = Once!ReadByte(R[m + 2 - 1], t[2]) /\ m + 2 - 1 = m + 1
        BY <2>1, <2>4, <3>1
      <4> QED
        BY <3>1, <4>1
    <3>4. R[m + 2] = Once!Whole(Append(text, c))
      <4>1. /\ text \in Seq(Int) /\ lead \in Nat /\ rest \in 128..191 /\ lead >= 192
        BY <2>1, <2>6, <3>1
      <4>2. Once!ReadByte(Once!ReadByte(Once!Whole(text), lead), rest) =
              Once!Whole(Append(text, Paired(lead, rest)))
        BY <4>1, PairRead
      <4> QED
        BY <2>6, <3>2, <3>3, <4>2
    <3> QED
      BY <2>1, <2>3, <3>1, <3>4
  <2> QED
    BY <2>1, <2>5, <2>6, CharEncoded DEF t
<1>6. 0 \in Good
  <2>1. w[0] = << >> /\ Len(<< >>) = 0
    BY <1>2 DEF Encodes
  <2> QED
    BY <1>3, <1>4, <2>1
<1>7. ASSUME NEW i \in Nat, i \in Good PROVE i + 1 \in Good
  <2> SUFFICES ASSUME i + 1 <= N PROVE R[Len(w[i + 1])] = Once!Whole(sofar(i + 1))
    OBVIOUS
  <2>1. i + 1 \in 1..N /\ (i + 1) - 1 = i /\ i <= N
    BY <1>1
  <2> QED
    BY <1>5, <1>7, <2>1
<1>8. N \in Good
  <2> HIDE DEF Good
  <2> QED
    BY <1>1, <1>6, <1>7, SetInduction
<1>9. R[Len(bytes)] = Once!Whole(name)
  BY <1>1, <1>2, <1>4, <1>8
<1> QED
  BY <1>9 DEF Once!FromUtf8, Once!Whole, R, bytes

---------------------------------------------------------------------------
(* No byte of a name is NUL, and the padding ends where the name does.      *)
LEMMA PaddingCut ==
    ASSUME MaxNameLen \in Nat, NEW bytes \in Seq(Byte), Len(bytes) <= MaxNameLen,
           NEW stored \in Once!Stored(bytes)
    PROVE  Once!Cut(stored) = bytes
<1> DEFINE L == Len(bytes)
           pad == [i \in 1..(MaxNameLen - L) |-> 0]
           Zeros == {i \in 1..Len(stored) : stored[i] = 0}
<1>1. L \in Nat /\ \A i \in 1..L : bytes[i] \in Int /\ bytes[i] # 0
  <2>1. L \in Nat
    OBVIOUS
  <2>2. \A i \in 1..L : bytes[i] \in Byte
    BY ElementOfSeq
  <2>3. \A b \in Byte : b \in Int /\ b # 0
    BY DEF Byte
  <2> HIDE DEF L
  <2> QED
    BY <2>1, <2>2, <2>3
<1>2. CASE stored = bytes
  <2>1. ~Once!Contains(stored, 0)
    BY <1>1, <1>2 DEF Once!Contains
  <2> QED
    BY <1>2, <2>1 DEF Once!Cut
<1>3. CASE L < MaxNameLen /\ stored = bytes \o pad
  <2>1. pad \in Seq(Int) /\ Len(pad) = MaxNameLen - L /\ pad[1] = 0
    BY <1>1, <1>3
  <2>2. bytes \in Seq(Int)
    <3>1. bytes \in [1..Len(bytes) -> Int]
      BY <1>1
    <3> QED
      BY <1>1, <3>1
  <2> HIDE DEF pad
  <2>3. /\ stored \in Seq(Int) /\ Len(stored) = MaxNameLen
        /\ \A i \in 1..L : stored[i] = bytes[i]
        /\ stored[L + 1] = 0
    <3>1. /\ Len(stored) = L + Len(pad) /\ stored \in Seq(Int)
          /\ \A i \in 1..L + Len(pad) :
               stored[i] = IF i <= L THEN bytes[i] ELSE pad[i - L]
      BY <1>3, <2>1, <2>2, ConcatProperties
    <3>2. L + 1 \in 1..L + Len(pad) /\ ~(L + 1 <= L) /\ (L + 1) - L = 1
      BY <1>1, <1>3, <2>1
    <3>3. \A i \in 1..L : i \in 1..L + Len(pad) /\ i <= L
      BY <1>1, <1>3, <2>1
    <3> HIDE DEF L
    <3> QED
      BY <1>1, <2>1, <3>1, <3>2, <3>3
  <2>4. L + 1 \in Zeros /\ \A i \in Zeros : L + 1 <= i
    BY <1>1, <1>3, <2>3
  <2>5. Zeros \subseteq Int
    BY <2>3
  <2>6. Once!Min(Zeros) = L + 1
    <3> DEFINE First(x) == \A y \in Zeros : x <= y
    <3> HIDE DEF Zeros
    <3>1. Once!Min(Zeros) = CHOOSE x \in Zeros : First(x)
      BY Zenon DEF Once!Min
    <3>2. L + 1 \in Zeros /\ First(L + 1)
      BY <2>4
    <3>3. \A x, y \in Zeros : First(x) /\ First(y) => x = y
      BY <2>5
    <3> HIDE DEF First
    <3>4. Once!Min(Zeros) \in Zeros /\ First(Once!Min(Zeros))
      BY <3>1, <3>2, Zenon
    <3> QED
      BY <3>2, <3>3, <3>4
  <2>7. Once!SelectInSeq(stored, LAMBDA b : b = 0) = L + 1
    <3> HIDE DEF Zeros
    <3>1. Once!SelectInSeq(stored, LAMBDA b : b = 0) = IF Zeros # {} THEN Once!Min(Zeros) ELSE 0
      BY Zenon DEF Once!SelectInSeq, Zeros
    <3> QED
      BY <2>4, <2>6, <3>1
  <2>8. Once!Contains(stored, 0)
    BY <1>1, <1>3, <2>3 DEF Once!Contains
  <2>9. Once!Cut(stored) = SubSeq(stored, 1, L)
    BY <1>1, <2>7, <2>8 DEF Once!Cut, Once!Before
  <2>10. SubSeq(stored, 1, L) = bytes
    <3>1. SubSeq(stored, 1, L) = SubSeq(bytes, 1, L)
      BY <1>1, <2>3
    <3> QED
      BY <3>1, SubSeqFull
  <2> QED
    BY <2>9, <2>10
<1>4. CASE L >= MaxNameLen
  <2>1. L = MaxNameLen
    BY <1>1, <1>4
  <2>2. SubSeq(bytes, 1, L) = bytes
    BY SubSeqFull
  <2> HIDE DEF L
  <2>3. stored \in {SubSeq(bytes, 1, MaxNameLen)}
    BY <1>4, Zenon DEF Once!Stored, L
  <2> QED
    BY <1>2, <2>1, <2>2, <2>3
<1>5. CASE L < MaxNameLen
  <2>1. ~(L >= MaxNameLen)
    BY <1>1, <1>5
  <2>2. stored \in {bytes, bytes \o pad}
    <3> HIDE DEF L
    <3> QED
      BY <2>1, Zenon DEF Once!Stored, L
  <2> QED
    BY <1>2, <1>3, <1>5, <2>2
<1> QED
  BY <1>1, <1>4, <1>5

(* A set of positions that is not empty has a last one.                     *)
LEMMA LastOf ==
    ASSUME NEW N \in Nat, NEW S \in SUBSET (1..N), S # {}
    PROVE  Once!Max(S) \in S /\ \A i \in S : i <= Once!Max(S)
<1> DEFINE HasLast(T) == \E m \in T : \A i \in T : m >= i
           Good == {n \in Nat : \A T \in SUBSET (1..n) : T # {} => HasLast(T)}
<1>1. 0 \in Good
  <2>1. 1..0 = {}
    OBVIOUS
  <2>2. \A T \in SUBSET {} : T = {}
    OBVIOUS
  <2> HIDE DEF HasLast
  <2> QED
    BY <2>1, <2>2, Zenon
<1>2. ASSUME NEW n \in Nat, n \in Good PROVE n + 1 \in Good
  <2> SUFFICES ASSUME NEW T \in SUBSET (1..(n + 1)), T # {} PROVE HasLast(T)
    OBVIOUS
  <2>1. CASE n + 1 \in T
    BY <2>1
  <2>2. CASE n + 1 \notin T
    <3>1. T \in SUBSET (1..n)
      BY <2>2
    <3> QED
      BY <1>2, <3>1
  <2> QED
    BY <2>1, <2>2
<1>3. HasLast(S)
  <2>1. N \in Good
    <3> HIDE DEF Good
    <3> QED
      BY <1>1, <1>2, SetInduction
  <2> QED
    BY <2>1
<1>4. Once!Max(S) \in S /\ \A i \in S : Once!Max(S) >= i
  BY <1>3, Zenon DEF Once!Max
<1> QED
  BY <1>4

(* Only white space is taken from the end of a text, and all of it.         *)
LEMMA Trimmed ==
    ASSUME NEW text \in Seq(Int)
    PROVE  \E n \in 0..Len(text) :
             /\ Once!TrimEnd(text) = SubSeq(text, 1, n)
             /\ Len(SubSeq(text, 1, n)) = n
             /\ \A i \in (n + 1)..Len(text) : text[i] \in Once!White
             /\ n > 0 => text[n] \notin Once!White
<1> DEFINE Kept == {i \in 1..Len(text) : text[i] \notin Once!White}
           last == IF Kept # {} THEN Once!Max(Kept) ELSE 0
<1>1. Once!TrimEnd(text) = SubSeq(text, 1, last)
  BY Zenon DEF Once!TrimEnd, Once!SelectLastInSeq
<1>2. /\ last \in 0..Len(text)
      /\ \A i \in (last + 1)..Len(text) : text[i] \in Once!White
      /\ last > 0 => text[last] \notin Once!White
  <2>1. CASE Kept = {}
    BY <2>1
  <2>2. CASE Kept # {}
    <3>1. Len(text) \in Nat /\ Kept \in SUBSET (1..Len(text))
      OBVIOUS
    <3>2. Once!Max(Kept) \in Kept /\ \A i \in Kept : i <= Once!Max(Kept)
      <4> HIDE DEF Kept
      <4> QED
        BY <2>2, <3>1, LastOf
    <3>3. last = Once!Max(Kept)
      <4> HIDE DEF Kept
      <4> QED
        BY <2>2
    <3> HIDE DEF last
    <3>4. last \in 1..Len(text) /\ text[last] \notin Once!White
      BY <3>2, <3>3
    <3>5. ASSUME NEW i \in (last + 1)..Len(text) PROVE text[i] \in Once!White
      <4>1. i \in 1..Len(text) /\ ~(i <= last)
        BY <3>1, <3>4
      <4>2. i \notin Kept
        <5> HIDE DEF Kept
        <5> QED
          BY <3>2, <3>3, <4>1
      <4> QED
        BY <4>1, <4>2
    <3> QED
      BY <3>4, <3>5
  <2> QED
    BY <2>1, <2>2
<1> HIDE DEF last
<1>3. Len(SubSeq(text, 1, last)) = last
  BY <1>2
<1> QED
  BY <1>1, <1>2, <1>3

(* A name that fits comes back but for the white space at its end, whether  *)
(* the device pads it with NULs or not.                                     *)
LEMMA NameDecoded ==
    ASSUME MaxNameLen \in Nat, NEW name \in Seq(Character), Once!NameFits(name),
           NEW stored \in Once!Stored(Once!Utf8(name))
    PROVE  Once!DecodeString(stored) = Once!TrimEnd(name)
<1>1. Once!Utf8(name) \in Seq(Byte)
  <2>1. Len(name) \in 0..Len(name)
    OBVIOUS
  <2> QED
    BY <2>1, EncodingIs DEF Once!Utf8, Encodes
<1>2. Once!Cut(stored) = Once!Utf8(name)
  BY <1>1, PaddingCut DEF Once!NameFits
<1>3. Once!FromUtf8(Once!Cut(stored)) = name
  BY <1>2, NameRead
<1>4. name # Once!Utf8Error
  <2>1. Once!Utf8Error[1] = -1 /\ Len(Once!Utf8Error) = 1
    BY DEF Once!Utf8Error
  <2>2. Len(name) = 1 => name[1] \in Character
    BY ElementOfSeq
  <2>3. -1 \notin Character
    BY DEF Character
  <2> QED
    BY <2>1, <2>2, <2>3
<1> QED
  BY <1>3, <1>4 DEF Once!DecodeString

(* The name in the device is one the client wrote, after it was checked     *)
(* against the device's field.                                              *)
NameInv ==
    /\ named \in Seq(Character)
    /\ Once!NameFits(named)
    /\ userString \in Once!Stored(Once!Utf8(named))

(* A device that has not been given a name keeps none.                      *)
LEMMA NoNameFits ==
    /\ Once!NameFits(<< >>)
    /\ << >> \in Once!Stored(Once!Utf8(<< >>))
<1>1. << >> \in Seq(Character) /\ Len(<< >>) = 0
  OBVIOUS
<1>2. Once!Utf8(<< >>) = << >>
  BY <1>1, EncodingIs DEF Once!Utf8, Encodes
<1>3. Once!NameFits(<< >>)
  BY <1>2, NamesAssumption DEF Once!NameFits
<1>4. << >> \in Once!Stored(<< >>)
  <2>1. CASE MaxNameLen > 0
    BY <2>1, NamesAssumption DEF Once!Stored
  <2>2. CASE MaxNameLen = 0
    BY <2>2, SubSeqEmpty DEF Once!Stored
  <2> QED
    BY <2>1, <2>2, NamesAssumption
<1> QED
  BY <1>2, <1>3, <1>4

(* Only set_name changes the name, to one that was asked for and fits.      *)
LEMMA OnceKeepsName ==
    ASSUME NameInv, Once!Next
    PROVE  NameInv'
<1>1. CASE UNCHANGED Once!name
  BY <1>1 DEF NameInv, Once!name
<1>2. CASE Once!Written
  <2>1. CASE UNCHANGED Once!name
    BY <1>1, <2>1
  <2>2. ASSUME NEW n \in Names, Once!NameFits(n),
               userString' \in Once!Stored(Once!Utf8(n)), named' = n
        PROVE  NameInv'
    <3>1. n \in Seq(Character)
      BY NamesAssumption DEF Character
    <3> QED
      BY <2>2, <3>1 DEF NameInv
  <2> QED
    BY <1>2, <2>1, <2>2 DEF Once!Written
<1> USE DEF Once!Calls, Once!Fails, Once!Panics, Once!LeaveLoop
<1>3. CASE Once!Write \/ Once!WriteCommandFails
  BY <1>1, <1>2, <1>3 DEF Once!Write, Once!WriteCommandFails
<1>4. CASE Once!Again \/ Once!Connect \/ Once!ConnectFails \/ Once!ReadInfo
           \/ Once!InfoFails \/ Once!InfoDone
  BY <1>1, <1>4
  DEF Once!Again, Once!Connect, Once!ConnectFails, Once!ReadInfo, Once!InfoFails,
      Once!InfoDone
<1>5. CASE Once!Open \/ Once!SubscribeBinary \/ Once!SubscribeAscii \/ Once!CreateFile
           \/ Once!PrepareFails \/ Once!Notify \/ Once!LinkLost
  BY <1>1, <1>5
  DEF Once!Open, Once!SubscribeBinary, Once!SubscribeAscii, Once!CreateFile,
      Once!PrepareFails, Once!Notify, Once!LinkLost
<1>6. CASE Once!NextLine \/ Once!CaptureLine \/ Once!WriteFails \/ Once!EndOfStream
           \/ Once!Listen \/ Once!Interrupt
  BY <1>1, <1>6
  DEF Once!NextLine, Once!CaptureLine, Once!WriteFails, Once!EndOfStream, Once!Listen,
      Once!Interrupt
<1>7. CASE Once!Flush \/ Once!FlushFails \/ Once!Release \/ Once!Closed \/ Once!Killed
  BY <1>1, <1>7
  DEF Once!Flush, Once!FlushFails, Once!Release, Once!Closed, Once!Killed
<1> QED
  BY <1>3, <1>4, <1>5, <1>6, <1>7 DEF Once!Next

(* The reconnecting stream, doctor and scan leave the name alone.           *)
LEMMA NameInvHolds == MainSpec => []NameInv
<1>1. MainInit => NameInv
  <2> SUFFICES ASSUME MainInit PROVE NameInv
    OBVIOUS
  <2>1. named = << >> /\ userString = << >>
    BY DEF MainInit, Once!Init
  <2> QED
    BY <2>1, NoNameFits DEF NameInv
<1>2. NameInv /\ [MainNext]_mainVars => NameInv'
  <2> SUFFICES ASSUME NameInv, [MainNext]_mainVars PROVE NameInv'
    OBVIOUS
  <2>1. CASE UNCHANGED onceVars
    BY <2>1 DEF NameInv, onceVars
  <2>2. CASE Once!Next
    BY <2>2, OnceKeepsName
  <2> QED
    BY <2>1, <2>2 DEF MainNext, Look, mainVars
<1> QED
  BY <1>1, <1>2, PTL DEF MainSpec

(* Every name set_name accepts, of any length the field takes and in one or *)
(* two bytes a character, is read back whole but for the white space at its *)
(* end: from_utf8 finds where each character ends, the NUL padding is cut   *)
(* and nothing else is, and the length check counts what is written.        *)
THEOREM NamesReadBack == MainSpec => []NameReadsBack
<1>1. NameInv => NameReadsBack
  <2> SUFFICES ASSUME NameInv PROVE NameReadsBack
    OBVIOUS
  <2> DEFINE read == Once!DecodeString(userString)
             white == {i \in DOMAIN named : named[i] \in Once!White}
  <2>1. read = Once!TrimEnd(named)
    BY NameDecoded, NamesAssumption DEF NameInv
  <2>2. named \in Seq(Int)
    <3>1. /\ \A i \in 1..Len(named) : named[i] \in Character
          /\ named \in [1..Len(named) -> Character] /\ Len(named) \in Nat
      BY DEF NameInv
    <3>2. Character \subseteq Int
      BY DEF Character
    <3> HIDE DEF Character
    <3>3. named \in [1..Len(named) -> Int]
      BY <3>1, <3>2
    <3> QED
      BY <3>1, <3>3
  <2>3. PICK n \in 0..Len(named) :
          /\ Once!TrimEnd(named) = SubSeq(named, 1, n)
          /\ Len(SubSeq(named, 1, n)) = n
          /\ \A i \in (n + 1)..Len(named) : named[i] \in Once!White
          /\ n > 0 => named[n] \notin Once!White
    BY <2>2, Trimmed
  <2> HIDE DEF read
  <2>4. Len(read) = n /\ read = SubSeq(named, 1, n)
    BY <2>1, <2>3
  <2>5. DOMAIN named = 1..Len(named) /\ Len(named) \in Nat
    BY <2>2
  <2>6. (n + 1)..Len(named) \subseteq white
    BY <2>3, <2>5
  <2>7. n \notin white
    BY <2>3, <2>5
  <2> HIDE DEF white
  <2>8. /\ read = SubSeq(named, 1, Len(read))
        /\ (Len(read) + 1)..Len(named) \subseteq white
        /\ Len(read) \notin white
    BY <2>4, <2>6, <2>7
  <2> QED
    BY <2>8, Zenon DEF NameReadsBack, read, white
<1> QED
  BY <1>1, NameInvHolds, PTL
=============================================================================
