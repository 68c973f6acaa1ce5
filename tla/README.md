# TLA+ models of fluke-connect-client

A verification development for the `fluke-connect-client` crate: models of its
reconnecting supervisor, its connect and discovery logic, its notification
streams, its two reading formats and its command line; TLC configurations that
check them on small instances; and proofs, checked by TLAPS, of what matters most
for every value of the constants. Paths below are relative to the repository's
directory (`src/` of this checkout holds it, so `src/reconnect.rs` is
`src/src/reconnect.rs` in PROJECT.json).

## 1. The system

The crate talks to Fluke Connect meters over Bluetooth Low Energy. Everything runs
on Tokio; the Bluetooth stack is behind `btleplug`.

| Part | Code | State it keeps | Operations | Interacts with |
|---|---|---|---|---|
| Reconnecting supervisor | `src/reconnect.rs` `Reconnecting`, `Runner`, `StopHandle` | connect target, attempt on it, consecutive failures, the session (device, idle watchdog), the event channel, the stop flag | find, connect, open, next item, emit, sleep, disconnect; stop; poll; drop | a `Connector` and a `Source` (awaited calls), a consumer (bounded channel), a stop handle (watch channel), the abort of its task |
| Retry backoff | `ReconnectPolicy::backoff` | none | delay of the n-th retry | called by the supervisor |
| Connecting | `src/backend/mod.rs` `connect_with_timeout`, `ConnectGuard` | armed or not, per call | connect, discover services, disconnect; dropped at any await | the operating system's connection, which is shared by all callers |
| Discovery loops | `scan_until`, `watch_until`, `collect` | seen identifiers, results, deadline | subscribe to events, stop, start, describe, stop | one scan per adapter, shared with a host and other searches; a broadcast that drops what a slow reader misses |
| Reconnecting stream of an adapter | `Adapter::stream_with_reconnect`, `AddressConnector` | what its parts keep | find is a search, connect is a call into the adapter | supervisor, discovery, connecting |
| Client subscriptions | `src/client.rs` `measurements`, `readings`, `ascii_readings`, `battery_updates`; `BtleplugTransport` | `binary_locked`; the transport's notification stream, the central's events | open, watch, subscribe, decode, end with the link | the device, the transport, the central's broadcast |
| Client reads and writes | `src/client.rs` `device_info`, getters, setters, `decode_string` | none; the device keeps what is written | one call each | the device's characteristics |
| Binary record | `src/protocol/{reading,enums,notification}.rs` | none | decode 8 or 16 bytes, scale, print | the record's layout in the device |
| ASCII text | `src/protocol/ascii.rs` | none | trim, classify, parse, print | the text's layout in the device |
| Measurement | `src/protocol/measurement.rs` | none | state, value, print of either format | both formats |
| Command line: `main` | `src/bin/fluke-connect.rs` `main`, `doctor`, `scan` | none | choose one of the three ways below | - |
| Command line: `stream --reconnect` | `stream_reconnect` | readings seen, stop flag | discover, print, stop at count, deadline or Ctrl-C, drain | the supervisor's stream, standard output, signals |
| Command line: connect once | `run`, `connect`, `info`, `stream`, `dump` | readings seen, the file, the device held | connect, read, write, print or capture, release | the client, standard output, signals |
| The `Transport` trait, errors and UUIDs, text and JSON formatting | `src/transport.rs`, ... | none | - | - |

What is hard in this code, and what must hold (PROJECT.json lists each hazard at
its line, with the properties that would catch it):

* **Races with stop and drop.** A stop may come while a connect completes, while
  the event channel is full, or while the link is being closed. It must be seen, it
  must not leave a device connected, and it must not cause two disconnects. A drop
  aborts a task that may be running on another thread at that moment.
* **Stale targets.** A target that has produced a connection must not be reused:
  every reconnection starts with a scan.
* **Failure counting.** Failures saturate, are compared with a budget, and are
  reset only by a session that opened.
* **Cancelled futures.** A connect or a search dropped in the middle of a call must
  not leave the system holding a connection, nor make the next scan fail. What an
  abandoned call leaves behind, a disconnect in flight, may arrive in a later session.
* **Ordering.** Notifications that arrive while subscriptions are being made;
  advertisements heard before `start_scan` has returned; the disconnect event
  against the notifications still buffered.
* **A lossy broadcast.** The central's events are kept to a depth: a stream that is
  not polled can lose the one event that would end it.
* **Two decoders for one display.** The record and the text of a display are
  decoded by different code, with different tables, and documented to agree.
* **Ways out of the command line.** The link must be released on each of them.
* **Bytes and characters.** A name is limited in bytes, padded by the device and
  decoded as UTF-8: it must come back whole.

## 2. The modules

```
EventStream <--refines-- Reconnect -- ReconnectProofs
   ^                        ^
   |                        +-- DeviceStream -- DeviceStreamProofs
   |                              |-- INSTANCE BackendConnect -- BackendConnectProofs
   |                              '-- INSTANCE Discovery -- MCDiscovery, DiscoveryProofs
   +-- CliReconnect
          ^-- CommandLine -- MCCommandLine, CommandLineProofs
                 '-- INSTANCE CliDevice -- DeviceStrings
Subscription -- SubscriptionProofs
Backoff -- MCBackoff, BackoffProofs
ReadingRecord
   ^-- AsciiDisplay <-- Measurement <--+
   ^-- RecordLayout <------------------+-- MeterDisplay -- MCMeterDisplay, MeterDisplayProofs
```

**EventStream** is the abstract promise of a reconnecting stream: the phases it goes
through, which event may follow which, the failure count each carries, and
first-in-first-out delivery through a channel of bounded capacity. It knows nothing
of targets, links, polls, stop flags or disconnects. It is used twice: `Reconnect`
is shown to implement it, and `CliReconnect` is built on it, so the command line is
checked against any stream that keeps the promise.

**Reconnect** is the supervisor over any connector. `pc` is the await the task is
suspended in (`find`, `connect`, `open`, `next`, `emit`, `sleep`, and the three
places that disconnect) and `poll` says what its current poll does next:
`unless_stopped` is a biased select, which looks at the stop flag ("stop") and polls
the work second ("work"). A poll that gets nowhere is "parked" until the task is
woken. Splitting a poll in two lets the other threads act between the look at the
flag and the work, which is where the races are. `FindOk`, `FindNone` and `FindErr`
are the outcomes of `find`; `ConnectOk`, `ConnectErr` those of one attempt; `OpenOk`,
`OpenErr`, `NextItem`, `NextEnded` and `NextIdle` those of `session` and `next_item`;
`Send` and `SendClosed` those of `emit`, after which `AfterSend` says where the code
resumes; `SeeStop` is the stop arm, with `Leave` for what `run` does on the way out;
`Unsent` is the one exit that a stop or a closed channel does not decide: with the
budget spent, the stream has given up even if nobody hears of it.
`CloseFailed`, `CloseIdle`, `CloseExit` end the three disconnects. `Abort` and
`CloseReceiver` are the two steps of a drop (the task is aborted first, the
receiver goes second), and `Cancel` is the abort taking effect at the next await.
`target` keeps only what matters about it: there is none, it is fresh, or it is
spent by a connection. `late`, `disc`, `link` and `exit` are history or environment,
read by properties.

**BackendConnect** has one program counter per caller of `connect_with_timeout`, and
the one connection the system holds for the peripheral: idle, connecting or up.
`Attempt` asks for it; `OsConnects` may complete it at any time, also for a caller
that is gone. `AttemptFails` is either call failing or the timeout around both;
`DropCall` drops the future at any await, with what `ConnectGuard::drop` does:
spawn a disconnect when there is a runtime. A caller that has its device disconnects
it (`Disconnect`), gives up on that disconnect half-way (`DropDisconnect`) or drops
the device without one (`Forget`). `pending` are disconnects nobody waits for.
`excused` records that a disconnect failed, could not be spawned, or was never asked
for by the device's last user.

**Discovery** has one program counter per search. Owned searches run `scan_until`
(subscribe, stop, start, collect, stop); passive ones `watch_until`. `ForgetFails` is
`clear_peripherals` failing ahead of the search, as `AddressConnector::find` makes it.
`StartScan` is the scan taking effect, `Started` the call returning: between the two,
advertisements are already heard. `Accept` gives each search what ends it: nothing
(`scan`), any device (`*_first`) or one (`*_by_address`); `Returned` is what such a
search then answers. An event of the central's is the peripheral that its advertisement
concerns, or nobody (`CentralEvents`): `Advertise` and `OtherEvent` put one in every
subscriber's buffer (`Broadcast`), where one that lags loses its oldest (external), and
`Take` passes over what is no advertisement. `owed` is history: what a
search has heard and not yet reported. `alone` is history too: no host has touched
the scan, and no `stop_scan` has failed.

**DeviceStream** composes the three: it extends `Reconnect` and instantiates
`BackendConnect` with the stream as its only caller, and `Discovery` with the stream
as its only search. A step is a step of all parts the code moves together within one
await: `Finding` is the search's step, with `Answers` choosing the outcome of `find`
when the search rests; `Calling`, `Connected` and `NotConnected` are those of the
call; `SessionCloses` is `disconnect_quietly`, which answers or is given up on after
five seconds. A stop or an abort drops the search or the call where it stands
(`StopSeen`, `Cancelled`). The session's link is the system's connection
(`LinkFollows`), so a disconnect left behind by an abandoned attempt or by a close
that timed out may cut a later session. Outside: the device advertises while it is not
connected, its advertisements are all that the adapter broadcasts to the search, and
nobody else uses adapter or device.

**Subscription** is one of the four subscriptions, chosen at the start, on a device
with any set of characteristics. `Open` and `Watch` are the two streams the transport
makes, the peripheral's notifications first, the central's events second; what arrives
before either exists is lost to it. `Broadcast` keeps the central's events to
`Depth` (external) and drops the oldest. `Poll` looks at the events first, as
`take_until` does, and then takes a notification; `End` is our disconnect among the
events. The model decides what a stream owes from `sent`, all the device ever sent.

**CliReconnect** is the loop of `stream --reconnect`, with its ways out: count,
deadline, Ctrl-C, write error, `GaveUp`, end of the stream; a closed standard error,
on which `eprintln!` panics; and Ctrl-C before the loop first polls for it, which
nothing handles and which kills the process.

**CliDevice** is every command that connects once. `step` is where the command is:
`info` reads one answer after the other, the first five of which (`device_info`) must
not fail; the writing commands make one call; `stream` opens its source; `dump`
opens the notifications, subscribes, creates its file, and flushes it at the end.
`Fails` is the `?` of any step, `Return` the way back to `main`, `Release` the
disconnect there, which the device may refuse: `main` warns of that and goes on. What is
printed may find its output closed, and panic: at any step of `Closed`, at the message
that the device is connected (`Connect`), at the answer to a write and at the warning.
`Again` runs the program again on the same device, which keeps its name, and which does
not advertise when the earlier run left it connected or could not disconnect it.

**DeviceStrings** is what `set_name` accepts and `decode_string` makes of the bytes
read back: UTF-8 encoding, character by character (`Encoding`), and decoding, byte by
byte (`ReadByte`, `Reading`), the cut at the first zero byte, trailing white space. The
field in the device (external) keeps the first bytes, and may pad them with NULs.

**CommandLine** is `main`: a run of `doctor` or `scan`, which hold no device and
return, the reconnecting loop, or the commands that connect once. The two loops share
their counters, and with them the promise about `--count`.

**ReadingRecord**, **AsciiDisplay** and **Measurement** are the decoders as operators.
Records are bytes, taken apart bit by bit as the shifts and masks do; enumerations
are their wire codes; a number is an exact decimal, `coefficient * 10^exponent`,
with "not finite" standing for NaN. A text comes framed by its format byte or bare, and
is rejected for its length, its format or a byte that is not ASCII. Its tokens come
trimmed, `Absent` when nothing is left; its digits are read from the left, of which
there are at most six. **RecordLayout** is the device's side: it joins fields into the
two words of the layout table, and splits each word into its bytes. **MeterDisplay** has a meter show something and notify it in both formats; the properties compare what is
decoded.

**Backoff** is `ReconnectPolicy::backoff`: the doubling factor, the product, the
division into milliseconds and the roll, each saturating at a width of its own.
`Power` is the recursive function 2^n.

## 3. The runs

| Run | Checks | Instance |
|---|---|---|
| `reconnect_budget` | `TypeOK`, `FreshTarget`, `SingleDisconnect`, `NoOrphanLink`, `FailureBudget`, `OneEventAfterStop`, `StreamPromise`, `StreamsOrEnds` | channel of 2, 2 connect attempts per scan, budget 3, counter up to 4, idle timeout, a device to begin with |
| `reconnect_drop` | `DropNeverDisconnects`, **violated** | channel of 1, 1 attempt |
| `connect` | `TypeOK`, `NothingHeld`, `LetGo`, `CallEnds` | 3 callers, at most 2 disconnects in flight |
| `discovery` | `TypeOK`, `FoundOnce`, `NothingMissed`, `ScanRunsInWindow`, `StartAccepted`, `NoScanLeft`, `SearchEnds` | an owned and a passive search, a search of its own for one of 2 devices beside a passive one for either, event buffer of 2 |
| `device_stream` | `Agreement`, `NothingLeftBehind`, `NoScanWhileConnecting`, `ReleasedWhenAsked`, `Reconnects` | channel of 1, `connect_attempts_per_scan = 0`, no budget, idle timeout, counter saturating at 1, a device to begin with, at most 1 disconnect in flight |
| `subscription` | `TypeOK`, `Complete`, `ListensToAll`, `EndsWithLink` | 4 notifications, every set of characteristics, every subscription, broadcast of depth 2 with 1 other event |
| `subscription_lag` | `EndsWithLink`, **violated** | 1 notification, depth 2, 2 other events |
| `display` | `AgreeOnValue`, `AgreeOnState`, `AgreeOnDisplay`, `FieldsSurvive` | 5 counts of one to four digits, 0 to 4 decimals, every prefix and unit both formats have, the other fields and marks all off or all at their ends, second display missing, unused or in use, text framed, bare or malformed |
| `display_parity` | `Parity`, **violated** | a dashed display |
| `backoff` | `DelayBounded`, `NeverHammers` | factor up to 7, durations up to 40 ticks, 3 ticks to the millisecond, 12 milliseconds at most, 6 retries |
| `command_line` | `NeverOvershoots`, `LoopReleases`, `ReleasedOnExit`, `NameReadsBack`, `StopEnds`, `EndsWithLink` | every command, `--count 2`, channel of 3, budget 2, writes that may fail, 2 notifications buffered, a name field of 3 bytes and names of up to 2 characters of one or two bytes |
| `command_line_release` | `AlwaysReleases`, **violated** | the same |

Why the bounds are enough. The supervisor's channel needs one place to be full and two
for order to matter; `reconnect_budget` has two, `device_stream`, which asks nothing
about order, one. Two attempts per scan distinguish a first and a last one; zero is
the configured value the code turns into one. The budget of 3 exceeds the attempts of
one scan, so it is spent across scans, and the counter saturates one above it. In
`connect` a third caller can connect while a second is releasing and the disconnect of
a first is in flight. In `device_stream` one disconnect in flight is enough to cut the
session after the one it was meant for; with one device there is one advertisement to
hear. In `discovery` two devices and two places let a search lag, behind advertisements
or behind other events, and let one device be described while the other advertises; a host's `HostToggles` does to the
scan whatever another owned search could. In `subscription` four notifications
are enough for text, record, text and record again, on either side of the second
subscription; the broadcast does not overflow with one other event, and does with
two. In `display` four digits and four decimals fill the six characters of
the text. In `backoff` each width is small enough to saturate within the retries.
In `command_line` more readings than the count fit in channel and buffer; two names of
two-byte characters do not fit in three bytes, and a name that fits is followed by a
shorter one. Sources that end their stream with the link up (`EndsEarly`) are in no
run: the theorems `FreshTargets`, `PromiseKept` and `PartsAgree` hold for them too.
The proofs of section 5 have none of these bounds.

`CHECK_DEADLOCK FALSE` is said where the system may stop: a supervisor, a stream or
a program that has ended; a caller without a runtime; a display decoded on both
sides; the last retry. `discovery` never stops, and says nothing.

## 4. Fairness

* `Reconnect`, `SchedulerFairness`: Tokio polls a woken task, lets a running poll go
  on, and cancels an aborted one; `disconnect_quietly` is bounded by a five-second
  timeout, so each disconnect ends. Nothing is assumed of scan, connect, open, the
  device or the consumer. `StreamsOrEnds` cannot hold with all of them silent and
  names what it assumes in its statement: `Answered` (calls to the environment return
  again and again, timers fire, a lost link is noticed, the consumer polls). The code
  bounds find and connect by timeouts of its own; `Source::open` it does not, which
  is listed as a hazard.
* `DeviceStream`, `DeviceFairness`: the same, in the composition: WF on the task's
  steps; SF on parking, because a poll returns however many answers it finds ready;
  SF on the end of a disconnect; WF on a spawned disconnect, which the runtime runs.
  `ReleasedWhenAsked` rests on this alone: the adapter may never answer again.
  `Reconnects` names `InReach`: the adapter's calls answer, the consumer polls, the
  device advertises while it is not connected, the system completes a connection it is
  asked for, and from some time on none of the listed setbacks (`Setback`: a failed
  call, a window that ends first, a link lost) happens.
* `BackendConnect`: calls into the system return or the timer around them fires, and
  a spawned disconnect runs. A successful connect is not assumed.
* `Discovery`: WF on each call's return, `SF` on the end of the window. When the
  deadline has passed and an event waits, `select!` picks either at random, so a flood
  of advertisements does not win for ever.
* `Subscription`: the consumer polls. That the disconnect event reaches the stream is
  not assumed but modelled, and fails in `subscription_lag`.
* `CommandLine`: the loops poll, the file answers, and the device's disconnect does,
  if with a failure (`Once!Fairness`), and a stopped supervisor ends (`CliFairness`, which is
  `ReleasedWhenAsked`).

## 5. What is proved

Proofs are checked by TLAPS for every value of the constants that satisfies their
assumptions: buffers, the counter and the broadcast's depth at least 1, everything else
a natural number or a Boolean; a finite set of callers; any set of searches, devices
and names. Some assumptions say what the code or the device guarantees: machine words
hold more than nothing (`Backoff`), a name holds no NUL, since a command's argument
cannot (`NamesAssumption`), and the numbers a meter shows fit the bits of the record,
21 for the mantissa and 3 for the decimals (`NumbersAssumption`). That a number also
fits the six characters of the text is a guard of `MeterDisplay`'s `Init`.

| Module | Theorem | States |
|---|---|---|
| `ReconnectProofs` | `TypeCorrect` | `Spec => []TypeOK` |
| | `FreshTargets` | `Spec => []FreshTarget` |
| | `DisconnectsOnce` | `Spec => []SingleDisconnect` |
| | `NoLinkOrphaned` | `~EndsEarly` implies `Spec => []NoOrphanLink` |
| | `BudgetKept` | `Spec => []FailureBudget` |
| | `StopBounds` | `Spec => []OneEventAfterStop` |
| | `PromiseKept` | `Spec => StreamPromise`, the refinement of `EventStream` |
| `BackendConnectProofs` | `TypeCorrect` | `Spec => []TypeOK` |
| | `NoConnectionHeld` | `Spec => []NothingHeld`, for any number of callers |
| `DiscoveryProofs` | `TypeCorrect` | `Spec => []TypeOK` |
| | `FoundOnceHolds` | `Spec => []FoundOnce` |
| | `NothingIsMissed` | `Spec => []NothingMissed` |
| | `ScanRuns` | `Spec => []ScanRunsInWindow` |
| | `ScanStarts` | `Spec => []StartAccepted` |
| | `ScanStops` | `Spec => []NoScanLeft` |
| `DeviceStreamProofs` | `StreamIsReconnect` | `DeviceSpec => Spec` |
| | `StreamKeepsPromise` | `DeviceSpec => StreamPromise` |
| | `StreamIsCaller` | `DeviceSpec => Backend!Spec` |
| | `StreamIsSearch` | `DeviceSpec => Search!Spec` |
| | `LeavesNothing` | `DeviceSpec => []NothingLeftBehind` |
| | `ScansAlone` | `DeviceSpec => []NoScanWhileConnecting` |
| | `PartsAgree` | `DeviceSpec => []Agreement` |
| `SubscriptionProofs` | `TypeCorrect` | `Spec => []TypeOK` |
| | `AllListenedTo` | `Spec => []ListensToAll` |
| | `NothingIsLost` | `Spec => []Complete`, for any run of notifications and events |
| `CommandLineProofs` | `CountKept` | `MainSpec => []NeverOvershoots` |
| | `LoopLetsGo` | `MainSpec => []LoopReleases` |
| | `LinkReleased` | `MainSpec => []ReleasedOnExit` |
| | `LoopKeepsPromise` | `MainSpec => Spec`, of `EventStream` |
| | `NamesReadBack` | `MainSpec => []NameReadsBack` |
| `BackoffProofs` | `DelayWithinPolicy` | `Spec => []DelayBounded` |
| | `CapNeverShrinks` | `Spec => NeverHammers` |
| `MeterDisplayProofs` | `RoundTrip` | what `Pack` packs, `FromArray` decodes, for every field that fits |
| | `ValuesFinite` | no record's value falls off the table of powers of ten |
| | `RenderedSays` | a number rendered in six characters classifies as one, and parses to itself |
| | `DecodedAlways` | `Spec => []Decoded` |
| | `FieldsAlwaysSurvive` | `Spec => []FieldsSurvive` |
| | `StatesAlwaysAgree` | `Spec => []AgreeOnState` |
| | `ValuesAlwaysAgree` | `Spec => []AgreeOnValue` |
| | `DisplaysAlwaysAgree` | `Spec => []AgreeOnDisplay` |

**The supervisor.** None of its invariants is inductive by itself. They are proved
together from

    IInv == TypeOK /\ TargetInv /\ DiscInv /\ LateInv /\ ExitInv /\ LinkInv
            /\ FailureBudget /\ EventInv

`TargetInv` says which target the task holds at each await: `FreshTarget` speaks
only of `connect`, but the target is decided a scan or a report earlier. `DiscInv`
counts the disconnects issued by place: none in a session being opened or streamed,
one while it is being closed. `LateInv` says that once an event has followed a stop,
the next thing the task does is look at the flag. `ExitInv` says that a disconnect is
never raced with the stop flag, and that an ended task takes no step. `EventInv` ties
the event being sent to the failures behind it, which `FailureBudget` and the
refinement need. `LinkInv` is `NoOrphanLink` under its assumption: a source whose
stream ends with the link up makes the supervisor scan again without disconnecting,
as the `Source` trait's contract has it. Each step of the induction is a case per
action (`IInvStep`); the refinement (`RefinedStep`) maps each action to the one step
of `EventStream` it is, or to a stutter.

**Connecting.** `NothingHeld` is inductive with the types: a caller gives
up a connection only with a disconnect issued or spawned.

**Discovery.** For each search (`SearchInv`): what is owed waits in its buffer or is
being described (`Owing`), a device being described is not yet listed (`Describing`),
the list has no device twice, and the device that ends the search only at its end
(`Distinct`), a search that does not listen owes nothing (`Quiet`), and only searches
that own the scan start and stop it (`Owns`). For the scan (`Undisturbed`), with one
owned search and nobody else at the scan: where the search stands says whether the
scan runs. `NoScanLeft` and `StartAccepted` alone do not say why the start that follows
is not refused.

**The composition.** Each step of `DeviceStream` is a step of each part or leaves it
alone; that is what `StreamIsReconnect`, `StreamIsCaller` and `StreamIsSearch` say,
and every theorem about a part then holds of the composition: the stream of a real
adapter keeps `EventStream`'s promise. Three invariants relate the parts. `DeviceInv`
says where search and call are, seen from the supervisor (`Places`), and that a
connection has an owner. `ScanInv` says that no scan runs while the search rests or
before its first start: that a search leaves none behind is not enough, for the next
one may fail ahead of its first stop. `ReachInv` says that a device heard since its
search began, or found and not yet connected to, is not one the supervisor takes for
connected, from which a link taken for up is one the system has. The step lemmas of
`DiscoveryProofs` and `BackendConnectProofs` are instantiated, not proved again.

**Subscriptions.** `SubscribedInv` says what is enabled by the subscriptions made so
far: a characteristic is passed over only when the device does not have it, and only
by `measurements`. `Complete` compares what was yielded with all that was ever sent,
and is not inductive: `StreamInv` adds that the transport's stream is open before
anything is enabled, so that it holds the end of what was sent, notification by
notification, and that `measurements` is locked to records just when it has taken one.

**The command line.** `Counting` says that a reading is counted before it is printed,
and that the loop that counted the last one has left, or has set the stop flag, after
which nothing is printed. `GaveUpIsOver` says that a `GaveUp` still in the channel means a
stream that is over, so that the loop may return on reading it. `HeldInv` says that
nothing is held before connecting but what an earlier run left. That every step takes
of the stream only what `EventStream` grants is `LoopKeepsPromise`.

`NameInv` says that the device holds a padding of the bytes of the name it was last
given, and that these fit. Names are of characters below code point 2048, which UTF-8
writes in one byte or two, and the padding, if any, is NULs. Why they come back is the
lemmas: a character is one byte below 128, or two of which the first is at least 192
(`CharEncoded`); the bytes of the first characters begin those of the name
(`EncodingGrows`); where a character's bytes end, the text read so far ends with it
(`NameRead`); no byte of a name is NUL, so the cut is at the padding (`PaddingCut`); and
nothing but white space is trimmed (`Trimmed`).

**Backoff.** `Rolled` says that the policy never changes and that the delay is a roll
for the retry it is for. The rest is arithmetic that holds of any widths: a factor or a
product that saturates is still no more than the exact one (`CapBounded`), still at
least the one before (`CapGrows`), and rounding down to milliseconds and rolling
shortens only (`RollBounded`). That `Power` is what its equations say, and grows
(`PowerDef`, `PowerGrows`), is proved and not assumed.

**The two formats.** `Decoded` says that each side has decoded nothing yet, an error,
or the record its display's fields pack into and the text that shows it, for a display
that fits (`Shows`). What is decoded is then a matter of two round trips. Of the record:
fields are joined into words and taken apart (`LowSplits`, `HighSplits`), words into
bytes (`BytesJoin`), for every value of every field (`RoundTrip`). Of the text: the
digits of a count, padded to its decimals, with the point put in and the sign in front
(`InsertFacts`, `PlainShape`, `SignedText`), are trimmed to themselves (`TrimJustified`),
classified as a number and read back to the same count (`RenderedSays`). The
agreement of states, values and prints follows by cases over what a meter may show,
with the tables of tokens, prefixes and units compared entry by entry (`NamesSay`).

**Recursion and induction.** The library's induction theorems take an operator as a
parameter and cannot be cited here. `SetInduction` says the same of a set of naturals
and is proved from a well-founded order; `Recursion` proves from it that a recursive
definition has a solution. `Power`, `Encoding` and `Reading` are functions for this
reason, and what they compute is proved for every argument.

Only model-checked is liveness, which rests on fairness and on steps being enabled, of
which the prover knows nothing: `StreamsOrEnds`, `LetGo`, `CallEnds`, `SearchEnds`,
`ReleasedWhenAsked`, `Reconnects`, `EndsWithLink` (of `Subscription` and of the command
line) and `StopEnds`. Every safety property a passing run checks has a theorem.

## 6. Differences between the code and what it says

Four runs show one each (PROJECT.json, "findings"):

* `reconnect_drop`: a dropped stream is documented to leave the device connected. A
  supervisor that is running while it is dropped can find the channel closed before
  the abort takes effect, and disconnect the device.
* `subscription_lag`: a transport's stream must end when the connection is lost. It
  ends on an event of a broadcast that forgets its oldest event: a stream that is not
  polled while enough others are broadcast waits for ever.
* `command_line_release`: `main` is commented to always release the link. A write
  error leaves `stream_reconnect`, and `main` with it, before that point.
* `display_parity`: a record and a text of the same display are documented to agree.
  Dashes are `Normal` without a value in one, `Blank` in the other.

Met while modelling, and not made a run of their own:

* The record prints neither the sign of a zero nor that of an overload, the text does
  (`AgreeOnDisplay` leaves them out).
* `--count 0` prints one reading under `--reconnect` (`NeverOvershoots` is about
  positive counts); the plain `stream` counts notifications it could not read.
* Scan errors are each reported as a first retry, so their delay does not double.
* `println!` and `eprintln!` panic when their output is closed, and Ctrl-C before a
  loop polls for it kills the process: both leave the link up. `ReleasedOnExit` and
  `AlwaysReleases` leave them out: a signal is not one of `main`'s ways out, and what a
  panic does to the comment in `main` is a hazard without a property.
* `main`'s disconnect may fail, which it only warns of: the device may then stay
  connected. `ReleasedOnExit` says that it was asked to let go.
* A source that ends with its link up is taken for a lost link; the ready-made
  sources do not, but for the lag above.

## 7. Abstractions and what is not modelled

* An event's payload, a device's identity and an error's text are left out; a target
  is none, fresh or spent. At most one item waits in a session's stream.
* Durations are order only: timeouts and sleeps may end at any time.
* The peripheral's own notifications are taken to arrive in order and without loss while
  the link is up, and its stream to hold as many as there are (`Subscription`,
  `Notify`): nothing in `src/` bounds or drops them. Lossy is the central's broadcast,
  which `docs/DESIGN.md` calls shallow.
* Names are of characters that UTF-8 writes in one byte or two; three or four would add
  more of the same to the decoding of a lead byte and what follows it. A device pads a
  name with NULs or not at all.
* `DeviceStream` has no events but the device's advertisements in the search's broadcast
  and no host at its scan; `Discovery` has both, and so have the theorems about it.
* Of `clear_peripherals` only a failure is modelled: what the adapter forgets is
  announced again, which is what `Advertise` may always do. Logging and the names and
  symbols of codes have no effect the models tell apart.
* `DeviceStream` leaves out the runtime's shutdown, which takes the task with it, and
  the connector whose search runs no scan, whose parts are `Discovery`'s passive search
  and the same calls. `BackendConnect` and `Discovery` have both.
* `dump`'s file is not modelled beyond the steps that may fail; its counter is a
  message.
* Floating point is exact decimal arithmetic: rounding of a product with a power of
  ten is not modelled.
* The client's reads and writes are an answer or an error to the command that makes
  them; of the values the device keeps, the name is modelled to its bytes. The others
  are written and read as one fixed-width field each, and nothing relates two of them.
  `force_drop` is made by no command.
* Not modelled: the text and JSON that readings, devices and notifications are printed
  as by the command line, `Transport` (an interface), error types, UUIDs, tests,
  examples, CI.

## 8. Plan

1. More of the system: a source that ends with its link up composed with
   `Subscription`, so that a lagging stream, the idle timeout and the supervisor meet;
   the passive connector in `DeviceStream`; a second stream or a host beside the first.
2. More proofs: of `CliDevice`, that what was counted was printed or unreadable; of
   `Reconnect`, what holds of a source that ends early; of `DeviceStream`, the parts'
   own invariants restated for the composition.
