# A verification project for cwdaemon

cwdaemon is a Morse daemon: it receives requests in UDP datagrams, plays texts as
Morse code through libcw, keys a transmitter through a line of a serial or parallel
port, switches the transmitter's PTT, and answers the clients that ask for a reply.
This directory models its logic in TLA+, checks the models with TLC and proves the
properties that matter most with TLAPS.

## 1. Inventory

| Component | State | Operations | Meets |
|---|---|---|---|
| **Keyer** (`cwdaemon.c`: receive, play_request, escape requests 0 4 5 6 a c d h, PTT, reply, tone queue callback) | `ptt_flag`, the PTT pin, PTT delay, word mode, `request_queue`, `reply_buffer`, `reply_addr` | a request; one pass of the text loop; the callback | libcw's queue (calls) and libcw's thread (callback), the device |
| **Keying devices** (`cwdaemon.c`: cwdevice_set, keyingevent, requests 8 b e; `ttys.c`, `lp.c`, `null.c`) | `global_cwdevice`, descriptor and options of each object, claims, the lines of the ports, the registered callback and its argument | probe, free, init; set a line; register; exit handlers | libcw's thread (keying callback), the command line, fork() |
| **Sound** (`cwdaemon.c`: requests 2 3 7 f g, open/close/reset of libcw's output) | `current_*`, `has_audio_output`, the generator's own parameters | set a parameter; change the sound system; reset | libcw |
| **Main loop and socket** (`main()`, `cwdaemon_recvfrom()`, `cwdaemon_sendto()`) | the request's buffer, `inactivity_seconds`, the timeout of `select()`, the address of the last request | wait, receive, cut and strip a datagram, poll the footswitch | the keyer, libcw's keying events, which reset the counter |
| **Start and exit** (`main()`, the options, `fork()`, `exit()`) | defaults and values in force, exit handlers, descriptors, the debug file | an option; each stage of the start; each exit handler; ^C | everything that is opened and closed |
| **Log** (`log.c`) | `cwdaemon_debug_f`, the threshold | where a message goes; open and close the file | start and exit |
| **Delays** (`sleep.c`) | what is left of a delay | sleep, repeat after a signal | the PTT delay of the keyer |
| Help, utilities, tests, examples | none that a later step depends on | | |

What is hard: there are two threads and no lock. libcw's generator thread runs
`cwdaemon_tone_queue_low_callback()` and `cwdaemon_keyingevent()` while the main thread
changes the same flags, pins, buffers and device objects. The PTT pin is set from the
text, from two kinds of requests, from the callback, from a reset and from a footswitch,
and `ptt_flag` must remember why it is on. A reply is prepared in one thread and sent by
the other. The generator can be replaced in the middle of all this, and forgets the
queue, the callbacks and the parameters. `PROJECT.json` lists the hazards one by one with
the properties that are about them.

What makes each part correct:

* keyer: nothing is keyed with PTT off (the code does it, in three ways that are told
  apart); PTT that was switched on ends; a reply is whole,
  goes to the right client after the text, and is sent; a text is played once; abort
  silences; the buffers are large enough;
* devices: the current device is the only one that is open and the one that is keyed; a
  port that is given up has its lines off; no driver meets a port it cannot set, or it is
  known why;
* sound: the generator has the parameters the daemon believes it has; there is always a
  generator or the flag says that there is none;
* main loop: every datagram makes one request or none, in order, with nothing of an
  earlier one; the footswitch is not neglected while something is keyed;
* start and exit: the values in force are those of the command line; whatever `exit()` is
  called by, and wherever, nothing stays open; a resource outlives the thread that uses
  it; a failure is reported to somebody.

## 2. Modules

| Module | Contents |
|---|---|
| `Keyer` | both threads of the keyer, its invariants and liveness properties |
| `KeyerClaims` | claims of documents, comments and assertions that the code does not keep |
| `ReplyService` | abstract specification: what a client that asks for a reply may rely on |
| `PttService` | abstract specification: what the transmitter may rely on |
| `KeyerRefinement` | the refinement mapping: `Keyer` implements `ReplyService` |
| `KeyerRaces` | `Keyer` with a history of what can make PTT wrong; implements `PttService` |
| `CwDevice` | the keying devices, from the command line to exit |
| `Sound` | the sound parameters and the sound system |
| `Lifecycle` | options, the start, `fork()`, `exit()` and its handlers, ^C, the log |
| `Receiver` | the main loop, datagrams, the idle counter, the footswitch |
| `Delays` | `sleep.c`, with its proof |
| `MCKeyer`, `MCKeyerRaces`, `MCCwDevice`, `MCSound`, `MCLifecycle`, `MCReceiver` | values of the constants for TLC |
| `KeyerProofs` | types, buffers, abort and zero delay of `Keyer`, under any schedule |
| `KeyerCoopProofs` | replies, and that `Keyer` implements `ReplyService` |
| `KeyerPttProofs` | PTT around keying, and `PttService`, under any schedule |
| `CwDeviceProofs`, `SoundProofs`, `LifecycleProofs`, `ReceiverProofs` | theorems of those modules |

`Keyer`, `CwDevice` and `Sound` share the code's `ptt_flag` and generator but look at them
from different sides. `Keyer` has one device that cannot fail, with one PTT pin. `CwDevice`
has the real devices and of a text only: PTT on, some keying events, PTT off. `Sound` has
neither. Requests that change nothing a model has are left out of it. `Receiver` ends where
a request is handed over, and knows of it only whether it is played; `Lifecycle` ends where
the main loop begins, and begins again where it is left.

### Keyer

`pc` is where the main thread is, `cb` where the callback is; a step is one access to
shared state. The statements `ptt_flag |= X` and `ptt_flag &= ~X` are a load and a store
(`LoadFlag`, `StoreFlag`, `CbLoadFlag`, `CbStoreFlag`), with `reg` and `cbreg` as the
registers. `cwdaemon_prepare_reply()` is four steps: the ECHO flag, the address, the text
half copied (`Torn`), the text copied. Setting the flags to 0 is a store alone.

| Code | Actions |
|---|---|
| main loop | `Receive`, `SelectTimeout`, `Footswitch` |
| `cwdaemon_play_request()` | `EndOfText`, `Speed`, `Tilde`, `Caret`, `Character`, `Send` |
| `cwdaemon_set_ptt_on()`, `_off()` | `PttOn`, `PttSleep`; `PttOffPin`, `PttOffFlag` |
| `cwdaemon_prepare_reply()` | `LoadFlag`, `StoreFlag`, `ReplyAddr`, `ReplyCopy`, `ReplyCopied` |
| `<ESC>a` | `PttRequest`, `PttRelease` and the updates of the flag |
| `<ESC>d`, `<ESC>c`, `<ESC>6`, `<ESC>5` | `SetDelay`; `Tune`, `TuneTones`; `WordMode`; `Exit` |
| `<ESC>4`, `<ESC>0` | `Abort`, `AbortFlush`, `AbortWait`, `AbortClear`; `Reset`, `ResetReopen` |
| tone queue callback, `cwdaemon_sendto()` | `Cb...` |
| libcw's thread | `NextTone`, `Silence` |

`Preemptive` chooses the scheduling. TRUE is what the operating system may do: any
interleaving. With FALSE the generator's thread runs only while the main thread blocks
(`select()`, the PTT delay, waiting for the queue) and finishes a callback before the main
thread goes on: the schedule one sees when the main thread's work between two blocking
calls is short compared with a tone, which is what the authors had in mind and what no
lock enforces. Properties that hold under TRUE hold always; those of `KeyerCoop`,
`KeyerLive` and `DeviceSwitch` are checked under FALSE, and section 5 says what preemption does.

`asked` is a history variable: the reply that a client still waits for, and which
client it is. It is set where the reply is prepared, reset
when a reply or "break" is sent and by `<ESC>0`, which says that everything is reset.

### KeyerRaces

With preemption, a footswitch and any PTT delay the code does key with PTT off, and does
leave PTT on without a flag. `KeyerRaces` says when. Its history variable `disturbed` is the
set of causes since the keyer was last `Quiet` (no flag, PTT off, nothing keyed, the
main thread between two requests and no callback running):

* `"threads"`: the callback is switching PTT off, or about to store a flag it has loaded,
  while the main thread is where it relies on flag or pin, or is about to store a flag
  (`Overlap`); most places of the two threads are harmless together and no cause;
* `"footswitch"`: the footswitch has moved the pin;
* `"delay"`: the PTT delay is or was zero, at which PTT is not used.

`PttHeld` and `PinMeansFlag` hold when `disturbed` is empty, so they say that there is no
fourth cause, and that the effect of each is over when the keyer is quiet. Each of the three
is needed: without it TLC finds one of the two properties violated.

### CwDevice

Replacing a device is five steps: `Probe` opens the port, `FreePins` and `Close` free the
old object, `InitDevice` initialises the new one, `Register` registers the keying
callback. `pins` are the lines that are on, per port, not per object: they stay when a
port is closed, which is what `UnusedPortsOff` is about. `claimed` holds the parallel
ports that `PPCLAIM` has given to this program. `LoadKeyer` and `KeyingEvent` are separate,
since libcw reads the registration before it makes the call. `Opens` and `Refused` are the
results of the probe: a port is opened if a descriptor is free, and a name that is empty, or a
parallel port whose user is not root, ends `<ESC>8` before the old device is freed.
`Preemptive` has the meaning it has in `Keyer`. `DriverExits` says which steps may end the
program with the driver's `exit(1)`: those where the daemon's claim is lost (`Disowned`), and
those of the generator's thread while the device is replaced (`Caught`).

### Sound

`current` is what cwdaemon keeps; `lib` is the generator's own copy, or says that there is
no generator, or one that did not start. `Set` has no effect without a running generator.

### Lifecycle

The state is kept for the process that is started ("parent") and for the one it forks
("child"); `place` is how far `main()` is. `Argument`, `Help`, `ArgDevice` and `ArgsEnd` read
the command line, an option at a time; `DebugOpen`, `Fork`, `Foreground`, `Detach`,
`CreateSocket`, `BindSocket`, `SetPriority`, `ResetAlmostAll` and `EnterLoop` are the stages,
each of which may fail where the code can. `Exit` is `exit()`: it drops the handler that is
running, and the others are called one by one (`BeginHandler`, `EndHandler`), may fail and
call `exit()` again (`FailHandler`), and may be interrupted by ^C (`CatchSigint`). `broken`
are the handlers that were cut short. `SpeedMin` and `SpeedMax` are libcw's `CW_SPEED_MIN` and
`CW_SPEED_MAX`, which `cwdaemon_params_wpm()` compares with. `outcome` is the status of the
last `exit()`, the place it was called from, and where the failure was reported: the operators
`MessageTo`, `DebugTo` and `ErrmsgTo` are the three ways of `log.c`.

### Receiver

A datagram is a sequence of bytes of five kinds. `Arm` chooses the wait; `LoadInactivity` and
`StoreInactivity` are `inactivity_seconds++`, which a keying event of the generator's thread
can fall between (the history variable `lost` says that the last one did, so that its reset is
undone by the store); `ReceiveData` is `recvfrom()` into a fresh buffer, `Strip` one turn of the
loop that removes line ends, `Handle` the request as the rest of the program sees it, a C
string. `Footswitch` copies the footswitch to the pin, once in a round.

### The services, and how the keyer implements them

`ReplyService` has no threads, flags or buffers: a client that asks waits, the one that asked
last is sent exactly its text, once, when nothing is left to key; or the "break" of an abort;
or a reset makes the daemon forget. `KeyerRefinement` maps `waiting` to `asked`, `keying` to
"a mark is played or queued", and `sent` to what `cwdaemon_sendto()` is given, read from the
reply buffer and the address that the two threads share: a step of the keyer that leaves the
wrong text or address in them when the datagram is sent implements nothing.

`PttService` has the pin and the keying: keys are queued with PTT on only, and PTT is
switched off when no key is left. An accident excuses the daemon, until PTT is off and no key
is left. `KeyerRaces` maps `excused` to "`disturbed` is not empty", and implements it under any
schedule, with a footswitch and at any delay.

## 3. Assumptions about what is not in `src/`

* libcw: `CW_SPEED_MIN` is 4 and `CW_SPEED_MAX` 60 (`escape_codes.txt:53`); the theorems hold
  for any that include the default speed, 24 (`SpeedAssumption`); a character's tones enter
  the queue in one step; the low tone callback is called when the length falls to the
  watermark; a full queue rejects a character or tone; stopping the generator waits for a
  running callback and opens the key through the keying callback; a new generator has no
  callbacks; `cw_set_*()` without a generator does nothing; the Null sound system always
  opens.
* Linux: `ioctl()` on a parallel port that is not claimed fails; opening a serial port may
  raise its lines; `open()` returns the lowest free descriptor.
* C library: `exit()` calls the registered handlers from the last to the first, and takes
  each from its list before it calls it; a handler that calls `exit()` is not resumed, and
  the rest is called (what glibc does; the standard leaves it undefined). ^C is blocked
  while its own handler runs. It is delivered to the main thread.
* The operating system: `open()`, `socket()`, `bind()`, `fork()`, `setsid()`, `setpriority()`
  and the ioctls may fail at any call; what was opened before stays open.
* `nanosleep()` that a signal interrupts says what is left; it refuses only invalid times.
* UDP: `Receive` takes any request of any client at any time, which includes loss, duplication
  and reordering of requests; so does `Send` of `Receiver`, up to `MaxSent`. A lost reply is
  the same as a sent one.

Data is abstracted: a text is a sequence of a few kinds of characters; tones are "mark" or
"space" (one mark and two spaces stand for a character, enough for the watermark to be reached
after the mark); a tune has one tone where the code queues one for each of its ten seconds at
most, and libcw's queue holds thousands, enough for the tune, a character and what the
callback may add while `<ESC>c` empties the queue (`RoomAssumption`); requests with invalid
values, which the code ignores, are left out except where ignoring them changes something
(`<ESC>8`). `"+"` and `"-"` change the speed in `Sound` only. The weighting, 0.6 w + 50 cut to
an integer, is (6w + 500) div 10.

## 4. Runs

Every passing property has a mutant in `PROJECT.json`: a plausible bug of the mapped code
that TLC finds with the same configuration. The operators marked "Mutant" in the modules
are these bugs and belong to no action.

| Run | Question | Properties |
|---|---|---|
| `KeyerThreads` | what no schedule can break | `TypeOK` `RequestQueueIdle` `ZeroDelayNoPtt` `AbortSilences` `ReplyFits` `EchoConsumed` |
| `KeyerCoop` | cooperative schedule, all requests | `ReplyCorrect` `EchoAfterPlaying` `ImplementsReplyService` |
| `KeyerRaces` | PTT and keying in any schedule, with footswitch and all delays | `PttHeld` `PinMeansFlag` `ImplementsPttService` |
| `KeyerLive` | is a reply sent, does automatic PTT end | `ReplyDelivered` `AutoPttReleased` |
| `DeviceSwitch` | files and pins, as root, cooperative schedule | `OneFile` `UnusedPortsOff` `QuietPins` `DriverExits` |
| `DeviceThreads` | an ordinary user, any schedule: registration, files, PTT, what ends the program | `TypeOK` `OneFile` `KeyerAttached` `DriverExits` `PttReleased` |
| `SoundParameters` | parameters against the generator | `TypeOK` `LibcwMatches` `AudioFlag` `FallbackWorks` |
| `LifecycleStart` | options, failures of the start, exit from everywhere | `TypeOK` `Configured` `ResourcesOutliveUsers` `NothingLeft` `DaemonLeavesTerminal` `OnlyDaemonServes` `FailureReported` `Settles` |
| `ReceiverLoop` | datagrams, the idle counter, the footswitch | `TypeOK` `OncePerDatagram` `LongWaitMeansQuiet` `FootswitchFollowed` `DatagramsReceived` |

Three runs check what the repository says and the code does not do; TLC must find each
violated. `KeyerAssert`: `SendtoAssertion`. `KeyerStuck`: `PttOffAfterText`.
`KeyerPttOffReply`: `ReplyDelivered`. Section 5 has the lines.

Restrictions of the passing runs, each for a disagreement of section 5: `KeyerLive` has no
`<ESC>a0` and no `<ESC>d`, which forget a reply, and the cooperative schedule; `DeviceSwitch`
has root's daemon, no name that `<ESC>8` refuses, and the cooperative schedule. What a property
itself leaves out: `PttHeld` and `PinMeansFlag` the three causes of `disturbed`, `DriverExits`
the lost claim and the device in replacement, `KeyerAttached` an `<ESC>8` that is refused,
`PttReleased` an `<ESC>f` in the middle of a text (`Orphaned`), `LongWaitMeansQuiet` a lost
store of the counter, `FailureReported` the opening of the sound system,
`ResourcesOutliveUsers` a ^C within the handler that stops the generator.
`ReceiverLoop` does not check
for deadlock, as the daemon ends when `recvfrom()` fails.

### Bounds

* `MaxRequests`, the requests of one behaviour: 6 in `KeyerCoop` and `KeyerLive`, 4 in
  `KeyerThreads` and `KeyerRaces`, where every interleaving counts, and 4 for the devices. An
  interference needs a text or reply, a request that meets it, and one that shows the damage;
  of section 5 only the sequence with `<ESC>a` and `<ESC>d` needs five.
* Two clients: one whose reply is pending and one that takes its place. They are
  interchangeable in `KeyerCoop` (symmetry; no liveness is checked there). `KeyerThreads`
  and `KeyerRaces` have one, as none of their properties is about who is answered.
* Texts of at most five characters, `RequestSizeMax` 5, `QueueSizeMax` 6: a text with
  reply, one with each special character. The longest text is as long as a request can
  be, so that the reply buffer is filled to its last byte.
* `Capacity` 8: two characters and the two empty tones fit, three characters do not.
* PTT delays 0, 1, 2, and 9, which is clipped; `DelayMax` 2.
* `MaxArgs` 2 or 4 options on the command line, two serial ports and a parallel one, two
  files: a device, the one that replaces it, and a return to the first. `DeviceThreads`
  has three files, as a user who is not root leaks one with each parallel port: a tty and
  two leaks use them up. A text is four
  keying events, two marks; the queue holds two texts and rejects a third. With five
  options, `-d A -o key=RTS -d B -d A -o key=DTR`, `UnusedPortsOff` fails: B is given up when
  DTR is not the device's line, keeps it as the opening of B has left it, and the last option
  makes it the device's; with four there is no such sequence, which section 6 proves.
* `Sound` is finite by its ranges. `Inputs` are the values at and around each limit.
* `Lifecycle`: two options of a command line, so that one can undo the other (`-y` and `-i`, a
  debug file and `-n`); the set has values at a limit, one beyond a limit (for the speed 3, 4,
  60 and 61), and what is no number. The start is then finite. `FlagsSize` 4 stands for 2^32:
  the flags are stored in 32 bits, and a multiple of it is zero.
* `Receiver`: two datagrams, since the buffer could carry something from one to the next;
  `SizeMax` 3, less than the longest datagram; `IdleRounds` 3 for 30, which the counter
  reaches with requests and keying events in between; two keying events for a text.

### Fairness

`FairSpec` of `Keyer` has `WF` for the main thread inside a handler (`Handler`) and `SF` for
the generator's thread (`Generator`): the operating system runs a thread that can run, and
libcw plays what is queued. `SF` matters for the cooperative schedule only, where the
generator's steps are enabled while `select()` blocks and disabled while the footswitch is
polled: each `select()` lasts a second, and the thread gets its turn. There is none for
`Receive`, as no client must send anything, nor for `SelectTimeout`. `FairSpec` of `CwDevice`
has `WF` for the steps of replacing a device, of exit, and of the generator.

`Lifecycle` has `WF` for `Fork` and for the steps of each process: a program that can go on
goes on. Nothing makes it leave the main loop or be interrupted, so that there is none for
`LoopExit` and `CatchSigint`. `Receiver` has `WF` for the main thread outside `select()`; `SF`
for `SelectReady`, as `select()` may fail but does not for ever, and is enabled again each
time; `WF` for the timeout of a second only: no property waits for a day.

## 5. Where code and documents disagree

With a run (and a finding in `PROJECT.json`):

* `socket.c:127` asserts that a reply ends in CRLF; `cwdaemon_prepare_reply()` sets the ECHO
  flag first and copies later, and the callback can send in between (`KeyerAssert`).
* `ptt.txt:113`, PTT is off after a text: not after a text that queues no tone, since PTT is
  switched on for each character before it is tested (`KeyerStuck`).
* The comment at `cwdaemon.c:307`, PTT is not switched off before the reply is sent: the test
  at `cwdaemon.c:2057` has `!` for `~` and is always true, and `<ESC>a0` forgets the reply
  (`KeyerPttOffReply`).

Without a run of their own. Each follows from the actions named, and is the reason for a
restriction, of an exception in a property, or of a hazard with no property:

* `ptt.txt:109`, PTT is on at the beginning of a text: `cwdaemon_set_ptt_on()` finds AUTO set
  just before the callback clears it, and the text is keyed with PTT off: `PttOn`, `CbOffFlag`
  (`KeyerRaces.cfg` shows it if `Overlap` is FALSE).
* The comment at `cwdaemon.c:284`, PTT is turned off when there are no more characters to play:
  not when `<ESC>f` replaces the generator in the middle of a text: `Sound` of `CwDevice`
  (`DeviceThreads.cfg` shows it if `Orphaned` is FALSE).
* With preemption a flag that one thread stores between the load and the store of the other is
  lost: without ECHO there is no reply, without AUTO PTT stays on (`CbLoadFlag`, `CbStoreFlag`,
  `LoadFlag`, `StoreFlag`). The callback that runs between `ReplyAddr` and `ReplyCopy` sends the
  old text to the new client.
* Two caret requests can give a reply with two CRLFs (`cwdaemon.c:1474`: "exactly one"):
  `StoreFlag`, `CbCrlf`.
* `<ESC>h` while a text is played is answered at the end of that text, not of the next
  (`README:187`): `ReplyAddr`, `CbCheckEcho`.
* `<ESC>d0` clears a pending ECHO with the other flags: `SetDelay`, `PttOffFlag`.
* `<ESC>a1`, text, `<ESC>a0` at delay zero set AUTO with the pin off; after `<ESC>d` with
  another delay the next text is keyed without PTT: `PttRelease`, `PttOn`.
* "~e^" is not answered, the caret is skipped with the gap: `Send`. "*" comes back as "+":
  `Character`, `Caret`.
* The footswitch switches PTT off in the middle of a text: `Footswitch`.
* `lp_probe_cwdevice()`'s file stays open when the user is not root: `Probe`.
* `<ESC>8` that is refused, with no value or for a parallel port that the user may not use,
  leaves no keying callback; in the middle of a mark the key stays down: `Device`, `Refused`,
  `UnkeyedEvent`.
* Options of a tty that use a line twice are accepted if another `-d` follows: `ArgsEnd`.
* `<ESC>8` in the middle of a text: the rest is keyed with PTT off: `InitDevice`, `Text`.
* A forked daemon with a parallel port: the parent's exit handlers release the claim that it
  shares with the child, and the first line the daemon sets ends it: `Start`, `SetLines`.
* `<ESC>8` against a keying event, with preemption: a line of an abandoned port stays on, or
  the driver's `exit(1)` ends the daemon: `FreePins`, `Close`, `KeyingEvent`.
* `<ESC>30`, `<ESC>f`, `<ESC>g`: no side tone, the new generator has tone zero: `Sound`.
* A sound system that is not available leaves Null, not the last one (`escape_codes.txt:208`):
  `Sound`, `Fallback`.

* `help.c:54` says that the default device is `parport0`; the daemon starts with the null
  device: `Init` of `CwDevice`.
* A forked daemon whose sound system cannot be opened ends in silence if there is no debug
  file, after the parent has reported success: `ResetAlmostAll`, `DebugTo`.
* ^C while `exit()` stops the generator: that handler is not resumed, and the rest runs with
  the generator's thread still there: `CatchSigint`.
* The threshold of `-y` is not in force while the options are read, nor before the sound
  system is opened: `MessageTo` uses `current`, `ResetAlmostAll` sets it.
* The main loop starts as if it had been idle for hours, so that the footswitch is not
  looked at before the first datagram; a text that ends an idle period is keyed while
  `select()` waits for a day, and so is the footswitch ignored until the next one: `Arm`,
  `Footswitch`, and the premise `Watching` of `FootswitchFollowed`.
* With preemption a reset of `inactivity_seconds` between the load and the store of
  `inactivity_seconds++` is lost, and the wait gets long too early: `KeyingEvent`,
  `StoreInactivity`.
* A line end before a NUL stays in the request, where a client sends the NUL that ends its
  string: `Strip` looks at the last byte only.

## 6. Proofs

The theorems hold for every value of the constants that satisfies the modules' `ASSUME`s:
any set of clients, requests, options, ports or datagrams, any sizes, capacities, limits and
numbers of requests, preemptive or not, with a footswitch or not, unless the theorem says so.

| Theorem | States | Argument |
|---|---|---|
| `TypeCorrect` (Keyer) | `Spec => []TypeOK` | `TypeInv`: the types, and what the place of a thread says of `req`, `from`, `reg`, `cbreg` |
| `RequestQueueCorrect` | `[]RequestQueueIdle` | `QueueInv`: the text queue is not empty only at places of the text loop, and `ret` says that a subroutine returns there |
| `ZeroDelayCorrect` | `[]ZeroDelayNoPtt` | `PinInv`: at delay zero the pin is on only where the main thread is about to switch it off |
| `ReplyFitsCorrect` | `[]ReplyFits` | `FitInv`: the text, with the caret it still holds, is no longer than a request; it needs `QueueInv`, or texts would add up |
| `AbortSilencesCorrect` | `[]AbortSilences` | `SilentInv`: from the flush on, what the callback can queue is not a mark |
| `TypeCorrect` (Sound) | `Spec => []TypeOK` | clamping and the conversion of the weighting stay in range |
| `LibcwMatchesCorrect`, `AudioFlagCorrect` | `[]LibcwMatches`, `[]AudioFlag` | inductive with `TypeOK` |
| `FallbackCorrect` | `Spec => FallbackWorks` | an action property: the failed generator is closed before Null is opened, which cannot fail |
| `ReplyIsCorrect`, `EchoIsAfterPlaying` | `[]ReplyCorrect`, `[]EchoAfterPlaying` for `~Preemptive` | `EchoInv`, `ToneInv`, `TurnInv` |
| `RefinesReplyService` | `Spec => ImplementsReplyService` for `~Preemptive` | each action is one of the service or a stutter, given `ReplyServiceInv` |
| `PttIsHeld`, `PinHasFlag` (KeyerRaces) | `RaceSpec => []PttHeld`, `RaceSpec => []PinMeansFlag` | `PttInv` |
| `RefinesPttService` (KeyerRaces) | `RaceSpec => ImplementsPttService` | each step is regular or has a cause, given `PttInv` |
| `TypeCorrect`, `OneFileOpen`, `CallbackFollowsDevice`, `ExitsOfDrivers` (CwDevice) | `[]TypeOK`, `[]OneFile`, `[]KeyerAttached`, `DriverExits` | `AnyInv`, and that each step that ends the program is `Explained` |
| `QuietWhenIdle` | `[]QuietPins` for `Settable` | `DeviceInv` |
| `GivenUpPortsAreOff` | `[]UnusedPortsOff` for `Settable` and `MaxArgs <= 4` | `GivenUpInv` with `DeviceInv`: options are counted |
| `NothingIsLeft`, `ResourcesAreThere`, `OnlyTheDaemonServes`, `TerminalIsLeft`, `FailuresAreReported` (Lifecycle) | `[]NothingLeft`, `[]ResourcesOutliveUsers`, `[]OnlyDaemonServes`, `[]DaemonLeavesTerminal`, `[]FailureReported` | `LifeInv` |
| `TypeCorrect`, `IsConfigured` (Lifecycle) | `[]TypeOK`, `[]Configured` | `ConfigInv` with `LifeInv` |
| `TypeCorrect` (Receiver) | `[]TypeOK` | the smallest of a set of numbers exists, so that what is received is in the buffer |
| `OneRequestPerDatagram` | `[]OncePerDatagram` | `RequestInv`: which requests the datagrams so far have made, and what the buffer holds of the present one |
| `WaitsWhenQuiet` | `Spec => LongWaitMeansQuiet` | the counter is not ahead of the quiet rounds, unless the last reset was lost |
| `DelaysLast` (Delays) | `[](Uninterrupted /\ NeverRefused)` | `SleepInv`: what has passed and what is left add up |

The invariants are stronger than the properties, since a property speaks of the moments
between requests and says nothing of what a step in between may assume.

* Replies. `ReplyCorrect` speaks of the moment of sending, so `EchoInv` says from the other
  side that while ECHO is set the reply is ready, except where it is being prepared or
  aborted. That the callback finds no mark needs `ToneInv`: libcw's tones for a character
  end in two spaces, and the callback comes at the last but one. `TurnInv` says where the
  main thread can be when the callback runs.
* PTT. `AnyInv` holds in any case: the types, and of the tones that a callback never finds a mark
  being played. The rest holds while `disturbed` is empty: a character is queued after AUTO was
  found or set, so AUTO must mean that the pin is on (`AutoInv`); the callback clears both, in
  two steps, when AUTO is the only flag (`FlagUseInv`); a flag that a thread has loaded is still
  the flag when it stores it (`Loaded`). Each step either keeps this, or adds a cause, or ends in
  a quiet state, which has it again. So the invariant must hold of a quiet state whatever came
  before, which is why nothing but the causes may be remembered.
* Devices, in any case (`AnyInv`): which descriptors are open at each place of `<ESC>8`, and
  whose they are; where the generator's argument comes from; and that a driver which cannot set
  its port is `Disowned` or `Caught`.
* Devices, for `Settable`: `Placed`, `Both` and `Opened` say which files are open before,
  during and after the old device is freed; that a descriptor is free needs two, one open at
  most. `QuietInv` ties the key line to the parity of the keying events that are left, and
  allows one line to serve as both key and PTT. `Settable` is a premise of the two theorems on
  pins: no `<ESC>8` without a name, parallel ports only for root and without `fork()`, two
  descriptors, the cooperative schedule. Section 5 says what the code does to the pins
  otherwise.
* Exit. Handlers are registered in one order and called in the opposite one, so the list is
  always a beginning of that order (`Rank`), and what is open has its handler in the list,
  running, or in `broken`. That the socket outlives the generator follows from the order.

* Ports that are given up. `OffInv` is `UnusedPortsOff` for the places in between. It is not
  inductive: a line that opening a port has raised, and that is not the device's when the port
  is given up, can become so by a later `-o`. `CountInv` says how many options such a state
  takes: one for a device, two before a line is not the device's, three or four before a
  serial port that was opened has a line up. `Settable` has `-d` and `-o` in any order.
* Options. `AskedInv` says what `defaults` has while the command line is read: of each name the
  value of the last option so far, and of the verbosity what `-y` and the `-i` after it add up
  to. `ReadLast` and `ReadSince` are one option more: the last of its name is now the new one,
  of every other name it is the same as before, and `-y` starts the count anew. That there is
  a last option follows from the well-foundedness of the naturals. `InForceInv` says what
  each process has of the defaults after the step that copies them. The
  assumptions are `OptionsAssumption`, known names and for the PTT delay a number or what
  `strtol()` refuses, and `SpeedAssumption`, that the default speed is one libcw accepts.
* Datagrams. `OncePerDatagram` asks for an increasing function from the requests to the
  datagrams that are not empty, onto all of them. `Answered(k)` has this function for the
  first k datagrams; each datagram extends it by one pair, or leaves it as it is when nothing
  but line ends was received. `BufferInv` is what makes the new pair right: of the datagram
  only line ends have been removed, and zeros stand in their place and behind it, so that the
  request has nothing of an earlier datagram.

Every safety and action property of the passing runs, and both refinements, are theorems.
Only model-checked is liveness (`EchoConsumed`, `AutoPttReleased`, `ReplyDelivered`,
`PttReleased`, `Settles`, `DatagramsReceived`, `FootswitchFollowed`), since fairness and
ENABLED are out of the prover's reach.
`Delays` is proved and not model-checked: its times are larger than TLC's integers. No
module uses `RECURSIVE`.

## 7. Plan

Everything of the plan is done: the keyer with its two threads, the devices, the sound, the
start and the end, the main loop, the two services and their refinements, and the proofs.
What could follow: a composition of `Keyer` with `CwDevice`, whose product is too large for
TLC today and would show nothing between them but the pin, which each has for itself; and the
theorems of `KeyerCoopProofs` with preemption, as far as they hold of some requests.

Not modelled: the text of `--help`, the search for a value in an option's word
(`find_opt_value()`), the paths of devices, the wording of messages. They are output, or pure
functions on strings whose results are the inputs of these models. FreeBSD's `ppi` devices
differ from Linux' in their ioctls only. `tests` and `examples` are clients.
