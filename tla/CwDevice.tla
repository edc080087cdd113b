------------------------------ MODULE CwDevice ------------------------------
(***************************************************************************)
(* The keying device: the device objects for a serial port ("tty"), a      *)
(* parallel port ("lp") and no port ("null"), the files and pins behind    *)
(* them, how the command line and <ESC>8 replace one by another, and what  *)
(* <ESC>0 and <ESC>f do to the registration of the keying callback.        *)
(*                                                                         *)
(* Of playing a text only what reaches the device is here: PTT on, keying  *)
(* events from libcw's generator thread, PTT off.  Module Keyer has the    *)
(* rest.  Replacing the device takes several steps of the main thread, and *)
(* the generator thread uses the device objects with no lock.              *)
(*                                                                         *)
(* A definition marked "Mutant" is a plausible bug in the definition that  *)
(* follows it and is used by no action.                                    *)
(***************************************************************************)
EXTENDS Integers, FiniteSets, FiniteSetsExt

CONSTANTS
  Serial, Parallel, \* ports of the host
  Names,        \* devices that are asked for: ports, "null", "bad", "empty"
  Requests,     \* kinds of requests that clients send
  Root,         \* geteuid() is zero
  Forking,      \* no -n/--nofork
  Preemptive,   \* FALSE: the generator runs only while select() blocks
  FilesMax,     \* bound: files that can be open at once
  MaxArgs,      \* bound: -d and -o options on the command line
  MaxRequests,  \* bound: requests received in one behaviour
  None          \* no port, no registration

Ports == Serial \cup Parallel
Objects == {"tty", "lp", "null"}
Kinds == {"text", "device", "sound", "reset", "ssbway", "switchband", "exit"}
Roles == {"key", "ptt"}
SerialLines == {"DTR", "RTS"}
ParallelLines == {"SELECT", "INIT", "AUTOFD", "DATA"}
Events == 4     \* keying events of a text: two marks, each down and up
Capacity == 2 * Events \* keying events that libcw's queue can hold

ASSUME PortsAssumption ==
  /\ Serial \cap Parallel = {} /\ Ports \cap {"null", "bad", "empty"} = {}
  /\ None \notin Ports \cup Objects
  /\ Names \subseteq Ports \cup {"null", "bad", "empty"}
ASSUME RequestsAssumption == Requests \subseteq Kinds
ASSUME BoundsAssumption ==
  FilesMax \in Nat \ {0} /\ MaxArgs \in Nat /\ MaxRequests \in Nat
ASSUME ModesAssumption ==
  Root \in BOOLEAN /\ Forking \in BOOLEAN /\ Preemptive \in BOOLEAN

VARIABLES
  device,   \* the object global_cwdevice points to
  fd,       \* each object's file descriptor; 0 is any that is no port
  opt,      \* cwdevice_ttys.options: the line of each role, or "none"
  file,     \* the port behind each file descriptor, or None
  claimed,  \* parallel ports this program has claimed and enabled
  pins,     \* the lines of each port that are on
  keyer,    \* argument of the registered keying callback, or None
  todo,     \* keying events libcw has still to make; odd: the key is down
  low,      \* libcw has the low tone queue callback still to call
  auto,     \* ptt_flag has PTT_ACTIVE_AUTO
  pc,       \* main thread: place
  old, name, new, \* arguments of cwdaemon_cwdevice_set(), the probed file
  running,  \* the command line has been parsed
  arg,      \* generator: the callback argument it has loaded, or None
  args, received  \* counts

files    == <<fd, file, claimed>>
playVars == <<todo, low, auto>>
setVars  == <<old, name, new>>
counts   == <<args, received>>
vars == <<device, opt, files, pins, keyer, playVars, pc, setVars, running,
          arg, counts>>

Init ==
  /\ device = "null"
  /\ fd = [o \in Objects |-> 0]
  /\ opt = [key |-> "DTR", ptt |-> "RTS"]
  /\ file = [n \in 1..FilesMax |-> None]
  /\ claimed = {} /\ pins = [p \in Ports |-> {}]
  /\ keyer = None /\ todo = 0 /\ low = FALSE /\ auto = FALSE
  /\ pc = "args" /\ old = "null" /\ name = "null" /\ new = 0
  /\ running = FALSE /\ arg = None /\ args = 0 /\ received = 0

Idle    == pc = "select"
Stopped == pc \in {"exited", "crashed"}

-----------------------------------------------------------------------------
(***************************************************************************)
(* The pins.  An object without a port of its own type, or whose parallel  *)
(* port is not claimed, cannot set them: the drivers call exit(1).         *)
(***************************************************************************)
PortsOf(o) == CASE o = "tty" -> Serial [] o = "lp" -> claimed [] OTHER -> {}
Port(o)    == file[fd[o]]
Able(o)    == fd[o] \in DOMAIN file /\ Port(o) \in PortsOf(o)

Line(o, role) ==
  CASE o = "tty" -> opt[role]
    [] o = "lp"  -> IF role = "key" THEN "SELECT" ELSE "INIT"
    [] OTHER     -> "none"
Lines(o) == IF o = "lp" THEN ParallelLines
            ELSE {Line(o, role) : role \in Roles} \ {"none"}

\* The lines of o in L are set to on or off, or the program ends.
SetLines(o, L, on, next) ==
  IF L = {} \/ Able(o)
  THEN /\ pc' = next
       /\ pins' = IF L = {} THEN pins
                  ELSE [pins EXCEPT ![Port(o)] =
                          IF on THEN @ \cup L ELSE @ \ L]
  ELSE pc' = "crashed" /\ UNCHANGED pins

SetLine(o, role, on, next) == SetLines(o, {Line(o, role)} \ {"none"}, on, next)

-----------------------------------------------------------------------------
(***************************************************************************)
(* cwdaemon_cwdevice_set(): probe, free the old device, init the new one.  *)
(* The descriptor is the lowest free one.  Opening a serial port can raise *)
(* its lines.  A name that is no device, or a port that cannot be opened   *)
(* because no descriptor is free, is taken for "null".                     *)
(***************************************************************************)
LowestFree == Min({n \in 1..FilesMax + 1 : n > FilesMax \/ file[n] = None})

\* Mutant: the result of open() is not looked at.
OpensAny == name \in Ports

Opens == name \in Ports /\ LowestFree <= FilesMax

\* No name, or no right to a parallel port, which then stays open.
Refused == name = "empty" \/ (name \in Parallel /\ ~Root)

\* Mutant: <ESC>8 goes on with a device that is refused.
FailedUnseen == pc' = IF running THEN "free" ELSE "exit"

Failed == pc' = IF running THEN "select" ELSE "exit"

SetStart(n) == name' = n /\ old' = device /\ pc' = "probe"

Probe ==
  /\ pc = "probe"
  /\ new' = IF Opens THEN LowestFree ELSE 0
  /\ file' = IF Opens THEN [file EXCEPT ![LowestFree] = name] ELSE file
  /\ IF Opens /\ name \in Serial /\ \A n \in DOMAIN file : file[n] # name
     THEN \E raised \in {{}, SerialLines} :
            pins' = [pins EXCEPT ![name] = @ \cup raised]
     ELSE UNCHANGED pins
  /\ IF Refused /\ (Opens \/ name = "empty")
     THEN Failed /\ UNCHANGED device
     ELSE /\ device' = CASE Opens /\ name \in Serial   -> "tty"
                         [] Opens /\ name \in Parallel -> "lp"
                         [] OTHER                      -> "null"
          /\ pc' = "free"
  /\ UNCHANGED <<fd, claimed, opt, keyer, playVars, old, name, running, arg,
                 counts>>

\* ttys_close() and lp_free(): the pins first, then the file.
FreePins ==
  /\ pc = "free"
  /\ SetLines(old, Lines(old), FALSE, "close")
  /\ UNCHANGED <<device, opt, files, keyer, playVars, setVars, running, arg,
                 counts>>

\* Mutant: the old file stays open.
CloseNothing ==
  /\ pc = "close"
  /\ claimed' = claimed \ {Port(old) : o \in {old} \cap {"lp"}}
  /\ fd' = IF old = "tty" THEN [fd EXCEPT ![old] = 0] ELSE fd
  /\ pc' = "init"
  /\ UNCHANGED <<file, device, opt, pins, keyer, playVars, setVars, running,
                 arg, counts>>

\* Mutant: the parallel port stays claimed.
CloseClaimed ==
  /\ pc = "close"
  /\ file' = IF fd[old] = 0 THEN file ELSE [file EXCEPT ![fd[old]] = None]
  /\ fd' = IF old = "tty" THEN [fd EXCEPT ![old] = 0] ELSE fd
  /\ pc' = "init"
  /\ UNCHANGED <<claimed, device, opt, pins, keyer, playVars, setVars, running,
                 arg, counts>>

\* Only ttys_close() forgets the descriptor, and only lp_free() a claim.
Close ==
  /\ pc = "close"
  /\ claimed' = claimed \ {Port(old) : o \in {old} \cap {"lp"}}
  /\ file' = IF fd[old] = 0 THEN file ELSE [file EXCEPT ![fd[old]] = None]
  /\ fd' = IF old = "tty" THEN [fd EXCEPT ![old] = 0] ELSE fd
  /\ pc' = "init"
  /\ UNCHANGED <<device, opt, pins, keyer, playVars, setVars, running, arg,
                 counts>>

\* Mutant: the pins are left as opening the port has set them.
InitNoReset ==
  /\ pc = "init"
  /\ fd' = [fd EXCEPT ![device] = new]
  /\ claimed' = IF device = "lp" THEN claimed \cup {name} ELSE claimed
  /\ pc' = "register"
  /\ UNCHANGED <<file, device, opt, pins, keyer, playVars, setVars, running,
                 arg, counts>>

\* ttys_init(), lp_init() and null_init().  lp_init() exits when the port is
\* already claimed.
InitDevice ==
  /\ pc = "init"
  /\ fd' = [fd EXCEPT ![device] = new]
  /\ IF device = "lp" /\ name \in claimed
     THEN pc' = "crashed" /\ UNCHANGED <<claimed, pins>>
     ELSE /\ claimed' = IF device = "lp" THEN claimed \cup {name} ELSE claimed
          /\ pc' = "register"
          /\ pins' = IF device = "null" THEN pins
                     ELSE [pins EXCEPT ![name] = @ \ Lines(device)]
  /\ UNCHANGED <<file, device, opt, keyer, playVars, setVars, running, arg,
                 counts>>

Register ==
  /\ pc = "register"
  /\ pc' = IF running THEN "select" ELSE "args"
  /\ keyer' = IF running THEN device ELSE keyer
  /\ UNCHANGED <<device, opt, files, pins, playVars, setVars, running, arg,
                 counts>>

-----------------------------------------------------------------------------
(***************************************************************************)
(* Start: the command line, fork(), and the first registration.            *)
(***************************************************************************)
ArgDevice ==
  /\ pc = "args" /\ args < MaxArgs
  /\ args' = args + 1
  /\ \E n \in Names : SetStart(n)
  /\ UNCHANGED <<device, opt, files, pins, keyer, playVars, new, running, arg,
                 received>>

\* -o: only a serial device has options; the line it names is switched off.
ArgOption ==
  /\ pc = "args" /\ args < MaxArgs
  /\ args' = args + 1
  /\ \E role \in Roles, l \in SerialLines \cup {"none"} :
       IF device = "tty"
       THEN /\ opt' = [opt EXCEPT ![role] = l]
            /\ pins' = [pins EXCEPT ![Port("tty")] = @ \ {l}]
            /\ UNCHANGED pc
       ELSE pc' = "exit" /\ UNCHANGED <<opt, pins>>
  /\ UNCHANGED <<device, files, keyer, playVars, setVars, running, arg,
                 received>>

\* The options are validated if the last device is the one that has them.
ArgsEnd ==
  /\ pc = "args"
  /\ pc' = IF device = "tty" /\ opt.key # "none" /\ opt.key = opt.ptt
           THEN "exit" ELSE "fork"
  /\ UNCHANGED <<device, opt, files, pins, keyer, playVars, setVars, running,
                 arg, counts>>

\* The parent ends with exit(), whose handlers free the device it shares with
\* the child.  The file stays open in the child.
Start ==
  /\ pc = "fork"
  /\ running' = TRUE /\ keyer' = device
  /\ IF Forking
     THEN /\ SetLines(device, Lines(device), FALSE, "select")
          /\ claimed' = IF device = "lp" THEN claimed \ {Port(device)}
                                         ELSE claimed
     ELSE pc' = "select" /\ UNCHANGED <<pins, claimed>>
  /\ UNCHANGED <<device, opt, fd, file, playVars, setVars, arg, counts>>

-----------------------------------------------------------------------------
(***************************************************************************)
(* Requests.                                                               *)
(***************************************************************************)
Request(kind) ==
  /\ pc = "select" /\ kind \in Requests
  /\ received < MaxRequests /\ received' = received + 1
  /\ Preemptive \/ arg = None
  /\ UNCHANGED <<running, args>>

\* A text, at a PTT delay that is not zero.  It is played after what is left
\* of an earlier one; libcw rejects what its queue cannot hold.
Text ==
  /\ Request("text")
  /\ IF auto THEN UNCHANGED <<pins, pc>>
             ELSE SetLine(device, "ptt", TRUE, "select")
  /\ auto' = TRUE
  /\ todo' = IF todo + Events <= Capacity THEN todo + Events ELSE todo
  /\ UNCHANGED <<device, opt, files, keyer, low, setVars, arg>>

\* <ESC>8: the registration is cancelled first.
Device ==
  /\ Request("device")
  /\ keyer' = None
  /\ \E n \in Names : SetStart(n)
  /\ UNCHANGED <<device, opt, files, pins, playVars, new, arg>>

\* The generator is stopped, which opens the key.
StopGenerator(next) ==
  /\ arg = None
  /\ todo' = 0 /\ low' = FALSE
  /\ IF todo % 2 = 1 /\ keyer # None
     THEN SetLine(keyer, "key", FALSE, next)
     ELSE pc' = next /\ UNCHANGED pins

\* Mutant: ticket R0030, the new generator has no keying callback.
SoundNoCallback ==
  /\ Request("sound")
  /\ StopGenerator("select")
  /\ keyer' = None
  /\ UNCHANGED <<device, opt, files, auto, setVars, arg>>

\* <ESC>f with a valid sound system: a new generator, registered anew.
Sound ==
  /\ Request("sound")
  /\ StopGenerator("select")
  /\ keyer' = device
  /\ UNCHANGED <<device, opt, files, auto, setVars, arg>>

\* <ESC>0: a new generator, the callback, the pins, the flag.
Reset ==
  /\ Request("reset") /\ arg = None
  /\ todo' = 0 /\ low' = FALSE
  /\ keyer' = device
  /\ SetLines(device, Lines(device), FALSE, "select")
  /\ auto' = FALSE
  /\ UNCHANGED <<device, opt, files, setVars, arg>>

\* <ESC>b and <ESC>e: outputs that only the parallel port has.
Output(kind, line) ==
  /\ Request(kind)
  /\ \E on \in BOOLEAN :
       SetLines(device, {line} \cap Lines(device), on, "select")
  /\ UNCHANGED <<device, opt, files, keyer, playVars, setVars, arg>>

SsbWay     == Output("ssbway", "AUTOFD")
SwitchBand == Output("switchband", "DATA")

\* select() returns with no request.
SelectTimeout == pc = "select" /\ UNCHANGED vars

\* The footswitch is polled, and PTT follows it, after select() returned.
Footswitch ==
  /\ pc = "select" /\ device = "lp" /\ (Preemptive \/ arg = None)
  /\ \E on \in BOOLEAN : SetLine("lp", "ptt", on, "select")
  /\ UNCHANGED <<device, opt, files, keyer, playVars, setVars, running, arg,
                 counts>>

\* <ESC>5: the generator is stopped, then cwdaemon_cwdevice_free().
Exit ==
  /\ Request("exit")
  /\ StopGenerator("exit")
  /\ UNCHANGED <<device, opt, files, keyer, auto, setVars, arg>>

\* Mutant: the device is not freed.
ExitNow ==
  /\ pc = "exit" /\ pc' = "exited"
  /\ UNCHANGED <<device, opt, files, pins, keyer, playVars, setVars, running,
                 arg, counts>>

ExitFree ==
  /\ pc = "exit"
  /\ SetLines(device, Lines(device), FALSE, "exited")
  /\ UNCHANGED <<device, opt, files, keyer, playVars, setVars, running, arg,
                 counts>>

-----------------------------------------------------------------------------
(***************************************************************************)
(* The generator thread: cwdaemon_keyingevent(), called with the argument  *)
(* loaded before, and at the end of the text the tone queue's callback.    *)
(***************************************************************************)
MayGenerate == running /\ ~Stopped /\ (Preemptive \/ pc = "select")

LoadKeyer ==
  /\ MayGenerate /\ ~low /\ todo > 0 /\ arg = None /\ keyer # None
  /\ arg' = keyer
  /\ UNCHANGED <<device, opt, files, pins, keyer, playVars, pc, setVars,
                 running, counts>>

KeyingEvent ==
  /\ MayGenerate /\ arg # None
  /\ todo' = todo - 1 /\ low' = (todo = 1) /\ arg' = None
  /\ SetLine(arg, "key", todo % 2 = 0, pc)
  /\ UNCHANGED <<device, opt, files, keyer, auto, setVars, running, counts>>

\* Nothing is registered: the tone is played and the device not keyed.
UnkeyedEvent ==
  /\ MayGenerate /\ ~low /\ todo > 0 /\ arg = None /\ keyer = None
  /\ todo' = todo - 1 /\ low' = (todo = 1)
  /\ UNCHANGED <<device, opt, files, pins, keyer, auto, pc, setVars, running,
                 arg, counts>>

\* Mutant: only the flag is reset.
FlagOff ==
  /\ MayGenerate /\ low
  /\ low' = FALSE
  /\ auto' = (auto /\ todo > 0)
  /\ UNCHANGED <<device, opt, files, pins, keyer, todo, pc, setVars, running,
                 arg, counts>>

\* cwdaemon_tone_queue_low_callback(), with no reply to send.
PttOff ==
  /\ MayGenerate /\ low
  /\ low' = FALSE
  /\ auto' = (auto /\ todo > 0)
  /\ IF auto /\ todo = 0 THEN SetLine(device, "ptt", FALSE, pc)
                         ELSE UNCHANGED <<pins, pc>>
  /\ UNCHANGED <<device, opt, files, keyer, todo, setVars, running, arg,
                 counts>>

-----------------------------------------------------------------------------
CwdeviceSet == Probe \/ FreePins \/ Close \/ InitDevice \/ Register
Startup     == ArgDevice \/ ArgOption \/ ArgsEnd \/ Start
Requested   == \/ Text \/ Device \/ Sound \/ Reset \/ SsbWay \/ SwitchBand
               \/ SelectTimeout \/ Footswitch \/ Exit
Generator   == LoadKeyer \/ KeyingEvent \/ UnkeyedEvent \/ PttOff
Terminated  == Stopped /\ UNCHANGED vars

Next == CwdeviceSet \/ Startup \/ Requested \/ ExitFree \/ Generator
          \/ Terminated

Spec == Init /\ [][Next]_vars
FairSpec == Spec /\ WF_vars(CwdeviceSet) /\ WF_vars(ExitFree)
                 /\ WF_vars(Generator)

-----------------------------------------------------------------------------
Labels == {"args", "probe", "free", "close", "init", "register", "fork",
           "select", "exit", "exited", "crashed"}

\* Type invariant: every variable has its type, also when no descriptor is
\* left for the next device.
TypeOK ==
  /\ device \in Objects /\ old \in Objects /\ name \in Names \cup {"null"}
  /\ fd \in [Objects -> 0..FilesMax] /\ new \in 0..FilesMax
  /\ opt \in [Roles -> SerialLines \cup {"none"}]
  /\ file \in [1..FilesMax -> Ports \cup {None}]
  /\ claimed \subseteq Parallel
  /\ pins \in [Ports -> SUBSET (SerialLines \cup ParallelLines)]
  /\ keyer \in Objects \cup {None} /\ arg \in Objects \cup {None}
  /\ todo \in 0..Capacity /\ low \in BOOLEAN /\ auto \in BOOLEAN
  /\ running \in BOOLEAN
  /\ pc \in Labels /\ args \in 0..MaxArgs /\ received \in 0..MaxRequests

Held(p)   == device # "null" /\ Able(device) /\ Port(device) = p
Switched(p) == IF p \in Parallel THEN {"SELECT", "INIT"} ELSE Lines("tty")

\* Between two requests the current device's file is open, and no other,
\* however often, and to the same port or another, the device was replaced.
\* The parallel ports that an ordinary user has asked for stay open too: the
\* program refuses to set them and does not close them.
OneFile ==
  Idle =>
    /\ device # "null" => fd[device] \in DOMAIN file /\ Port(device) # None
    /\ \A n \in 1..FilesMax : file[n] # None =>
         (device # "null" /\ n = fd[device]) \/ (file[n] \in Parallel /\ ~Root)

\* A port that is given up, by <ESC>8 or at the end, has its keying and PTT
\* lines off, also when it is given up in the middle of a mark.  (It is false
\* with five -d and -o options, "-d A -o key=RTS -d B -d A -o key=DTR": B is
\* given up when DTR is not the device's line, and keeps it as the opening of
\* B has left it.)
UnusedPortsOff ==
  pc \in {"select", "exited"} =>
    \A p \in Ports : ~Held(p) \/ pc = "exited" => pins[p] \cap Switched(p) = {}

\* When nothing is played the current device does not key and, if no
\* footswitch holds it, PTT is off: from the first request after start,
\* although opening the port can raise its lines.
QuietPins ==
  Idle /\ todo = 0 /\ ~auto =>
    \A p \in Ports : Held(p) =>
      Line(device, "key") \notin pins[p]
        /\ (device = "tty" => Line(device, "ptt") \notin pins[p])

\* Keying events reach the current device, whichever of <ESC>8, <ESC>f and
\* <ESC>0 came last, and whatever the generator was doing meanwhile; only a
\* device that <ESC>8 refuses leaves the old one unregistered.
KeyerAttached == Idle => keyer = device \/ (keyer = None /\ Refused)

\* The daemon in the background lost its claim of a parallel port when the
\* parent ended.
Disowned == Forking /\ running /\ fd["lp"] \in DOMAIN file
              /\ Port("lp") \in Parallel \ claimed

\* The generator's thread has the device that is being replaced.
Caught == Preemptive
            /\ (pc \in {"free", "close", "init"} \/ arg \notin {None, device})

\* A driver ends the program in two cases only: the parent has released the
\* parallel port of the daemon, or the generator's thread keys or releases a
\* device while <ESC>8 replaces it.  No order of requests makes the main
\* thread meet a port that it cannot set, or claim one that it still holds.
DriverExits ==
  [][pc # "crashed" /\ pc' = "crashed" => Disowned \/ (Caught /\ Generator)]_vars

TtyPtt   == device = "tty" /\ Able("tty") /\ opt.ptt \in pins[Port("tty")]
Orphaned == auto /\ todo = 0 /\ ~low

\* PTT that a text switched on is switched off again, although devices are
\* replaced and the generator is reset meanwhile, and whatever the threads do
\* to each other.  The one exception is <ESC>f in the middle of a text, which
\* throws away the tones, and with them the callback that would end PTT.
PttReleased == TtyPtt ~> ~TtyPtt \/ Orphaned \/ Stopped
=============================================================================
