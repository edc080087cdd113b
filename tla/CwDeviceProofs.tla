--------------------------- MODULE CwDeviceProofs ---------------------------
(***************************************************************************)
(* Proofs about module CwDevice, for any ports, requests and bounds.       *)
(*                                                                         *)
(* The last part assumes nothing of the devices that are asked for, of the *)
(* user, of fork() and of the schedule: the current device has its file    *)
(* and keying events reach it, and the two ways are known in which a       *)
(* driver ends the program.                                                *)
(*                                                                         *)
(* The first part, about the lines of the ports, is for a program whose    *)
(* generator runs only while select() blocks and which is asked only for   *)
(* devices that it can set: in the two cases of the last part, and with an *)
(* <ESC>8 that is refused within a mark, lines do stay on.                 *)
(***************************************************************************)
EXTENDS CwDevice, WellFoundedInduction, TLAPS

Settable ==
  /\ FilesMax >= 2 /\ ~Preemptive /\ "empty" \notin Names
  /\ Names \cap Parallel = {} \/ (Root /\ ~Forking)

-----------------------------------------------------------------------------
(***************************************************************************)
(* The invariant.                                                          *)
(***************************************************************************)
KindOf(n) == IF n \in Serial THEN "tty" ELSE IF n \in Parallel THEN "lp" ELSE "null"

\* The port and the claim of the object o, if it needs any.
Owns(o) == /\ o # "null" => Able(o)
           /\ claimed = IF o = "lp" THEN {Port("lp")} ELSE {}

\* The file of the new device is open.
Probed == /\ device = KindOf(name)
          /\ name \in Ports => new \in 1..FilesMax /\ file[new] = name
          /\ name \notin Ports => new = 0

Placed == /\ Owns(device)
          /\ \A n \in 1..FilesMax : file[n] # None => device # "null" /\ n = fd[device]

\* The old device and the new one have a file each.
Both == /\ Probed /\ Owns(old)
        /\ old # "null" => fd[old] # new
        /\ \A n \in 1..FilesMax :
             file[n] # None => n = new \/ (old # "null" /\ n = fd[old])

Opened == /\ Probed /\ claimed = {}
          /\ \A n \in 1..FilesMax : file[n] # None => n = new

Settled == {"args", "probe", "register", "fork", "select", "exit", "exited"}

PlaceInv ==
  /\ fd["null"] = 0 /\ pc # "crashed"
  /\ "lp" \in {device, old} \/ (pc = "probe" /\ name \in Parallel) => Names \cap Parallel # {}
  /\ pc \in Settled => Placed
  /\ pc = "probe" => old = device
  /\ pc \in {"free", "close"} => Both
  /\ pc = "init" => Opened

KeyerInv ==
  /\ pc = "select" => running /\ keyer = device
  /\ pc \in {"args", "fork"} => ~running
  /\ ~running => todo = 0 /\ ~auto
  /\ arg # None => pc = "select" /\ arg = device /\ todo > 0

Odd == {n \in 0..Capacity : n % 2 = 1}

\* The key is down only within a mark, and PTT on only during a text; one
\* line can serve as both.
QuietInv ==
  pc \in {"register", "args", "fork", "select"} =>
    /\ device = "tty" =>
         /\ opt.key \in pins[Port("tty")] => todo \in Odd \/ (auto /\ opt.key = opt.ptt)
         /\ opt.ptt \in pins[Port("tty")] => auto \/ (todo \in Odd /\ opt.key = opt.ptt)
    /\ device = "lp" /\ "SELECT" \in pins[Port("lp")] => todo \in Odd

DeviceInv == TypeOK /\ PlaceInv /\ KeyerInv /\ QuietInv

-----------------------------------------------------------------------------
(***************************************************************************)
(* The drivers.                                                            *)
(***************************************************************************)
AnyLine == SerialLines \cup ParallelLines

LEMMA LinesType ==
  ASSUME TypeOK, NEW o \in Objects, NEW role \in Roles
  PROVE  /\ Lines(o) \subseteq AnyLine /\ Lines("null") = {}
         /\ {Line(o, role)} \ {"none"} \subseteq AnyLine
         /\ {Line("null", role)} \ {"none"} = {}
         /\ Line("tty", role) = opt[role]
         /\ Line("lp", "key") = "SELECT" /\ Line("lp", "ptt") = "INIT"
         /\ Lines("tty") = {opt.key, opt.ptt} \ {"none"}
         /\ Lines("lp") = ParallelLines
         /\ opt.key \in SerialLines \cup {"none"} /\ opt.ptt \in SerialLines \cup {"none"}
PROOF BY DEF TypeOK, Lines, Line, Roles, Objects, SerialLines, ParallelLines, AnyLine

LEMMA AblePort ==
  ASSUME TypeOK, NEW o \in Objects, Able(o)
  PROVE  /\ Port(o) \in Ports /\ o # "null" /\ fd[o] \in 1..FilesMax
         /\ o = "tty" => Port(o) \in Serial
         /\ o = "lp" => Port(o) \in Parallel
PROOF
  <1>1. fd[o] \in 1..FilesMax /\ Port(o) \in PortsOf(o)
    BY DEF Able, TypeOK
  <1>2. CASE o = "tty"
    BY <1>1, <1>2 DEF PortsOf, Ports
  <1>3. CASE o = "lp"
    BY <1>1, <1>3 DEF PortsOf, Ports, TypeOK
  <1>4. CASE o = "null"
    <2>1. PortsOf(o) = {}
      BY <1>4, Zenon DEF PortsOf
    <2> QED BY <1>1, <2>1
  <1> QED BY <1>2, <1>3, <1>4 DEF Objects

\* An object that has its port sets the lines, and the program goes on.
LEMMA SetLinesWorks ==
  ASSUME TypeOK, NEW o \in Objects, NEW L \in SUBSET AnyLine, NEW on \in BOOLEAN,
         NEW next, o = "null" => L = {}, o # "null" => Able(o),
         SetLines(o, L, on, next)
  PROVE  /\ pc' = next /\ pins' \in [Ports -> SUBSET AnyLine]
         /\ L = {} => pins' = pins
         /\ Able(o) => pins' = [pins EXCEPT ![Port(o)] = IF on THEN @ \cup L ELSE @ \ L]
PROOF
  <1>1. pins \in [Ports -> SUBSET AnyLine]
    BY DEF TypeOK, AnyLine
  <1>2. CASE L = {}
    <2>1. pc' = next /\ pins' = pins
      BY <1>2 DEF SetLines
    <2>2. ASSUME Able(o)
          PROVE  pins' = [pins EXCEPT ![Port(o)] = IF on THEN @ \cup L ELSE @ \ L]
      BY <1>1, <1>2, <2>1, <2>2, AblePort
    <2> QED BY <1>1, <2>1, <2>2
  <1>3. CASE L # {}
    <2>1. Able(o) /\ Port(o) \in Ports
      BY <1>3, AblePort
    <2>2. pc' = next /\ pins' = [pins EXCEPT ![Port(o)] = IF on THEN @ \cup L ELSE @ \ L]
      BY <1>3, <2>1 DEF SetLines
    <2> QED BY <1>1, <1>3, <2>1, <2>2
  <1> QED BY <1>2, <1>3

\* One file is open at most, so that one of two descriptors is free.
LEMMA LowestFreeWorks ==
  ASSUME TypeOK, Placed, FilesMax >= 2
  PROVE  /\ LowestFree \in 1..FilesMax /\ file[LowestFree] = None
PROOF
  <1> DEFINE S == {n \in 1..FilesMax + 1 : n > FilesMax \/ file[n] = None}
  <1>0. FilesMax \in Nat /\ file \in [1..FilesMax -> Ports \cup {None}]
    BY BoundsAssumption DEF TypeOK
  <1>1. LowestFree = Min(S)
    BY DEF LowestFree
  <1>2. CASE file[1] = None
    <2>1. 1 \in S /\ \A y \in S : 1 <= y
      BY <1>0, <1>2
    <2>2. \A x \in S : (\A y \in S : x <= y) => x = 1
      BY <1>0, <2>1
    <2>3. Min(S) = 1
      BY <2>1, <2>2 DEF Min
    <2> QED BY <1>0, <1>1, <1>2, <2>3
  <1>3. CASE file[1] # None
    <2>1. file[2] = None
      BY <1>0, <1>3 DEF Placed, TypeOK
    <2>2. 2 \in S /\ \A y \in S : 2 <= y
      BY <1>0, <1>3, <2>1
    <2>3. \A x \in S : (\A y \in S : x <= y) => x = 2
      BY <1>0, <2>2
    <2>4. Min(S) = 2
      BY <2>2, <2>3 DEF Min
    <2> QED BY <1>0, <1>1, <2>1, <2>4
  <1> QED BY <1>2, <1>3

-----------------------------------------------------------------------------
(***************************************************************************)
(* The steps of cwdaemon_cwdevice_set().                                   *)
(***************************************************************************)
LEMMA ProbeWorks ==
  ASSUME Settable, DeviceInv, Probe
  PROVE  /\ pc' = "free" /\ device' = KindOf(name)
         /\ new' = IF name \in Ports THEN LowestFree ELSE 0
         /\ file' = IF name \in Ports THEN [file EXCEPT ![LowestFree] = name] ELSE file
PROOF
  <1>1. ~(name = "empty" \/ (name \in Parallel /\ ~Root))
    BY DEF Settable, DeviceInv, PlaceInv, TypeOK, Probe
  <1>2. Opens <=> name \in Ports
    <2>1. Placed /\ FilesMax \in Nat
      BY BoundsAssumption DEF Probe, DeviceInv, PlaceInv, Settled
    <2>2. LowestFree <= FilesMax
      BY <2>1, LowestFreeWorks DEF DeviceInv, Settable
    <2> QED BY <2>2 DEF Opens
  <1>3. pc' = "free" /\ device' = (CASE Opens /\ name \in Serial   -> "tty"
                                     [] Opens /\ name \in Parallel -> "lp"
                                     [] OTHER                      -> "null")
    BY <1>1, Zenon DEF Probe, Refused
  <1>4. Serial \cap Parallel = {} /\ Ports = Serial \cup Parallel
    BY PortsAssumption DEF Ports
  <1>5. device' = KindOf(name)
    <2>1. CASE name \in Serial
      BY <1>2, <1>3, <1>4, <2>1 DEF KindOf
    <2>2. CASE name \in Parallel
      BY <1>2, <1>3, <1>4, <2>2 DEF KindOf
    <2>3. CASE name \notin Ports
      BY <1>2, <1>3, <1>4, <2>3 DEF KindOf
    <2> QED BY <1>4, <2>1, <2>2, <2>3
  <1> QED BY <1>2, <1>3, <1>5 DEF Probe

LEMMA ProbeStep ==
  ASSUME Settable, DeviceInv, Probe
  PROVE  DeviceInv'
PROOF
  <1> USE DEF DeviceInv
  <1>0. /\ pc = "probe" /\ old = device /\ Placed
        /\ LowestFree \in 1..FilesMax /\ file[LowestFree] = None
        /\ UNCHANGED <<fd, claimed, opt, keyer, todo, low, auto, old, name, running,
                       arg, args, received>>
    BY LowestFreeWorks DEF Probe, PlaceInv, Settled, Settable, playVars, counts
  <1>1. /\ pc' = "free" /\ device' = KindOf(name)
        /\ new' = IF name \in Ports THEN LowestFree ELSE 0
        /\ file' = IF name \in Ports THEN [file EXCEPT ![LowestFree] = name] ELSE file
    BY ProbeWorks
  <1>2. TypeOK'
    <2>1. pins' \in [Ports -> SUBSET AnyLine]
      BY DEF Probe, TypeOK, Ports, AnyLine
    <2>2. device' \in Objects
      BY <1>1 DEF KindOf, Objects
    <2>3. file' \in [1..FilesMax -> Ports \cup {None}] /\ new' \in 0..FilesMax
      BY <1>0, <1>1, BoundsAssumption DEF TypeOK
    <2> QED BY <1>0, <1>1, <2>1, <2>2, <2>3 DEF TypeOK, AnyLine, Labels
  <1>3. PlaceInv'
    <2>1. \A n \in 1..FilesMax : file[n] # None => device # "null" /\ n = fd[device]
      BY <1>0 DEF Placed
    <2>2. None \notin Ports
      BY PortsAssumption
    <2>3. file \in [1..FilesMax -> Ports \cup {None}]
      BY DEF TypeOK
    <2>4. Owns(device) /\ (device # "null" => fd[device] # LowestFree)
      <3>1. Owns(device)
        BY <1>0 DEF Placed
      <3>2. device # "null" => file[fd[device]] \in Ports
        BY <3>1, AblePort DEF Owns, Port, TypeOK
      <3> QED BY <1>0, <2>2, <3>1, <3>2
    <2>5. Probed'
      BY <1>0, <1>1, <2>3 DEF Probed, KindOf
    <2>6. Owns(old)' /\ (old # "null" => fd[old] # new)'
      <3>1. CASE old = "null"
        BY <1>0, <2>4, <3>1 DEF Owns
      <3>2. CASE old # "null"
        <4>1. Able(old) /\ fd[old] \in 1..FilesMax
          BY <1>0, <2>4, <3>2, AblePort DEF Owns, TypeOK
        <4>2. file'[fd[old]] = file[fd[old]] /\ DOMAIN file' = DOMAIN file
          BY <1>0, <1>1, <2>3, <2>4, <3>2, <4>1
        <4>3. fd[old] # new'
          BY <1>0, <1>1, <2>4, <3>2, <4>1
        <4>4. Port(old)' = Port(old)
          BY <1>0, <4>2 DEF Port
        <4>5. PortsOf(old)' = PortsOf(old)
          BY <1>0, Zenon DEF PortsOf
        <4>6. Able(old)'
          BY <1>0, <4>1, <4>2, <4>4, <4>5 DEF Able
        <4> QED BY <1>0, <2>4, <3>2, <4>3, <4>4, <4>6 DEF Owns
      <3> QED BY <3>1, <3>2
    <2>7. (\A n \in 1..FilesMax :
             file[n] # None => n = new \/ (old # "null" /\ n = fd[old]))'
      BY <1>0, <1>1, <2>1, <2>3
    <2>8. ("lp" \in {device, old} \/ (pc = "probe" /\ name \in Parallel) => Names \cap Parallel # {})'
      BY <1>0, <1>1 DEF PlaceInv, KindOf
    <2> QED BY <1>0, <1>1, <2>5, <2>6, <2>7, <2>8 DEF PlaceInv, Both, Settled
  <1>4. KeyerInv'
    BY <1>0, <1>1 DEF KeyerInv
  <1>5. QuietInv'
    BY <1>1 DEF QuietInv
  <1> QED BY <1>2, <1>3, <1>4, <1>5

\* A step that leaves the files, the claims and the current device alone.
LEMMA SamePlace ==
  ASSUME PlaceInv, UNCHANGED <<device, fd, file, claimed, old, name, new>>,
         pc \in Settled, pc' \in Settled \ {"probe"}
  PROVE  PlaceInv'
PROOF
  <1>1. Owns(device)' = Owns(device)
    BY DEF Owns, Able, Port, PortsOf
  <1> QED BY <1>1 DEF PlaceInv, Placed, Settled

LEMMA FreePinsStep ==
  ASSUME Settable, DeviceInv, FreePins
  PROVE  DeviceInv'
PROOF
  <1> USE DEF DeviceInv
  <1>0. /\ pc = "free" /\ Both /\ Owns(old) /\ old \in Objects
        /\ UNCHANGED <<device, opt, fd, file, claimed, keyer, todo, low, auto, old, name,
                       new, running, arg, args, received>>
    BY DEF FreePins, PlaceInv, Both, TypeOK, playVars, counts, files, setVars
  <1>1. pc' = "close" /\ pins' \in [Ports -> SUBSET AnyLine]
    BY <1>0, LinesType, SetLinesWorks DEF FreePins, Owns, Roles
  <1>2. TypeOK'
    BY <1>0, <1>1 DEF TypeOK, AnyLine, Labels
  <1>3. PlaceInv'
    <2>1. Owns(old)' = Owns(old)
      BY <1>0 DEF Owns, Able, Port, PortsOf
    <2> QED BY <1>0, <1>1, <2>1 DEF PlaceInv, Both, Probed, Settled
  <1>4. KeyerInv'
    BY <1>0, <1>1 DEF KeyerInv
  <1>5. QuietInv'
    BY <1>1 DEF QuietInv
  <1> QED BY <1>2, <1>3, <1>4, <1>5

LEMMA CloseStep ==
  ASSUME Settable, DeviceInv, Close
  PROVE  DeviceInv'
PROOF
  <1> USE DEF DeviceInv
  <1>0. /\ pc = "close" /\ pc' = "init" /\ Both /\ Owns(old) /\ old \in Objects
        /\ UNCHANGED <<device, opt, pins, keyer, todo, low, auto, old, name, new, running,
                       arg, args, received>>
    BY DEF Close, PlaceInv, Both, TypeOK, playVars, counts, setVars
  <1>1. claimed' = {}
    <2>1. CASE old = "lp"
      BY <1>0, <2>1 DEF Close, Owns
    <2>2. CASE old # "lp"
      BY <1>0, <2>2 DEF Close, Owns
    <2> QED BY <2>1, <2>2
  <1>2. file' \in [1..FilesMax -> Ports \cup {None}] /\ fd' \in [Objects -> 0..FilesMax]
    BY <1>0, BoundsAssumption DEF Close, TypeOK
  <1>3. fd'["null"] = 0
    BY <1>0, <1>2 DEF Close, PlaceInv, TypeOK
  <1>4. \A n \in 1..FilesMax : file'[n] # None => n = new
    <2>1. CASE old = "null"
      BY <1>0, <2>1 DEF Both, Close, PlaceInv
    <2>2. CASE old # "null"
      <3>1. fd[old] \in 1..FilesMax
        BY <1>0, <2>2, AblePort DEF Owns
      <3>2. file' = [file EXCEPT ![fd[old]] = None]
        BY <3>1 DEF Close
      <3> QED BY <1>0, <3>1, <3>2 DEF Both, TypeOK
    <2> QED BY <2>1, <2>2
  <1>5. Probed'
    <2>1. name \in Ports => file'[new] = name
      <3>1. CASE fd[old] = 0
        BY <1>0, <3>1 DEF Both, Probed, Close
      <3>2. CASE fd[old] # 0
        <4>1. old # "null" /\ fd[old] # new
          BY <1>0, <3>2 DEF Both, PlaceInv
        <4>2. file' = [file EXCEPT ![fd[old]] = None]
          BY <3>2 DEF Close
        <4> QED BY <1>0, <4>1, <4>2 DEF Both, Probed, TypeOK
      <3> QED BY <3>1, <3>2
    <2> QED BY <1>0, <2>1 DEF Both, Probed, KindOf
  <1>6. TypeOK'
    BY <1>0, <1>1, <1>2 DEF TypeOK, Labels
  <1>7. PlaceInv'
    BY <1>0, <1>1, <1>3, <1>4, <1>5 DEF PlaceInv, Opened, Settled
  <1>8. KeyerInv'
    BY <1>0 DEF KeyerInv
  <1>9. QuietInv'
    BY <1>0 DEF QuietInv
  <1> QED BY <1>6, <1>7, <1>8, <1>9

LEMMA InitDeviceStep ==
  ASSUME Settable, DeviceInv, InitDevice
  PROVE  DeviceInv'
PROOF
  <1> USE DEF DeviceInv
  <1>0. /\ pc = "init" /\ Opened /\ claimed = {} /\ device = KindOf(name)
        /\ fd' = [fd EXCEPT ![device] = new]
        /\ UNCHANGED <<file, device, opt, keyer, todo, low, auto, old, name, new, running,
                       arg, args, received>>
    BY DEF InitDevice, PlaceInv, Opened, Probed, playVars, counts, setVars
  <1>1. /\ claimed' = IF device = "lp" THEN {name} ELSE {}
        /\ pc' = "register"
        /\ pins' = IF device = "null" THEN pins
                   ELSE [pins EXCEPT ![name] = @ \ Lines(device)]
    BY <1>0 DEF InitDevice
  <1>2. /\ device = "tty" => name \in Serial
        /\ device = "lp" => name \in Parallel
        /\ device = "null" => name \notin Ports
        /\ device # "null" => name \in Ports /\ new \in 1..FilesMax /\ file[new] = name
    BY <1>0 DEF KindOf, Ports, Opened, Probed
  <1>3. fd' \in [Objects -> 0..FilesMax] /\ fd'[device] = new /\ fd'["null"] = 0
    <2>1. fd \in [Objects -> 0..FilesMax] /\ device \in Objects /\ new \in 0..FilesMax
      BY DEF TypeOK
    <2>2. device = "null" => new = 0
      BY <1>0, <1>2 DEF Opened, Probed
    <2> QED BY <1>0, <2>1, <2>2 DEF PlaceInv, Objects
  <1>4. TypeOK'
    BY <1>0, <1>1, <1>2, <1>3 DEF TypeOK, Labels
  <1>5. device # "null" => Port(device)' = name /\ Able(device)'
    <2>1. ASSUME device # "null"
          PROVE  Port(device)' = name
      BY <1>0, <1>2, <1>3, <2>1 DEF Port
    <2>2. ASSUME device = "tty"
          PROVE  Able(device)'
      BY <1>0, <1>2, <1>3, <2>1, <2>2 DEF Able, PortsOf, TypeOK
    <2>3. ASSUME device = "lp"
          PROVE  Able(device)'
      BY <1>0, <1>1, <1>2, <1>3, <2>1, <2>3 DEF Able, PortsOf, TypeOK
    <2> QED BY <2>1, <2>2, <2>3 DEF TypeOK, Objects
  <1>6. PlaceInv'
    <2>1. Owns(device)'
      BY <1>0, <1>1, <1>5 DEF Owns
    <2>2. Placed'
      <3>1. \A n \in 1..FilesMax : file[n] # None => n = new
        BY <1>0 DEF Opened
      <3>2. device = "null" => new = 0
        BY <1>0, <1>2 DEF Opened, Probed
      <3> QED BY <1>0, <1>3, <2>1, <3>1, <3>2 DEF Placed
    <2> QED BY <1>0, <1>1, <1>3, <2>2 DEF PlaceInv, Settled
  <1>7. KeyerInv'
    BY <1>0, <1>1 DEF KeyerInv
  <1>8. QuietInv'
    <2>1. device # "null" => pins'[name] \cap Lines(device) = {}
      BY <1>0, <1>1, <1>2 DEF TypeOK
    <2>2. "none" \notin AnyLine /\ pins' \in [Ports -> SUBSET AnyLine]
      BY <1>4 DEF TypeOK, AnyLine, SerialLines, ParallelLines
    <2>3. ASSUME device = "tty"
          PROVE  opt.key \notin pins'[name] /\ opt.ptt \notin pins'[name]
      BY <1>2, <2>1, <2>2, <2>3, LinesType DEF Objects, Roles
    <2>4. ASSUME device = "lp"
          PROVE  "SELECT" \notin pins'[name]
      BY <2>1, <2>4, LinesType DEF Objects, Roles, ParallelLines
    <2> QED BY <1>0, <1>5, <2>3, <2>4 DEF QuietInv
  <1> QED BY <1>4, <1>6, <1>7, <1>8

\* A step that leaves the pins of the current device, and what is played,
\* alone keeps it quiet.
LEMMA SameQuiet ==
  ASSUME QuietInv, UNCHANGED <<device, fd, file, opt, pins, todo, auto>>,
         pc \in {"register", "args", "fork", "select"}
  PROVE  QuietInv'
PROOF
  <1>1. Port("tty")' = Port("tty") /\ Port("lp")' = Port("lp")
    BY DEF Port
  <1> QED BY <1>1 DEF QuietInv

LEMMA RegisterStep ==
  ASSUME Settable, DeviceInv, Register
  PROVE  DeviceInv'
PROOF
  <1> USE DEF DeviceInv
  <1>0. /\ pc = "register" /\ pc' = (IF running THEN "select" ELSE "args")
        /\ keyer' = IF running THEN device ELSE keyer
        /\ UNCHANGED <<device, opt, fd, file, claimed, pins, todo, low, auto, old, name,
                       new, running, arg, args, received>>
    BY DEF Register, playVars, counts, setVars, files
  <1>1. TypeOK'
    BY <1>0 DEF TypeOK, Labels
  <1>2. PlaceInv'
    BY <1>0, SamePlace DEF Settled
  <1>3. KeyerInv'
    BY <1>0 DEF KeyerInv, TypeOK
  <1>4. QuietInv'
    BY <1>0, SameQuiet
  <1> QED BY <1>1, <1>2, <1>3, <1>4

-----------------------------------------------------------------------------
(***************************************************************************)
(* Start.                                                                  *)
(***************************************************************************)
LEMMA ArgDeviceStep ==
  ASSUME Settable, DeviceInv, ArgDevice
  PROVE  DeviceInv'
PROOF
  <1> USE DEF DeviceInv
  <1>0. /\ pc = "args" /\ pc' = "probe" /\ old' = device /\ name' \in Names
        /\ args < MaxArgs /\ args' = args + 1
        /\ UNCHANGED <<device, opt, fd, file, claimed, pins, keyer, todo, low, auto, new,
                       running, arg, received>>
    BY DEF ArgDevice, SetStart, playVars, files
  <1>1. TypeOK'
    BY <1>0, BoundsAssumption DEF TypeOK, Labels
  <1>2. PlaceInv'
    <2>1. Owns(device)' = Owns(device)
      BY <1>0 DEF Owns, Able, Port, PortsOf
    <2> QED BY <1>0, <2>1 DEF PlaceInv, Placed, Settled
  <1>3. KeyerInv'
    BY <1>0 DEF KeyerInv
  <1>4. QuietInv'
    BY <1>0 DEF QuietInv
  <1> QED BY <1>1, <1>2, <1>3, <1>4

LEMMA ArgOptionStep ==
  ASSUME Settable, DeviceInv, ArgOption
  PROVE  DeviceInv'
PROOF
  <1> USE DEF DeviceInv
  <1>0. /\ pc = "args" /\ args < MaxArgs /\ args' = args + 1
        /\ UNCHANGED <<device, fd, file, claimed, keyer, todo, low, auto, old, name, new,
                       running, arg, received>>
    BY DEF ArgOption, playVars, files, setVars
  <1>1. CASE device # "tty"
    <2>1. pc' = "exit" /\ UNCHANGED <<opt, pins>>
      BY <1>1 DEF ArgOption
    <2>2. TypeOK'
      BY <1>0, <2>1, BoundsAssumption DEF TypeOK, Labels
    <2>3. PlaceInv'
      BY <1>0, <2>1, SamePlace DEF Settled
    <2>4. KeyerInv'
      BY <1>0, <2>1 DEF KeyerInv
    <2>5. QuietInv'
      BY <2>1 DEF QuietInv
    <2> QED BY <2>2, <2>3, <2>4, <2>5
  <1>2. CASE device = "tty"
    <2>1. PICK role \in Roles, l \in SerialLines \cup {"none"} :
            /\ opt' = [opt EXCEPT ![role] = l]
            /\ pins' = [pins EXCEPT ![Port("tty")] = @ \ {l}]
            /\ pc' = pc
      BY <1>2 DEF ArgOption
    <2>2. Port("tty") \in Ports
      BY <1>0, <1>2, AblePort DEF PlaceInv, Placed, Owns, Settled, Objects
    <2>3. /\ opt' \in [Roles -> SerialLines \cup {"none"}]
          /\ pins' \in [Ports -> SUBSET (SerialLines \cup ParallelLines)]
      BY <2>1, <2>2 DEF TypeOK
    <2>4. TypeOK'
      BY <1>0, <2>1, <2>3, BoundsAssumption DEF TypeOK
    <2>5. PlaceInv'
      BY <1>0, <2>1, SamePlace DEF Settled
    <2>6. KeyerInv'
      BY <1>0, <2>1 DEF KeyerInv
    <2>7. QuietInv'
      <3>1. todo = 0 /\ ~auto /\ todo \notin Odd
        BY <1>0 DEF KeyerInv, Odd
      <3>2. opt.key \notin pins[Port("tty")] /\ opt.ptt \notin pins[Port("tty")]
        BY <1>0, <1>2, <3>1 DEF QuietInv
      <3>3. \A r \in Roles : opt'[r] \notin pins'[Port("tty")]
        BY <2>1, <2>2, <3>2 DEF TypeOK, Roles
      <3>4. opt'.key \notin pins'[Port("tty")] /\ opt'.ptt \notin pins'[Port("tty")]
        BY <3>3 DEF Roles
      <3>5. Port("tty")' = Port("tty")
        BY <1>0 DEF Port
      <3> QED BY <1>0, <1>2, <3>4, <3>5 DEF QuietInv
    <2> QED BY <2>4, <2>5, <2>6, <2>7
  <1> QED BY <1>1, <1>2

LEMMA ArgsEndStep ==
  ASSUME Settable, DeviceInv, ArgsEnd
  PROVE  DeviceInv'
PROOF
  <1> USE DEF DeviceInv
  <1>0. /\ pc = "args" /\ pc' \in {"exit", "fork"}
        /\ UNCHANGED <<device, opt, fd, file, claimed, pins, keyer, todo, low, auto, old,
                       name, new, running, arg, args, received>>
    BY DEF ArgsEnd, playVars, files, setVars, counts
  <1>1. TypeOK'
    BY <1>0 DEF TypeOK, Labels
  <1>2. PlaceInv'
    BY <1>0, SamePlace DEF Settled
  <1>3. KeyerInv'
    BY <1>0 DEF KeyerInv
  <1>4. QuietInv'
    BY <1>0, SameQuiet
  <1> QED BY <1>1, <1>2, <1>3, <1>4

LEMMA StartStep ==
  ASSUME Settable, DeviceInv, Start
  PROVE  DeviceInv'
PROOF
  <1> USE DEF DeviceInv
  <1>0. /\ pc = "fork" /\ running' = TRUE /\ keyer' = device
        /\ Placed /\ Owns(device) /\ device \in Objects
        /\ todo = 0 /\ ~auto /\ arg = None /\ ~running
        /\ UNCHANGED <<device, opt, fd, file, todo, low, auto, old, name, new, arg, args,
                       received>>
    BY DEF Start, playVars, setVars, counts, PlaceInv, KeyerInv, Placed, Settled, TypeOK
  <1>1. claimed' = claimed
    <2>1. device = "lp" => ~Forking
      BY DEF Settable, PlaceInv
    <2> QED BY <2>1 DEF Start
  <1>2. /\ pc' = "select" /\ pins' \in [Ports -> SUBSET AnyLine]
        /\ pins' = pins \/ (Able(device) /\
             pins' = [pins EXCEPT ![Port(device)] = @ \ Lines(device)])
    <2>1. CASE Forking
      BY <1>0, <2>1, LinesType, SetLinesWorks DEF Start, Owns, Roles
    <2>2. CASE ~Forking
      BY <2>2 DEF Start, TypeOK, AnyLine
    <2> QED BY <2>1, <2>2
  <1>3. TypeOK'
    BY <1>0, <1>1, <1>2 DEF TypeOK, Labels, AnyLine
  <1>4. PlaceInv'
    BY <1>0, <1>1, <1>2, SamePlace DEF Settled
  <1>5. KeyerInv'
    BY <1>0, <1>2 DEF KeyerInv
  <1>6. QuietInv'
    <2>1. device # "null" => Port(device) \in Ports
      BY <1>0, AblePort DEF Owns
    <2>2. device # "null" => pins'[Port(device)] \subseteq pins[Port(device)]
      BY <1>2, <2>1 DEF TypeOK
    <2>3. Port("tty")' = Port("tty") /\ Port("lp")' = Port("lp")
      BY <1>0 DEF Port
    <2> QED BY <1>0, <2>2, <2>3 DEF QuietInv
  <1> QED BY <1>3, <1>4, <1>5, <1>6

-----------------------------------------------------------------------------
(***************************************************************************)
(* Requests.  They find the current device with its port, registered, and  *)
(* no keying event in the middle.                                          *)
(***************************************************************************)
LEMMA AtRequest ==
  ASSUME Settable, DeviceInv, pc = "select"
  PROVE  /\ running /\ keyer = device /\ device \in Objects
         /\ Owns(device) /\ (device # "null" => Port(device) \in Ports)
         /\ Lines(device) \subseteq AnyLine
         /\ device = "null" => Lines(device) = {}
PROOF
  <1>1. running /\ keyer = device /\ device \in Objects /\ Owns(device)
    BY DEF DeviceInv, KeyerInv, PlaceInv, Placed, Settled, TypeOK
  <1>2. device # "null" => Port(device) \in Ports
    BY <1>1, AblePort DEF Owns, DeviceInv
  <1> QED BY <1>1, <1>2, LinesType DEF DeviceInv, Roles

\* A request that keeps device and files, and leaves arg as it is.
LEMMA RequestKeeps ==
  ASSUME Settable, DeviceInv, pc = "select", pc' \in {"select", "exit", "exited"},
         keyer' = device, pins' \in [Ports -> SUBSET AnyLine],
         todo' \in 0..Capacity, low' \in BOOLEAN, auto' \in BOOLEAN,
         received' \in 0..MaxRequests, arg = None,
         UNCHANGED <<device, opt, files, setVars, running, args, arg>>
  PROVE  TypeOK' /\ PlaceInv' /\ KeyerInv'
PROOF
  <1> USE DEF DeviceInv
  <1>1. TypeOK'
    BY DEF TypeOK, Labels, AnyLine, files, setVars
  <1>2. PlaceInv'
    BY SamePlace DEF files, setVars, Settled
  <1>3. KeyerInv'
    BY DEF KeyerInv
  <1> QED BY <1>1, <1>2, <1>3

LEMMA ReceivedType ==
  ASSUME Settable, TypeOK, NEW kind, Request(kind)
  PROVE  /\ pc = "select" /\ received' \in 0..MaxRequests /\ arg = None
         /\ UNCHANGED <<running, args>>
PROOF BY BoundsAssumption DEF Request, Settable, TypeOK

\* What QuietInv says of one device, given its port's lines.
LEMMA QuietNext ==
  ASSUME DeviceInv, UNCHANGED <<device, opt, files>>, pc' = "select",
         device = "tty" =>
           /\ opt.key \in pins'[Port("tty")] => todo' \in Odd \/ (auto' /\ opt.key = opt.ptt)
           /\ opt.ptt \in pins'[Port("tty")] => auto' \/ (todo' \in Odd /\ opt.key = opt.ptt),
         device = "lp" /\ "SELECT" \in pins'[Port("lp")] => todo' \in Odd
  PROVE  QuietInv'
PROOF
  <1>1. Port("tty")' = Port("tty") /\ Port("lp")' = Port("lp")
    BY DEF Port, files
  <1> QED BY <1>1 DEF QuietInv

LEMMA OddSum ==
  /\ \A n \in Odd : n + Events <= Capacity => n + Events \in Odd
  /\ 0 \notin Odd /\ Capacity \in Nat
  /\ \A n \in 1..Capacity : n - 1 \in Odd <=> n \notin Odd
  /\ \A n \in 1..Capacity : n \in Odd <=> n % 2 # 0
PROOF
  <1>1. Capacity = 8 /\ Events = 4
    BY DEF Capacity, Events
  <1>2. Odd = {1, 3, 5, 7}
    <2>1. \A n \in 0..8 : n \in {0, 1, 2, 3, 4, 5, 6, 7, 8}
      OBVIOUS
    <2>2. /\ 0 % 2 = 0 /\ 1 % 2 = 1 /\ 2 % 2 = 0 /\ 3 % 2 = 1 /\ 4 % 2 = 0
          /\ 5 % 2 = 1 /\ 6 % 2 = 0 /\ 7 % 2 = 1 /\ 8 % 2 = 0
      OBVIOUS
    <2> QED BY <1>1, <2>1, <2>2 DEF Odd
  <1>3. \A n \in 0..8 : n % 2 = 0 \/ n % 2 = 1
    OBVIOUS
  <1>4. \A n \in 1..Capacity : n \in Odd <=> n % 2 # 0
    BY <1>1, <1>3 DEF Odd
  <1> QED BY <1>1, <1>2, <1>4

LEMMA TextStep ==
  ASSUME Settable, DeviceInv, Text
  PROVE  DeviceInv'
PROOF
  <1> USE DEF DeviceInv
  <1>0. /\ pc = "select" /\ received' \in 0..MaxRequests /\ arg = None
        /\ UNCHANGED <<device, opt, files, keyer, low, setVars, running, args, arg>>
        /\ auto' = TRUE
        /\ keyer = device /\ device \in Objects /\ Owns(device)
    BY ReceivedType, AtRequest DEF Text
  <1>1. /\ todo' \in 0..Capacity
        /\ todo \in Odd => todo' \in Odd
    BY OddSum DEF Text, TypeOK, Events, Capacity
  <1> DEFINE L == {Line(device, "ptt")} \ {"none"}
  <1>2. /\ L \subseteq AnyLine /\ (device = "null" => L = {})
        /\ device = "tty" => L = {opt.ptt} \ {"none"}
        /\ device = "lp" => L = {"INIT"}
    BY <1>0, LinesType DEF Roles
  <1>3. /\ pc' = "select" /\ pins' \in [Ports -> SUBSET AnyLine]
        /\ pins' = pins \/ (Able(device) /\
             pins' = [pins EXCEPT ![Port(device)] = @ \cup L])
    <2>1. CASE auto
      BY <1>0, <2>1 DEF Text, TypeOK, AnyLine
    <2>2. CASE ~auto
      <3>1. SetLines(device, L, TRUE, "select")
        BY <2>2 DEF Text, SetLine
      <3> QED BY <1>0, <1>2, <3>1, SetLinesWorks DEF Owns
    <2> QED BY <2>1, <2>2
  <1>4. TypeOK' /\ PlaceInv' /\ KeyerInv'
    BY <1>0, <1>1, <1>3, RequestKeeps DEF TypeOK
  <1>5. QuietInv'
    <2>1. device # "null" => Port(device) \in Ports
      BY <1>0, AtRequest
    <2>2. device # "null" => pins'[Port(device)] \subseteq pins[Port(device)] \cup L
      BY <1>3, <2>1 DEF TypeOK
    <2>3. /\ device = "tty" =>
               /\ opt.key \in pins[Port("tty")] => todo \in Odd \/ (auto /\ opt.key = opt.ptt)
          /\ device = "lp" /\ "SELECT" \in pins[Port("lp")] => todo \in Odd
      BY <1>0 DEF QuietInv
    <2> QED BY <1>0, <1>1, <1>2, <1>3, <2>2, <2>3, QuietNext
  <1> QED BY <1>4, <1>5

LEMMA DeviceStep ==
  ASSUME Settable, DeviceInv, Device
  PROVE  DeviceInv'
PROOF
  <1> USE DEF DeviceInv
  <1>0. /\ pc = "select" /\ pc' = "probe" /\ old' = device /\ name' \in Names
        /\ received' \in 0..MaxRequests /\ arg = None /\ running /\ keyer' = None
        /\ UNCHANGED <<device, opt, fd, file, claimed, pins, todo, low, auto, new, running,
                       args, arg>>
    BY ReceivedType, AtRequest DEF Device, SetStart, playVars, files
  <1>1. TypeOK'
    BY <1>0 DEF TypeOK, Labels
  <1>2. PlaceInv'
    <2>1. Owns(device)' = Owns(device)
      BY <1>0 DEF Owns, Able, Port, PortsOf
    <2> QED BY <1>0, <2>1 DEF PlaceInv, Placed, Settled
  <1>3. KeyerInv'
    BY <1>0 DEF KeyerInv
  <1>4. QuietInv'
    BY <1>0 DEF QuietInv
  <1> QED BY <1>1, <1>2, <1>3, <1>4

\* The generator is stopped by <ESC>f and <ESC>5; a mark that is played ends.
LEMMA StopGeneratorWorks ==
  ASSUME Settable, DeviceInv, pc = "select", NEW next, StopGenerator(next),
         UNCHANGED <<device, opt, files, auto>>
  PROVE  /\ pc' = next /\ pins' \in [Ports -> SUBSET AnyLine]
         /\ todo' = 0 /\ low' = FALSE
         /\ pc' = "select" => QuietInv'
PROOF
  <1> USE DEF DeviceInv
  <1> DEFINE L == {Line(device, "key")} \ {"none"}
  <1>0. /\ keyer = device /\ device \in Objects /\ Owns(device) /\ keyer # None
        /\ device # "null" => Port(device) \in Ports
    BY AtRequest, PortsAssumption
  <1>1. /\ L \subseteq AnyLine /\ (device = "null" => L = {})
        /\ device = "tty" => L = {opt.key} \ {"none"}
        /\ device = "lp" => L = {"SELECT"}
    BY <1>0, LinesType DEF Roles
  <1>2. /\ todo' = 0 /\ low' = FALSE
        /\ pc' = next /\ pins' \in [Ports -> SUBSET AnyLine]
        /\ IF todo % 2 = 1 THEN Able(device) => pins' = [pins EXCEPT ![Port(device)] = @ \ L]
                           ELSE pins' = pins
    <2>1. CASE todo % 2 = 1
      <3>1. SetLines(device, L, FALSE, next)
        BY <1>0, <2>1 DEF StopGenerator, SetLine
      <3> QED BY <1>0, <1>1, <2>1, <3>1, SetLinesWorks DEF Owns, StopGenerator
    <2>2. CASE todo % 2 # 1
      BY <2>2 DEF StopGenerator, TypeOK, AnyLine
    <2> QED BY <2>1, <2>2
  <1>3. ASSUME pc' = "select"
        PROVE  QuietInv'
    <2>1. todo \in Odd <=> todo % 2 = 1
      BY DEF Odd, TypeOK
    <2>2. opt.key \notin {"none"} \/ opt.key \notin AnyLine
      BY DEF AnyLine, SerialLines, ParallelLines
    <2>3. device # "null" => pins[Port(device)] \subseteq AnyLine
      BY <1>0 DEF TypeOK, AnyLine
    <2>4. device # "null" => pins'[Port(device)] =
            IF todo \in Odd THEN pins[Port(device)] \ L ELSE pins[Port(device)]
      BY <1>0, <1>2, <2>1 DEF TypeOK, Owns
    <2>5. /\ device = "tty" =>
               /\ opt.key \in pins[Port("tty")] => todo \in Odd \/ (auto /\ opt.key = opt.ptt)
               /\ opt.ptt \in pins[Port("tty")] => auto \/ (todo \in Odd /\ opt.key = opt.ptt)
          /\ device = "lp" /\ "SELECT" \in pins[Port("lp")] => todo \in Odd
      BY DEF QuietInv
    <2>6. /\ device = "tty" =>
               /\ opt.key \in pins'[Port("tty")] => auto /\ opt.key = opt.ptt
               /\ opt.ptt \in pins'[Port("tty")] => auto
          /\ device = "lp" => "SELECT" \notin pins'[Port("lp")]
      <3>1. ASSUME device = "tty"
            PROVE  /\ opt.key \in pins'[Port("tty")] => auto /\ opt.key = opt.ptt
                   /\ opt.ptt \in pins'[Port("tty")] => auto
        BY <1>1, <2>2, <2>3, <2>4, <2>5, <3>1
      <3>2. ASSUME device = "lp"
            PROVE  "SELECT" \notin pins'[Port("lp")]
        BY <1>1, <2>4, <2>5, <3>2
      <3> QED BY <3>1, <3>2
    <2> QED BY <1>2, <1>3, <2>6, QuietNext
  <1> QED BY <1>2, <1>3

LEMMA SoundStep ==
  ASSUME Settable, DeviceInv, Sound
  PROVE  DeviceInv'
PROOF
  <1>0. /\ pc = "select" /\ received' \in 0..MaxRequests /\ arg = None
        /\ UNCHANGED <<device, opt, files, auto, setVars, running, args, arg>>
        /\ keyer' = device /\ StopGenerator("select")
    BY ReceivedType DEF Sound, DeviceInv
  <1>1. /\ pc' = "select" /\ pins' \in [Ports -> SUBSET AnyLine]
        /\ todo' = 0 /\ low' = FALSE /\ QuietInv'
    BY <1>0, StopGeneratorWorks
  <1>2. todo' \in 0..Capacity /\ low' \in BOOLEAN /\ auto' \in BOOLEAN
    <2>1. 0 \in 0..Capacity
      BY OddSum
    <2> QED BY <1>0, <1>1, <2>1 DEF DeviceInv, TypeOK
  <1>3. TypeOK' /\ PlaceInv' /\ KeyerInv'
    BY <1>0, <1>1, <1>2, RequestKeeps
  <1> QED BY <1>1, <1>3 DEF DeviceInv

LEMMA ExitStep ==
  ASSUME Settable, DeviceInv, Exit
  PROVE  DeviceInv'
PROOF
  <1>0. /\ pc = "select" /\ received' \in 0..MaxRequests /\ arg = None
        /\ UNCHANGED <<device, opt, files, keyer, auto, setVars, running, args, arg>>
        /\ StopGenerator("exit") /\ keyer = device
    BY ReceivedType, AtRequest DEF Exit, DeviceInv
  <1>1. /\ pc' = "exit" /\ pins' \in [Ports -> SUBSET AnyLine]
        /\ todo' = 0 /\ low' = FALSE
    BY <1>0, StopGeneratorWorks
  <1>2. todo' \in 0..Capacity /\ low' \in BOOLEAN /\ auto' \in BOOLEAN
    <2>1. 0 \in 0..Capacity
      BY OddSum
    <2> QED BY <1>0, <1>1, <2>1 DEF DeviceInv, TypeOK
  <1>3. TypeOK' /\ PlaceInv' /\ KeyerInv'
    BY <1>0, <1>1, <1>2, RequestKeeps
  <1>4. QuietInv'
    BY <1>1 DEF QuietInv
  <1> QED BY <1>3, <1>4 DEF DeviceInv

LEMMA ResetStep ==
  ASSUME Settable, DeviceInv, Reset
  PROVE  DeviceInv'
PROOF
  <1>0. /\ pc = "select" /\ received' \in 0..MaxRequests /\ arg = None
        /\ UNCHANGED <<device, opt, files, setVars, running, args, arg>>
        /\ todo' = 0 /\ low' = FALSE /\ auto' = FALSE /\ keyer' = device
        /\ SetLines(device, Lines(device), FALSE, "select")
        /\ device \in Objects /\ Owns(device)
        /\ Lines(device) \subseteq AnyLine /\ (device = "null" => Lines(device) = {})
        /\ (device # "null" => Port(device) \in Ports)
    BY ReceivedType, AtRequest DEF Reset, DeviceInv
  <1>1. /\ pc' = "select" /\ pins' \in [Ports -> SUBSET AnyLine]
        /\ Able(device) => pins' = [pins EXCEPT ![Port(device)] = @ \ Lines(device)]
    BY <1>0, SetLinesWorks DEF Owns, DeviceInv
  <1>2. TypeOK' /\ PlaceInv' /\ KeyerInv'
    <2>1. todo' \in 0..Capacity /\ low' \in BOOLEAN /\ auto' \in BOOLEAN
      <3>1. 0 \in 0..Capacity
        BY OddSum
      <3> QED BY <1>0, <3>1
    <2> QED BY <1>0, <1>1, <2>1, RequestKeeps
  <1>3. QuietInv'
    <2>1. device # "null" => pins'[Port(device)] \cap Lines(device) = {}
      BY <1>0, <1>1 DEF Owns, DeviceInv, TypeOK
    <2>2. "none" \notin AnyLine /\ (device # "null" => pins'[Port(device)] \subseteq AnyLine)
      BY <1>0, <1>1 DEF AnyLine, SerialLines, ParallelLines
    <2>3. /\ Lines("tty") = {opt.key, opt.ptt} \ {"none"} /\ Lines("lp") = ParallelLines
      BY LinesType DEF DeviceInv, Objects, Roles
    <2>4. ASSUME device = "tty"
          PROVE  opt.key \notin pins'[Port("tty")] /\ opt.ptt \notin pins'[Port("tty")]
      BY <2>1, <2>2, <2>3, <2>4
    <2>5. ASSUME device = "lp"
          PROVE  "SELECT" \notin pins'[Port("lp")]
      BY <2>1, <2>3, <2>5 DEF ParallelLines
    <2> QED BY <1>0, <1>1, <2>4, <2>5, QuietNext
  <1> QED BY <1>2, <1>3 DEF DeviceInv

\* Lines of the parallel port that do not key.
LEMMA OtherLineStep ==
  ASSUME Settable, DeviceInv, pc = "select", arg = None,
         NEW L \in SUBSET AnyLine, NEW on \in BOOLEAN, "SELECT" \notin L,
         device # "lp" => L = {},
         SetLines(device, L, on, "select"), received' \in 0..MaxRequests,
         UNCHANGED <<device, opt, files, keyer, playVars, setVars, running, args, arg>>
  PROVE  DeviceInv'
PROOF
  <1>0. /\ device \in Objects /\ Owns(device) /\ keyer = device
        /\ (device # "null" => Port(device) \in Ports)
    BY AtRequest
  <1>1. /\ pc' = "select" /\ pins' \in [Ports -> SUBSET AnyLine]
        /\ L = {} => pins' = pins
        /\ Able(device) =>
             pins' = [pins EXCEPT ![Port(device)] = IF on THEN @ \cup L ELSE @ \ L]
    BY <1>0, SetLinesWorks DEF Owns, DeviceInv
  <1>2. TypeOK' /\ PlaceInv' /\ KeyerInv'
    BY <1>0, <1>1, RequestKeeps DEF DeviceInv, TypeOK, playVars
  <1>3. QuietInv'
    <2>1. device = "lp" => ("SELECT" \in pins'[Port("lp")] => "SELECT" \in pins[Port("lp")])
      BY <1>0, <1>1 DEF Owns, DeviceInv, TypeOK
    <2>2. device = "tty" => pins' = pins
      BY <1>1
    <2> QED BY <1>1, <2>1, <2>2, QuietNext DEF DeviceInv, QuietInv, playVars
  <1> QED BY <1>2, <1>3 DEF DeviceInv

LEMMA OutputStep ==
  ASSUME Settable, DeviceInv, SsbWay \/ SwitchBand
  PROVE  DeviceInv'
PROOF
  <1>1. ASSUME NEW kind, NEW line \in {"AUTOFD", "DATA"}, Output(kind, line)
        PROVE  DeviceInv'
    <2>1. PICK on \in BOOLEAN : SetLines(device, {line} \cap Lines(device), on, "select")
      BY <1>1 DEF Output
    <2>2. /\ pc = "select" /\ received' \in 0..MaxRequests /\ arg = None
          /\ UNCHANGED <<device, opt, files, keyer, playVars, setVars, running, args, arg>>
      BY <1>1, ReceivedType DEF Output, DeviceInv
    <2>3. {line} \cap Lines(device) \subseteq AnyLine
      BY DEF AnyLine, ParallelLines
    <2>4. device # "lp" => {line} \cap Lines(device) = {}
      <3>1. device \in Objects
        BY DEF DeviceInv, TypeOK
      <3> QED BY <3>1, LinesType DEF DeviceInv, Objects, Roles, SerialLines
    <2> QED BY <2>1, <2>2, <2>3, <2>4, OtherLineStep
  <1> QED BY <1>1 DEF SsbWay, SwitchBand

LEMMA FootswitchStep ==
  ASSUME Settable, DeviceInv, Footswitch
  PROVE  DeviceInv'
PROOF
  <1>1. PICK on \in BOOLEAN : SetLine("lp", "ptt", on, "select")
    BY DEF Footswitch
  <1>2. {Line("lp", "ptt")} \ {"none"} = {"INIT"}
    BY LinesType DEF DeviceInv, Objects, Roles
  <1>3. /\ pc = "select" /\ arg = None /\ device = "lp"
        /\ UNCHANGED <<device, opt, files, keyer, playVars, setVars, running, counts, arg>>
    BY DEF Footswitch, Settable
  <1>4. SetLines(device, {"INIT"}, on, "select")
    BY <1>1, <1>2, <1>3 DEF SetLine
  <1> QED BY <1>3, <1>4, OtherLineStep
          DEF AnyLine, ParallelLines, counts, DeviceInv, TypeOK

LEMMA ExitFreeStep ==
  ASSUME Settable, DeviceInv, ExitFree
  PROVE  DeviceInv'
PROOF
  <1> USE DEF DeviceInv
  <1>0. /\ pc = "exit" /\ Owns(device) /\ device \in Objects
        /\ SetLines(device, Lines(device), FALSE, "exited")
        /\ UNCHANGED <<device, opt, fd, file, claimed, keyer, todo, low, auto, old, name,
                       new, running, arg, args, received>>
    BY DEF ExitFree, PlaceInv, Placed, Settled, TypeOK, files, playVars, setVars, counts
  <1>1. pc' = "exited" /\ pins' \in [Ports -> SUBSET AnyLine]
    BY <1>0, LinesType, SetLinesWorks DEF Owns, Roles
  <1>2. TypeOK'
    BY <1>0, <1>1 DEF TypeOK, AnyLine, Labels
  <1>3. PlaceInv'
    BY <1>0, <1>1, SamePlace DEF Settled
  <1>4. KeyerInv'
    BY <1>0, <1>1 DEF KeyerInv
  <1>5. QuietInv'
    BY <1>1 DEF QuietInv
  <1> QED BY <1>2, <1>3, <1>4, <1>5

-----------------------------------------------------------------------------
(***************************************************************************)
(* The generator's thread, which runs while select() blocks.               *)
(***************************************************************************)
LEMMA LoadKeyerStep ==
  ASSUME Settable, DeviceInv, LoadKeyer
  PROVE  DeviceInv'
PROOF
  <1> USE DEF DeviceInv
  <1>0. /\ pc = "select" /\ keyer = device /\ arg' = device /\ device \in Objects
        /\ todo > 0 /\ running
        /\ UNCHANGED <<device, opt, fd, file, claimed, pins, keyer, todo, low, auto, pc,
                       old, name, new, running, args, received>>
    BY DEF LoadKeyer, MayGenerate, Settable, KeyerInv, TypeOK, files, playVars, setVars,
           counts
  <1>1. TypeOK'
    BY <1>0 DEF TypeOK
  <1>2. PlaceInv'
    BY <1>0, SamePlace DEF Settled
  <1>3. KeyerInv'
    BY <1>0 DEF KeyerInv
  <1>4. QuietInv'
    BY <1>0, SameQuiet
  <1> QED BY <1>1, <1>2, <1>3, <1>4

LEMMA UnkeyedEventStep ==
  ASSUME Settable, DeviceInv, UnkeyedEvent
  PROVE  DeviceInv'
PROOF
  <1>1. pc = "select" /\ keyer = None
    BY DEF UnkeyedEvent, MayGenerate, Settable
  <1>2. keyer \in Objects
    BY <1>1, AtRequest
  <1> QED BY <1>1, <1>2, PortsAssumption

LEMMA KeyingEventStep ==
  ASSUME Settable, DeviceInv, KeyingEvent
  PROVE  DeviceInv'
PROOF
  <1> USE DEF DeviceInv
  <1> DEFINE L == {Line(device, "key")} \ {"none"}
  <1>0. /\ pc = "select" /\ arg = device /\ keyer = device /\ running
        /\ device \in Objects /\ Owns(device)
        /\ (device # "null" => Port(device) \in Ports)
        /\ arg' = None /\ todo' = todo - 1 /\ low' = (todo = 1)
        /\ SetLines(device, L, todo % 2 = 0, "select")
        /\ UNCHANGED <<device, opt, files, keyer, auto, setVars, running, args, received>>
    BY AtRequest DEF KeyingEvent, SetLine, KeyerInv, counts, MayGenerate, Settable
  <1>1. todo \in 1..Capacity /\ todo' \in 0..Capacity /\ low' \in BOOLEAN
    BY <1>0 DEF KeyingEvent, KeyerInv, TypeOK, Capacity, Events
  <1>2. /\ todo \in Odd <=> todo % 2 # 0
        /\ todo' \in Odd <=> todo \notin Odd
    BY <1>0, <1>1, OddSum
  <1>3. /\ L \subseteq AnyLine /\ (device = "null" => L = {})
        /\ device = "tty" => L = {opt.key} \ {"none"}
        /\ device = "lp" => L = {"SELECT"}
    BY <1>0, LinesType DEF Roles
  <1>4. /\ pc' = "select" /\ pins' \in [Ports -> SUBSET AnyLine]
        /\ Able(device) => pins' = [pins EXCEPT ![Port(device)] =
                                       IF todo % 2 = 0 THEN @ \cup L ELSE @ \ L]
    <2>1. CASE todo % 2 = 0
      <3>1. SetLines(device, L, TRUE, "select")
        BY <1>0, <2>1 DEF SetLines
      <3> QED BY <1>0, <1>3, <2>1, <3>1, SetLinesWorks DEF Owns
    <2>2. CASE todo % 2 # 0
      <3>1. SetLines(device, L, FALSE, "select")
        BY <1>0, <2>2 DEF SetLines
      <3> QED BY <1>0, <1>3, <2>2, <3>1, SetLinesWorks DEF Owns
    <2> QED BY <2>1, <2>2
  <1>5. TypeOK'
    BY <1>0, <1>1, <1>4 DEF TypeOK, AnyLine, files, setVars
  <1>6. PlaceInv'
    BY <1>0, <1>4, SamePlace DEF files, setVars, Settled
  <1>7. KeyerInv'
    BY <1>0, <1>4 DEF KeyerInv
  <1>8. QuietInv'
    <2>1. /\ device = "tty" =>
               /\ opt.key \in pins[Port("tty")] => todo \in Odd \/ (auto /\ opt.key = opt.ptt)
               /\ opt.ptt \in pins[Port("tty")] => auto \/ (todo \in Odd /\ opt.key = opt.ptt)
          /\ device = "lp" /\ "SELECT" \in pins[Port("lp")] => todo \in Odd
      BY <1>0 DEF QuietInv
    <2>2. device # "null" =>
            /\ pins[Port(device)] \subseteq AnyLine
            /\ pins'[Port(device)] = IF todo \notin Odd THEN pins[Port(device)] \cup L
                                                       ELSE pins[Port(device)] \ L
      BY <1>0, <1>2, <1>4 DEF Owns, TypeOK, AnyLine
    <2>3. "none" \notin AnyLine
      BY DEF AnyLine, SerialLines, ParallelLines
    <2>4. ASSUME device = "tty"
          PROVE  /\ opt.key \in pins'[Port("tty")] => todo' \in Odd \/ (auto /\ opt.key = opt.ptt)
                 /\ opt.ptt \in pins'[Port("tty")] => auto \/ (todo' \in Odd /\ opt.key = opt.ptt)
      BY <1>2, <1>3, <2>1, <2>2, <2>3, <2>4
    <2>5. ASSUME device = "lp"
          PROVE  "SELECT" \in pins'[Port("lp")] => todo' \in Odd
      BY <1>2, <1>3, <2>1, <2>2, <2>5
    <2> QED BY <1>0, <1>4, <2>4, <2>5, QuietNext
  <1> QED BY <1>5, <1>6, <1>7, <1>8

LEMMA PttOffStep ==
  ASSUME Settable, DeviceInv, PttOff
  PROVE  DeviceInv'
PROOF
  <1> USE DEF DeviceInv
  <1> DEFINE L == {Line(device, "ptt")} \ {"none"}
  <1>0. /\ pc = "select" /\ keyer = device /\ running
        /\ device \in Objects /\ Owns(device)
        /\ (device # "null" => Port(device) \in Ports)
        /\ low' = FALSE /\ auto' = (auto /\ todo > 0)
        /\ UNCHANGED <<device, opt, files, keyer, todo, setVars, running, counts, arg>>
    BY AtRequest DEF PttOff, MayGenerate, Settable
  <1>1. /\ L \subseteq AnyLine /\ (device = "null" => L = {})
        /\ device = "tty" => L = {opt.ptt} \ {"none"}
        /\ device = "lp" => L = {"INIT"}
    BY <1>0, LinesType DEF Roles
  <1>2. /\ pc' = "select" /\ pins' \in [Ports -> SUBSET AnyLine]
        /\ auto /\ todo = 0 =>
             (Able(device) => pins' = [pins EXCEPT ![Port(device)] = @ \ L])
        /\ ~(auto /\ todo = 0) => pins' = pins
    <2>1. CASE auto /\ todo = 0
      <3>1. SetLines(device, L, FALSE, "select")
        BY <1>0, <2>1 DEF PttOff, SetLine
      <3> QED BY <1>0, <1>1, <2>1, <3>1, SetLinesWorks DEF Owns
    <2>2. CASE ~(auto /\ todo = 0)
      BY <1>0, <2>2 DEF PttOff, TypeOK, AnyLine
    <2> QED BY <2>1, <2>2
  <1>3. TypeOK'
    BY <1>0, <1>2 DEF TypeOK, AnyLine, files, setVars, counts
  <1>4. PlaceInv'
    BY <1>0, <1>2, SamePlace DEF files, setVars, Settled
  <1>5. KeyerInv'
    BY <1>0, <1>2 DEF KeyerInv
  <1>6. QuietInv'
    <2>1. /\ device = "tty" =>
               /\ opt.key \in pins[Port("tty")] => todo \in Odd \/ (auto /\ opt.key = opt.ptt)
               /\ opt.ptt \in pins[Port("tty")] => auto \/ (todo \in Odd /\ opt.key = opt.ptt)
          /\ device = "lp" /\ "SELECT" \in pins[Port("lp")] => todo \in Odd
      BY <1>0 DEF QuietInv
    <2>2. CASE auto /\ todo = 0
      <3>1. device # "null" => /\ pins[Port(device)] \subseteq AnyLine
                               /\ pins'[Port(device)] = pins[Port(device)] \ L
        BY <1>0, <1>2, <2>2 DEF Owns, TypeOK, AnyLine
      <3>2. todo \notin Odd /\ "none" \notin AnyLine
        BY <2>2, OddSum DEF AnyLine, SerialLines, ParallelLines
      <3>3. ASSUME device = "tty"
            PROVE  opt.key \notin pins'[Port("tty")] /\ opt.ptt \notin pins'[Port("tty")]
        BY <1>1, <2>1, <3>1, <3>2, <3>3
      <3>4. ASSUME device = "lp"
            PROVE  "SELECT" \notin pins'[Port("lp")]
        BY <1>1, <2>1, <3>1, <3>2, <3>4
      <3> QED BY <1>0, <1>2, <3>3, <3>4, QuietNext
    <2>3. CASE ~(auto /\ todo = 0)
      <3>1. auto' = auto
        BY <1>0, <2>3 DEF TypeOK
      <3> QED BY <1>0, <1>2, <2>1, <2>3, <3>1, QuietNext
    <2> QED BY <2>2, <2>3
  <1> QED BY <1>3, <1>4, <1>5, <1>6

-----------------------------------------------------------------------------
(***************************************************************************)
(* Every step keeps the invariant.                                         *)
(***************************************************************************)
LEMMA InitInv ==
  ASSUME Settable, Init
  PROVE  DeviceInv
PROOF
  <1>1. TypeOK
    <2>1. opt \in [Roles -> SerialLines \cup {"none"}]
      BY DEF Init, Roles, SerialLines
    <2>2. /\ fd \in [Objects -> 0..FilesMax] /\ file \in [1..FilesMax -> Ports \cup {None}]
          /\ pins \in [Ports -> SUBSET (SerialLines \cup ParallelLines)]
      BY BoundsAssumption DEF Init
    <2>3. todo \in 0..Capacity /\ new \in 0..FilesMax /\ args \in 0..MaxArgs
            /\ received \in 0..MaxRequests
      BY BoundsAssumption, OddSum DEF Init
    <2> QED BY <2>1, <2>2, <2>3 DEF Init, TypeOK, Objects, Labels
  <1>2. PlaceInv
    <2>1. Placed
      BY DEF Init, Placed, Owns
    <2> QED BY <2>1, PortsAssumption DEF Init, PlaceInv, Settled, Objects, Ports
  <1>3. KeyerInv
    BY DEF Init, KeyerInv
  <1>4. QuietInv
    BY DEF Init, QuietInv
  <1> QED BY <1>1, <1>2, <1>3, <1>4 DEF DeviceInv

LEMMA StutterInv ==
  ASSUME DeviceInv, UNCHANGED vars
  PROVE  DeviceInv'
PROOF
  <1> USE DEF vars, files, playVars, setVars, counts
  <1>1. Port("tty")' = Port("tty") /\ Port("lp")' = Port("lp")
    BY DEF Port
  <1>2. Owns(device)' = Owns(device) /\ Owns(old)' = Owns(old)
    BY DEF Owns, Able, Port, PortsOf
  <1>3. Placed' = Placed /\ Both' = Both /\ Opened' = Opened
    BY <1>2 DEF Placed, Both, Opened, Probed
  <1>4. TypeOK' = TypeOK
    BY DEF TypeOK
  <1>5. PlaceInv' /\ KeyerInv' /\ QuietInv'
    BY <1>1, <1>3 DEF DeviceInv, PlaceInv, KeyerInv, QuietInv
  <1> QED BY <1>4, <1>5 DEF DeviceInv

LEMMA NextInv ==
  ASSUME Settable, DeviceInv, [Next]_vars
  PROVE  DeviceInv'
PROOF
  <1>1. CASE CwdeviceSet
    BY <1>1, ProbeStep, FreePinsStep, CloseStep, InitDeviceStep, RegisterStep
       DEF CwdeviceSet
  <1>2. CASE Startup
    BY <1>2, ArgDeviceStep, ArgOptionStep, ArgsEndStep, StartStep DEF Startup
  <1>3. CASE Requested
    BY <1>3, TextStep, DeviceStep, SoundStep, ResetStep, OutputStep, FootswitchStep,
       ExitStep, StutterInv DEF Requested, SelectTimeout
  <1>4. CASE ExitFree
    BY <1>4, ExitFreeStep
  <1>5. CASE Generator
    BY <1>5, LoadKeyerStep, KeyingEventStep, UnkeyedEventStep, PttOffStep DEF Generator
  <1>6. CASE Terminated \/ UNCHANGED vars
    BY <1>6, StutterInv DEF Terminated
  <1> QED BY <1>1, <1>2, <1>3, <1>4, <1>5, <1>6 DEF Next

LEMMA Invariance ==
  ASSUME Settable
  PROVE  Spec => []DeviceInv
PROOF
  <1>1. Init => DeviceInv
    BY InitInv
  <1>2. DeviceInv /\ [Next]_vars => DeviceInv'
    BY NextInv
  <1> QED BY <1>1, <1>2, PTL DEF Spec

-----------------------------------------------------------------------------
\* When nothing is played the current device does not key, and its PTT line
\* is off, also after it was replaced in the middle of a mark.
THEOREM QuietWhenIdle ==
  ASSUME Settable
  PROVE  Spec => []QuietPins
PROOF
  <1>1. ASSUME DeviceInv, Idle, todo = 0, ~auto, NEW p \in Ports, Held(p)
        PROVE  /\ Line(device, "key") \notin pins[p]
               /\ device = "tty" => Line(device, "ptt") \notin pins[p]
    <2>1. device \in {"tty", "lp"} /\ Port(device) = p /\ todo \notin Odd
      BY <1>1, OddSum DEF Held, DeviceInv, TypeOK, Objects
    <2>2. /\ Line("tty", "key") = opt.key /\ Line("tty", "ptt") = opt.ptt
          /\ Line("lp", "key") = "SELECT"
      BY <1>1, LinesType DEF DeviceInv, Objects, Roles
    <2> QED BY <1>1, <2>1, <2>2 DEF DeviceInv, QuietInv, Idle
  <1>2. DeviceInv => QuietPins
    BY <1>1 DEF QuietPins
  <1> QED BY <1>2, Invariance, PTL

-----------------------------------------------------------------------------
(***************************************************************************)
(* Ports that are given up.                                                *)
(*                                                                         *)
(* The drivers switch off the lines that are the device's when its port is *)
(* given up, and any other that opening the port has raised stays on.  It  *)
(* matters only if an option makes that line the device's afterwards, when *)
(* the port is no longer in use.  This takes -d, -o, a second -d that      *)
(* raises a line the options do not name, a third one that gives its port  *)
(* up, and a second -o: the invariant counts them.                         *)
(***************************************************************************)
InUse(p) ==
  \/ pc \in Settled /\ Held(p)
  \/ pc = "free" /\ old # "null" /\ p = Port(old)
  \/ pc \in {"free", "close", "init"} /\ p = name

OffInv == \A p \in Ports : ~InUse(p) \/ pc = "exited" => pins[p] \cap Switched(p) = {}

Setting == {"probe", "free", "close", "init"}
Taking(p) == pc \in Setting \ {"probe"} /\ p = name

CountInv == ~running =>
  /\ device # "null" \/ pc \in Setting => args >= 1
  /\ ~(SerialLines \subseteq {opt.key, opt.ptt})
       => args >= IF pc \in Setting THEN 3 ELSE 2
  /\ \A p \in Serial : pins[p] \cap SerialLines # {} /\ ~Taking(p)
       => args >= IF pc \in Settled \ {"probe"} /\ Held(p) THEN 3 ELSE 4

GivenUpInv == OffInv /\ CountInv

LEMMA SwitchedIs ==
  ASSUME TypeOK, NEW p \in Ports
  PROVE  /\ p \in Serial => Switched(p) = {opt.key, opt.ptt} \ {"none"}
         /\ p \in Parallel => Switched(p) = {"SELECT", "INIT"}
         /\ p \in Serial \/ p \in Parallel
         /\ ~(p \in Serial /\ p \in Parallel)
         /\ {opt.key, opt.ptt} \ {"none"} \subseteq SerialLines
         /\ "none" \notin SerialLines
PROOF
  <1>1. Lines("tty") = {opt.key, opt.ptt} \ {"none"}
    BY LinesType DEF Objects, Roles
  <1>2. {opt.key, opt.ptt} \ {"none"} \subseteq SerialLines
    BY LinesType DEF Objects, Roles
  <1> QED BY <1>1, <1>2, PortsAssumption DEF Switched, Ports, SerialLines

LEMMA SwitchedSame ==
  ASSUME UNCHANGED opt, NEW p
  PROVE  Switched(p)' = Switched(p)
PROOF
  <1>1. \A role : Line("tty", role)' = Line("tty", role)
    BY DEF Line
  <1> QED BY <1>1 DEF Switched, Lines

LEMMA HeldSame ==
  ASSUME UNCHANGED <<device, fd, file, claimed>>, NEW p
  PROVE  Held(p)' = Held(p)
PROOF BY DEF Held, Able, Port, PortsOf

\* Only the port that an object has is touched by its driver.
LEMMA SetLinesOthers ==
  ASSUME TypeOK, NEW o, NEW L, NEW on, NEW next, SetLines(o, L, on, next),
         NEW p \in Ports, pins'[p] # pins[p]
  PROVE  Able(o) /\ Port(o) = p
PROOF
  <1>1. CASE L = {}
    BY <1>1 DEF SetLines
  <1>2. CASE L # {} /\ Able(o)
    <2>1. pins' = [pins EXCEPT ![Port(o)] = IF on THEN @ \cup L ELSE @ \ L]
      BY <1>2 DEF SetLines
    <2>2. p # Port(o) => pins'[p] = pins[p]
      BY <2>1 DEF TypeOK
    <2> QED BY <1>2, <2>2
  <1>3. CASE L # {} /\ ~Able(o)
    BY <1>3 DEF SetLines
  <1> QED BY <1>1, <1>2, <1>3

\* What ttys_close() and lp_free() leave of the pins.
LEMMA SwitchedOff ==
  ASSUME TypeOK, NEW o \in Objects, Owns(o), NEW next, SetLines(o, Lines(o), FALSE, next),
         NEW p \in Ports
  PROVE  /\ pins'[p] \subseteq pins[p]
         /\ o # "null" /\ p = Port(o) => pins'[p] \cap Switched(p) = {}
         /\ ~(o # "null" /\ p = Port(o)) => pins'[p] = pins[p]
PROOF
  <1>1. /\ Lines(o) \subseteq AnyLine /\ (o = "null" => Lines(o) = {})
        /\ o = "tty" => Lines(o) = {opt.key, opt.ptt} \ {"none"}
        /\ o = "lp" => Lines(o) = ParallelLines
    BY LinesType DEF Roles
  <1>2. /\ Lines(o) = {} => pins' = pins
        /\ o # "null" => pins' = [pins EXCEPT ![Port(o)] = @ \ Lines(o)]
    BY <1>1, SetLinesWorks DEF Owns
  <1>3. pins \in [Ports -> SUBSET AnyLine]
    BY DEF TypeOK, AnyLine
  <1>4. CASE o = "null"
    BY <1>1, <1>2, <1>4
  <1>5. CASE o # "null"
    <2>1. Able(o)
      BY <1>5 DEF Owns
    <2>2. /\ Port(o) \in Ports
          /\ o = "tty" => Port(o) \in Serial
          /\ o = "lp" => Port(o) \in Parallel
      BY <2>1, AblePort
    <2>3. pins'[p] = IF p = Port(o) THEN pins[p] \ Lines(o) ELSE pins[p]
      BY <1>2, <1>3, <1>5, <2>2
    <2>4. p = Port(o) => Switched(p) \subseteq Lines(o)
      BY <1>1, <1>5, <2>2, SwitchedIs DEF Objects, ParallelLines
    <2> QED BY <1>5, <2>3, <2>4
  <1> QED BY <1>4, <1>5

LEMMA ProbeOff ==
  ASSUME Settable, DeviceInv, GivenUpInv, Probe
  PROVE  GivenUpInv'
PROOF
  <1> USE DEF DeviceInv
  <1>1. /\ pc = "probe" /\ pc' = "free" /\ old = device /\ Placed
        /\ UNCHANGED <<opt, name, old, fd, running, args>>
        /\ file' = IF name \in Ports THEN [file EXCEPT ![LowestFree] = name] ELSE file
    BY ProbeWorks DEF Probe, PlaceInv, Settled, counts
  <1>2. ASSUME NEW p \in Ports, p # name
        PROVE  pins'[p] = pins[p]
    BY <1>2 DEF Probe, TypeOK
  <1>3. old # "null" => Able(old) /\ Port(old)' = Port(old)
    <2>1. ASSUME old # "null"
          PROVE  Able(old) /\ Port(old)' = Port(old)
      <3>1. Able(old) /\ file[fd[old]] \in Ports /\ fd[old] \in 1..FilesMax
        BY <1>1, <2>1, AblePort DEF Placed, Owns, Port, TypeOK
      <3>2. fd[old] # LowestFree
        BY <1>1, <3>1, LowestFreeWorks, PortsAssumption DEF Settable
      <3>3. file'[fd[old]] = file[fd[old]]
        BY <1>1, <3>1, <3>2 DEF TypeOK
      <3> QED BY <1>1, <3>1, <3>3 DEF Port
    <2> QED BY <2>1
  <1>4. ASSUME NEW p \in Ports, ~InUse(p)'
        PROVE  p # name /\ ~InUse(p)
    <2>1. p # name /\ ~(old # "null" /\ p = Port(old))
      BY <1>1, <1>3, <1>4 DEF InUse
    <2> QED BY <1>1, <2>1 DEF InUse, Held
  <1>5. OffInv'
    <2>1. ASSUME NEW p \in Ports, ~InUse(p)'
          PROVE  pins'[p] \cap Switched(p)' = {}
      <3>1. Switched(p)' = Switched(p) /\ pins'[p] = pins[p]
        BY <1>1, <1>2, <1>4, <2>1, SwitchedSame
      <3> QED BY <1>4, <2>1, <3>1 DEF OffInv, GivenUpInv
    <2> QED BY <1>1, <2>1 DEF OffInv
  <1>6. CountInv'
    <2> SUFFICES ASSUME ~running
                 PROVE  /\ args' >= 1
                        /\ ~(SerialLines \subseteq {opt.key, opt.ptt}) => args' >= 3
                        /\ \A p \in Serial :
                             pins'[p] \cap SerialLines # {} /\ p # name => args' >= 4
      BY <1>1 DEF CountInv, Setting, Taking, Settled
    <2>1. /\ args >= 1
          /\ ~(SerialLines \subseteq {opt.key, opt.ptt}) => args >= 3
          /\ \A p \in Serial : pins[p] \cap SerialLines # {} => args >= 4
      BY <1>1 DEF GivenUpInv, CountInv, Setting, Taking
    <2>2. \A p \in Serial : p # name => pins'[p] = pins[p]
      BY <1>2 DEF Ports
    <2> QED BY <1>1, <2>1, <2>2
  <1> QED BY <1>5, <1>6 DEF GivenUpInv

LEMMA FreePinsOff ==
  ASSUME Settable, DeviceInv, GivenUpInv, FreePins
  PROVE  GivenUpInv'
PROOF
  <1> USE DEF DeviceInv
  <1>1. /\ pc = "free" /\ Owns(old) /\ old \in Objects
        /\ SetLines(old, Lines(old), FALSE, "close")
        /\ UNCHANGED <<device, opt, name, running, args>>
    BY DEF FreePins, PlaceInv, Both, TypeOK, setVars, counts
  <1>2. pc' = "close"
    BY <1>1, LinesType, SetLinesWorks DEF Owns, Roles
  <1>3. \A p \in Ports :
          /\ pins'[p] \subseteq pins[p]
          /\ old # "null" /\ p = Port(old) => pins'[p] \cap Switched(p) = {}
          /\ ~(old # "null" /\ p = Port(old)) => pins'[p] = pins[p]
    BY <1>1, SwitchedOff
  <1>4. OffInv'
    <2>1. ASSUME NEW p \in Ports, ~InUse(p)'
          PROVE  pins'[p] \cap Switched(p)' = {}
      <3>1. Switched(p)' = Switched(p) /\ p # name
        BY <1>1, <1>2, <2>1, SwitchedSame DEF InUse
      <3>2. CASE old # "null" /\ p = Port(old)
        BY <1>3, <3>1, <3>2
      <3>3. CASE ~(old # "null" /\ p = Port(old))
        <4>1. ~InUse(p)
          BY <1>1, <3>1, <3>3 DEF InUse, Settled
        <4> QED BY <1>3, <3>1, <3>3, <4>1 DEF OffInv, GivenUpInv
      <3> QED BY <3>2, <3>3
    <2> QED BY <1>2, <2>1 DEF OffInv
  <1>5. CountInv'
    <2> SUFFICES ASSUME ~running
                 PROVE  /\ args' >= 1
                        /\ ~(SerialLines \subseteq {opt.key, opt.ptt}) => args' >= 3
                        /\ \A p \in Serial :
                             pins'[p] \cap SerialLines # {} /\ p # name => args' >= 4
      BY <1>1, <1>2 DEF CountInv, Setting, Taking, Settled
    <2>1. /\ args >= 1
          /\ ~(SerialLines \subseteq {opt.key, opt.ptt}) => args >= 3
          /\ \A p \in Serial : pins[p] \cap SerialLines # {} /\ p # name => args >= 4
      BY <1>1 DEF GivenUpInv, CountInv, Setting, Taking, Settled
    <2>2. \A p \in Serial : pins'[p] \subseteq pins[p]
      BY <1>3 DEF Ports
    <2> QED BY <1>1, <2>1, <2>2
  <1> QED BY <1>4, <1>5 DEF GivenUpInv

LEMMA CloseOff ==
  ASSUME Settable, DeviceInv, GivenUpInv, Close
  PROVE  GivenUpInv'
PROOF
  <1>1. /\ pc = "close" /\ pc' = "init"
        /\ UNCHANGED <<device, opt, name, pins, running, args>>
    BY DEF Close, setVars, counts
  <1>2. \A p \in Ports : InUse(p)' = InUse(p) /\ Switched(p)' = Switched(p)
    BY <1>1, SwitchedSame DEF InUse, Settled
  <1>3. OffInv'
    BY <1>1, <1>2 DEF OffInv, GivenUpInv
  <1>4. CountInv'
    <2> SUFFICES ASSUME ~running
                 PROVE  /\ args' >= 1
                        /\ ~(SerialLines \subseteq {opt.key, opt.ptt}) => args' >= 3
                        /\ \A p \in Serial :
                             pins'[p] \cap SerialLines # {} /\ p # name => args' >= 4
      BY <1>1 DEF CountInv, Setting, Taking, Settled
    <2> QED BY <1>1 DEF GivenUpInv, CountInv, Setting, Taking, Settled
  <1> QED BY <1>3, <1>4 DEF GivenUpInv

LEMMA InitDeviceOff ==
  ASSUME Settable, DeviceInv, DeviceInv', GivenUpInv, InitDevice
  PROVE  GivenUpInv'
PROOF
  <1>1. /\ pc = "init" /\ claimed = {} /\ device = KindOf(name)
        /\ UNCHANGED <<file, device, opt, name, running, args>>
        /\ fd' = [fd EXCEPT ![device] = new]
    BY DEF InitDevice, DeviceInv, PlaceInv, Opened, Probed, setVars, counts
  <1>2. /\ pc' = "register"
        /\ pins' = IF device = "null" THEN pins
                   ELSE [pins EXCEPT ![name] = @ \ Lines(device)]
    BY <1>1 DEF InitDevice
  <1>3. /\ device = "tty" => name \in Serial
        /\ device = "lp" => name \in Parallel
        /\ device = "null" => name \notin Ports
        /\ device # "null" => name \in Ports /\ new \in 1..FilesMax /\ file[new] = name
    BY <1>1 DEF KindOf, Ports, DeviceInv, PlaceInv, Opened, Probed
  <1>4. ASSUME NEW p \in Ports
        PROVE  Held(p)' <=> p = name
    <2>1. device # "null" => Able(device)'
      BY <1>1, <1>2 DEF DeviceInv, PlaceInv, Placed, Owns, Settled
    <2>2. device # "null" => Port(device)' = name
      <3>1. fd \in [Objects -> 0..FilesMax] /\ device \in Objects
        BY DEF DeviceInv, TypeOK
      <3> QED BY <1>1, <1>3, <3>1 DEF Port
    <2> QED BY <1>1, <1>3, <2>1, <2>2 DEF Held
  <1>5. ASSUME NEW p \in Ports, p # name
        PROVE  pins'[p] = pins[p] /\ ~InUse(p)
    <2>1. ~InUse(p)
      BY <1>1, <1>5 DEF InUse, Settled
    <2> QED BY <1>2, <1>5, <2>1 DEF DeviceInv, TypeOK
  <1>6. OffInv'
    <2>1. ASSUME NEW p \in Ports, ~InUse(p)'
          PROVE  pins'[p] \cap Switched(p)' = {}
      <3>1. p # name
        BY <1>2, <1>4, <2>1 DEF InUse, Settled
      <3>2. Switched(p)' = Switched(p)
        BY <1>1, SwitchedSame
      <3> QED BY <1>5, <3>1, <3>2 DEF OffInv, GivenUpInv
    <2> QED BY <1>2, <2>1 DEF OffInv
  <1>7. CountInv'
    <2> SUFFICES ASSUME ~running
                 PROVE  /\ args >= 1
                        /\ ~(SerialLines \subseteq {opt.key, opt.ptt}) => args >= 2
                        /\ \A p \in Serial : pins'[p] \cap SerialLines # {}
                             => args >= IF p = name THEN 3 ELSE 4
      <3>1. \A p \in Serial : Held(p)' <=> p = name
        BY <1>4 DEF Ports
      <3> QED BY <1>1, <1>2, <3>1 DEF CountInv, Setting, Taking, Settled
    <2>1. /\ args >= 1 /\ args \in Nat
          /\ ~(SerialLines \subseteq {opt.key, opt.ptt}) => args >= 3
          /\ \A p \in Serial : pins[p] \cap SerialLines # {} /\ p # name => args >= 4
      BY <1>1, BoundsAssumption
         DEF GivenUpInv, CountInv, Setting, Taking, Settled, DeviceInv, TypeOK
    <2>2. ASSUME NEW p \in Serial, pins'[p] \cap SerialLines # {}
          PROVE  args >= IF p = name THEN 3 ELSE 4
      <3>1. CASE p # name
        BY <1>5, <2>1, <2>2, <3>1 DEF Ports
      <3>2. CASE p = name
        <4>1. device = "tty" /\ p \in Ports
          BY <1>1, <3>2 DEF KindOf, Ports
        <4>2. Lines("tty") = {opt.key, opt.ptt} \ {"none"}
          BY LinesType DEF DeviceInv, Objects, Roles
        <4>3. pins'[p] = pins[p] \ ({opt.key, opt.ptt} \ {"none"})
          BY <1>2, <3>2, <4>1, <4>2 DEF DeviceInv, TypeOK
        <4>4. ~(SerialLines \subseteq {opt.key, opt.ptt})
          BY <2>2, <4>3 DEF SerialLines
        <4> QED BY <2>1, <3>2, <4>4
      <3> QED BY <3>1, <3>2
    <2> QED BY <2>1, <2>2
  <1> QED BY <1>6, <1>7 DEF GivenUpInv

\* A step that leaves the pins, the options and the current device alone,
\* between two places where the device is settled.
LEMMA SameOff ==
  ASSUME GivenUpInv, UNCHANGED <<device, opt, fd, file, claimed, pins, running>>,
         running \/ args' = args,
         pc \in Settled \ {"probe", "exited"}, pc' \in Settled \ {"probe", "exited"}
  PROVE  GivenUpInv'
PROOF
  <1>1. \A p : Held(p)' = Held(p) /\ Switched(p)' = Switched(p)
    BY HeldSame, SwitchedSame
  <1>2. \A p : InUse(p)' = InUse(p)
    BY <1>1 DEF InUse, Settled
  <1>3. OffInv'
    BY <1>1, <1>2 DEF OffInv, GivenUpInv
  <1>4. CountInv'
    <2>1. \A p \in Serial : Held(p)' = Held(p)
      BY <1>1
    <2> QED BY <2>1 DEF GivenUpInv, CountInv, Setting, Taking, Settled
  <1> QED BY <1>3, <1>4 DEF GivenUpInv

\* cwdaemon_cwdevice_set() begins: nothing is switched yet.
LEMMA SetStartOff ==
  ASSUME GivenUpInv, UNCHANGED <<device, opt, fd, file, claimed, pins, running>>,
         args \in Nat, running \/ args' = args + 1,
         pc \in {"args", "select"}, pc' = "probe"
  PROVE  GivenUpInv'
PROOF
  <1>1. \A p : Held(p)' = Held(p) /\ Switched(p)' = Switched(p)
    BY HeldSame, SwitchedSame
  <1>2. \A p : InUse(p)' = InUse(p)
    BY <1>1 DEF InUse, Settled
  <1>3. OffInv'
    BY <1>1, <1>2 DEF OffInv, GivenUpInv
  <1>4. CountInv'
    <2> SUFFICES ASSUME ~running
                 PROVE  /\ args' >= 1
                        /\ ~(SerialLines \subseteq {opt.key, opt.ptt}) => args' >= 3
                        /\ \A p \in Serial : pins[p] \cap SerialLines # {} => args' >= 4
      BY DEF CountInv, Setting, Taking, Settled
    <2>1. /\ ~(SerialLines \subseteq {opt.key, opt.ptt}) => args >= 2
          /\ \A p \in Serial : pins[p] \cap SerialLines # {} => args >= 3
      BY DEF GivenUpInv, CountInv, Setting, Taking, Settled
    <2> QED BY <2>1
  <1> QED BY <1>3, <1>4 DEF GivenUpInv

LEMMA ArgOptionOff ==
  ASSUME Settable, MaxArgs <= 4, DeviceInv, GivenUpInv, ArgOption
  PROVE  GivenUpInv'
PROOF
  <1>1. /\ pc = "args" /\ args < MaxArgs /\ args' = args + 1 /\ args \in Nat
        /\ UNCHANGED <<device, fd, file, claimed, running>>
        /\ pc' \in {"args", "exit"}
    BY DEF ArgOption, files, DeviceInv, TypeOK
  <1>2. \A p : Held(p)' = Held(p)
    BY <1>1, HeldSame
  <1>3. \A p : InUse(p)' = InUse(p) /\ (InUse(p) <=> Held(p))
    BY <1>1, <1>2 DEF InUse, Settled
  <1>4. ~running
    BY <1>1 DEF DeviceInv, KeyerInv
  <1>5. CASE device # "tty"
    <2>1. pc' = "exit" /\ UNCHANGED <<opt, pins>>
      BY <1>5 DEF ArgOption
    <2>2. OffInv'
      <3>1. \A p : Switched(p)' = Switched(p)
        BY <2>1, SwitchedSame
      <3> QED BY <1>1, <1>3, <2>1, <3>1 DEF OffInv, GivenUpInv
    <2>3. CountInv'
      <3>1. /\ device # "null" => args >= 1
            /\ ~(SerialLines \subseteq {opt.key, opt.ptt}) => args >= 2
            /\ \A p \in Serial : pins[p] \cap SerialLines # {}
                 => args >= IF Held(p) THEN 3 ELSE 4
        BY <1>1, <1>4 DEF GivenUpInv, CountInv, Setting, Taking, Settled
      <3>2. \A p \in Serial : pins'[p] \cap SerialLines # {}
              => args' >= IF Held(p)' THEN 3 ELSE 4
        BY <1>1, <1>2, <2>1, <3>1
      <3>3. /\ device' # "null" => args' >= 1
            /\ ~(SerialLines \subseteq {opt.key, opt.ptt}') => args' >= 2
        BY <1>1, <2>1, <3>1
      <3> QED BY <2>1, <3>2, <3>3 DEF CountInv, Setting, Taking, Settled
    <2> QED BY <2>2, <2>3 DEF GivenUpInv
  <1>6. CASE device = "tty"
    <2>1. PICK l \in SerialLines \cup {"none"} :
            /\ pins' = [pins EXCEPT ![Port("tty")] = @ \ {l}]
            /\ pc' = pc
      BY <1>6 DEF ArgOption
    <2>2. \A p \in Ports : pins'[p] \subseteq pins[p]
      BY <2>1 DEF DeviceInv, TypeOK
    <2>3. /\ args >= 1
          /\ \A p \in Serial : pins[p] \cap SerialLines # {}
               => args >= IF Held(p) THEN 3 ELSE 4
      BY <1>1, <1>4, <1>6 DEF GivenUpInv, CountInv, Setting, Taking, Settled
    <2>4. TypeOK'
      BY ArgOptionStep DEF DeviceInv
    <2>5. OffInv'
      <3>1. ASSUME NEW p \in Ports, ~InUse(p)'
            PROVE  pins'[p] \cap Switched(p)' = {}
        <4>1. ~Held(p) /\ ~InUse(p)
          BY <1>3, <3>1
        <4>2. CASE p \in Serial
          <5>1. pins[p] \cap SerialLines = {}
            BY <1>1, <2>3, <4>1, <4>2, BoundsAssumption
          <5>2. Switched(p)' \subseteq SerialLines
            <6>1. \A role \in Roles : Line("tty", role)' \in SerialLines \cup {"none"}
              BY <2>4 DEF Line, TypeOK
            <6> QED BY <4>2, <6>1, PortsAssumption DEF Switched, Lines
          <5> QED BY <2>2, <5>1, <5>2
        <4>3. CASE p \in Parallel
          <5>1. Switched(p)' = Switched(p)
            BY <4>3 DEF Switched
          <5> QED BY <2>2, <4>1, <5>1 DEF OffInv, GivenUpInv
        <4> QED BY <4>2, <4>3 DEF Ports
      <3> QED BY <1>1, <2>1, <3>1 DEF OffInv
    <2>6. CountInv'
      <3>1. args' >= 2
        BY <1>1, <2>3
      <3>2. \A p \in Serial : pins'[p] \cap SerialLines # {}
              => args' >= IF Held(p)' THEN 3 ELSE 4
        BY <1>1, <1>2, <2>2, <2>3 DEF Ports
      <3> QED BY <1>1, <2>1, <3>1, <3>2 DEF CountInv, Setting, Taking, Settled
    <2> QED BY <2>5, <2>6 DEF GivenUpInv
  <1> QED BY <1>5, <1>6

\* Steps that switch lines of the current device only, from the start of the
\* main loop on.
LEMMA RunningOff ==
  ASSUME DeviceInv, GivenUpInv, running', UNCHANGED <<device, opt, fd, file, claimed>>,
         pc \in {"fork", "select"}, pc' \in {"select", "exit"},
         \A p \in Ports : pins'[p] # pins[p] => Held(p)
  PROVE  GivenUpInv'
PROOF
  <1>1. \A p : Held(p)' = Held(p) /\ Switched(p)' = Switched(p)
    BY HeldSame, SwitchedSame
  <1>2. \A p : InUse(p)' = InUse(p) /\ (InUse(p) <=> Held(p))
    BY <1>1 DEF InUse, Settled
  <1>3. OffInv'
    <2>1. ASSUME NEW p \in Ports, ~InUse(p)'
          PROVE  pins'[p] \cap Switched(p)' = {}
      <3>1. pins'[p] = pins[p] /\ ~InUse(p)
        BY <1>2, <2>1
      <3> QED BY <1>1, <3>1 DEF OffInv, GivenUpInv
    <2> QED BY <2>1 DEF OffInv
  <1>4. CountInv'
    BY DEF CountInv
  <1> QED BY <1>3, <1>4 DEF GivenUpInv

LEMMA ExitFreeOff ==
  ASSUME Settable, DeviceInv, GivenUpInv, ExitFree
  PROVE  GivenUpInv'
PROOF
  <1>1. /\ pc = "exit" /\ Owns(device) /\ device \in Objects
        /\ SetLines(device, Lines(device), FALSE, "exited")
        /\ UNCHANGED <<device, opt, fd, file, claimed, running, args>>
    BY DEF ExitFree, DeviceInv, PlaceInv, Placed, Settled, TypeOK, files, counts
  <1>2. pc' = "exited"
    BY <1>1, LinesType, SetLinesWorks DEF Owns, Roles, DeviceInv
  <1>3. \A p \in Ports :
          /\ pins'[p] \subseteq pins[p]
          /\ device # "null" /\ p = Port(device) => pins'[p] \cap Switched(p) = {}
          /\ ~(device # "null" /\ p = Port(device)) => pins'[p] = pins[p]
    BY <1>1, SwitchedOff DEF DeviceInv
  <1>4. \A p : Held(p)' = Held(p) /\ Switched(p)' = Switched(p)
    BY <1>1, HeldSame, SwitchedSame
  <1>5. OffInv'
    <2>1. ASSUME NEW p \in Ports
          PROVE  pins'[p] \cap Switched(p) = {}
      <3>1. CASE device # "null" /\ p = Port(device)
        BY <1>3, <3>1
      <3>2. CASE ~(device # "null" /\ p = Port(device))
        <4>1. ~InUse(p)
          BY <1>1, <3>2 DEF InUse, Settled, Held
        <4> QED BY <1>3, <3>2, <4>1 DEF OffInv, GivenUpInv
      <3> QED BY <3>1, <3>2
    <2> QED BY <1>4, <2>1 DEF OffInv
  <1>6. CountInv'
    <2>1. \A p \in Serial : Held(p)' = Held(p) /\ pins'[p] \subseteq pins[p]
      BY <1>3, <1>4 DEF Ports
    <2> QED BY <1>1, <1>2, <2>1 DEF GivenUpInv, CountInv, Setting, Taking, Settled
  <1> QED BY <1>5, <1>6 DEF GivenUpInv

LEMMA DriverHolds ==
  ASSUME TypeOK, NEW L, NEW on, NEW next, SetLines(device, L, on, next)
  PROVE  /\ pc' \in {next, "crashed"}
         /\ \A p \in Ports : pins'[p] # pins[p] => Held(p)
PROOF
  <1>1. device \in Objects
    BY DEF TypeOK
  <1>2. ASSUME NEW p \in Ports, pins'[p] # pins[p]
        PROVE  Held(p)
    <2>1. Able(device) /\ Port(device) = p
      BY <1>2, SetLinesOthers
    <2> QED BY <1>1, <2>1, AblePort DEF Held
  <1>3. pc' \in {next, "crashed"}
    BY DEF SetLines
  <1> QED BY <1>2, <1>3

LEMMA StartOff ==
  ASSUME Settable, DeviceInv, DeviceInv', GivenUpInv, Start
  PROVE  GivenUpInv'
PROOF
  <1>1. /\ pc = "fork" /\ running' /\ UNCHANGED <<device, opt, fd, file>>
        /\ pc' # "crashed"
    BY DEF Start, DeviceInv, PlaceInv
  <1>2. claimed' = claimed
    <2>1. device = "lp" => ~Forking
      BY DEF Settable, DeviceInv, PlaceInv
    <2> QED BY <2>1 DEF Start
  <1>3. pc' = "select" /\ \A p \in Ports : pins'[p] # pins[p] => Held(p)
    <2>1. CASE Forking
      <3>1. SetLines(device, Lines(device), FALSE, "select")
        BY <2>1 DEF Start
      <3> QED BY <1>1, <3>1, DriverHolds DEF DeviceInv
    <2>2. CASE ~Forking
      BY <2>2 DEF Start
    <2> QED BY <2>1, <2>2
  <1> QED BY <1>1, <1>2, <1>3, RunningOff

LEMMA RequestedOff ==
  ASSUME Settable, DeviceInv, DeviceInv', GivenUpInv,
         Text \/ Sound \/ Reset \/ SsbWay \/ SwitchBand \/ Footswitch \/ Exit
  PROVE  GivenUpInv'
PROOF
  <1>1. /\ pc = "select" /\ running' = running /\ pc' # "crashed"
        /\ UNCHANGED <<device, opt, fd, file, claimed>>
    BY DEF Text, Sound, Reset, SsbWay, SwitchBand, Footswitch, Exit, Output, Request, files,
           DeviceInv, PlaceInv
  <1>2. running' /\ keyer = device
    BY <1>1, AtRequest
  <1>3. pc' \in {"select", "exit"} /\ \A p \in Ports : pins'[p] # pins[p] => Held(p)
    <2>1. CASE Text
      <3>1. CASE auto
        BY <1>1, <2>1, <3>1 DEF Text
      <3>2. CASE ~auto
        <4>1. SetLines(device, {Line(device, "ptt")} \ {"none"}, TRUE, "select")
          BY <2>1, <3>2 DEF Text, SetLine
        <4> QED BY <1>1, <4>1, DriverHolds DEF DeviceInv
      <3> QED BY <3>1, <3>2
    <2>2. ASSUME NEW next \in {"select", "exit"}, StopGenerator(next)
          PROVE  pc' \in {"select", "exit"} /\ \A p \in Ports : pins'[p] # pins[p] => Held(p)
      <3>1. CASE todo % 2 = 1 /\ keyer # None
        <4>1. SetLines(device, {Line(device, "key")} \ {"none"}, FALSE, next)
          BY <1>2, <2>2, <3>1 DEF StopGenerator, SetLine
        <4> QED BY <1>1, <4>1, DriverHolds DEF DeviceInv
      <3>2. CASE ~(todo % 2 = 1 /\ keyer # None)
        BY <2>2, <3>2 DEF StopGenerator
      <3> QED BY <3>1, <3>2
    <2>3. CASE Sound \/ Exit
      BY <2>2, <2>3 DEF Sound, Exit
    <2>4. CASE Reset
      <3>1. SetLines(device, Lines(device), FALSE, "select")
        BY <2>4 DEF Reset
      <3> QED BY <1>1, <3>1, DriverHolds DEF DeviceInv
    <2>5. CASE SsbWay \/ SwitchBand
      <3>1. PICK line \in {"AUTOFD", "DATA"}, on \in BOOLEAN :
              SetLines(device, {line} \cap Lines(device), on, "select")
        <4>1. ASSUME NEW kind, NEW line, Output(kind, line)
              PROVE  \E on \in BOOLEAN :
                       SetLines(device, {line} \cap Lines(device), on, "select")
          BY <4>1 DEF Output
        <4>2. Output("ssbway", "AUTOFD") \/ Output("switchband", "DATA")
          BY <2>5 DEF SsbWay, SwitchBand
        <4> QED BY <4>1, <4>2
      <3> QED BY <1>1, <3>1, DriverHolds DEF DeviceInv
    <2>6. CASE Footswitch
      <3>1. PICK on \in BOOLEAN :
              SetLines(device, {Line("lp", "ptt")} \ {"none"}, on, "select")
        BY <2>6 DEF Footswitch, SetLine
      <3> QED BY <1>1, <3>1, DriverHolds DEF DeviceInv
    <2> QED BY <2>1, <2>3, <2>4, <2>5, <2>6
  <1> QED BY <1>1, <1>2, <1>3, RunningOff

LEMMA GeneratorOff ==
  ASSUME Settable, DeviceInv, DeviceInv', GivenUpInv, Generator
  PROVE  GivenUpInv'
PROOF
  <1>1. /\ pc = "select" /\ running' = running /\ pc' # "crashed"
        /\ UNCHANGED <<device, opt, fd, file, claimed>>
    BY DEF Generator, LoadKeyer, KeyingEvent, UnkeyedEvent, PttOff, MayGenerate, Settable,
           files, DeviceInv, PlaceInv
  <1>2. running'
    BY <1>1, AtRequest
  <1>3. pc' = "select" /\ \A p \in Ports : pins'[p] # pins[p] => Held(p)
    <2>1. CASE LoadKeyer \/ UnkeyedEvent
      BY <1>1, <2>1 DEF LoadKeyer, UnkeyedEvent
    <2>2. CASE KeyingEvent
      <3>1. arg = device
        BY <2>2 DEF KeyingEvent, DeviceInv, KeyerInv
      <3>2. SetLines(device, {Line(device, "key")} \ {"none"}, todo % 2 = 0, pc)
        BY <2>2, <3>1 DEF KeyingEvent, SetLine
      <3> QED BY <1>1, <3>2, DriverHolds DEF DeviceInv
    <2>3. CASE PttOff
      <3>1. CASE auto /\ todo = 0
        <4>1. SetLines(device, {Line(device, "ptt")} \ {"none"}, FALSE, pc)
          BY <2>3, <3>1 DEF PttOff, SetLine
        <4> QED BY <1>1, <4>1, DriverHolds DEF DeviceInv
      <3>2. CASE ~(auto /\ todo = 0)
        BY <1>1, <2>3, <3>2 DEF PttOff
      <3> QED BY <3>1, <3>2
    <2> QED BY <2>1, <2>2, <2>3 DEF Generator
  <1> QED BY <1>1, <1>2, <1>3, RunningOff

LEMMA NextOff ==
  ASSUME Settable, MaxArgs <= 4, DeviceInv, DeviceInv', GivenUpInv, [Next]_vars
  PROVE  GivenUpInv'
PROOF
  <1>1. CASE CwdeviceSet
    <2>1. CASE Register
      <3>1. /\ UNCHANGED <<device, opt, fd, file, claimed, pins, running, args>>
            /\ pc = "register" /\ pc' \in {"args", "select"}
        BY <2>1 DEF Register, files, counts
      <3> QED BY <3>1, SameOff DEF Settled
    <2> QED BY <1>1, <2>1, ProbeOff, FreePinsOff, CloseOff, InitDeviceOff DEF CwdeviceSet
  <1>2. CASE Startup
    <2>1. CASE ArgDevice
      <3>1. /\ UNCHANGED <<device, opt, fd, file, claimed, pins, running>>
            /\ pc = "args" /\ pc' = "probe" /\ args' = args + 1 /\ args \in Nat
        BY <2>1 DEF ArgDevice, SetStart, files, DeviceInv, TypeOK
      <3> QED BY <3>1, SetStartOff
    <2>2. CASE ArgsEnd
      <3>1. /\ UNCHANGED <<device, opt, fd, file, claimed, pins, running, args>>
            /\ pc = "args" /\ pc' \in {"exit", "fork"}
        BY <2>2 DEF ArgsEnd, files, counts
      <3> QED BY <3>1, SameOff DEF Settled
    <2> QED BY <1>2, <2>1, <2>2, ArgOptionOff, StartOff DEF Startup
  <1>3. CASE Device
    <2>1. /\ UNCHANGED <<device, opt, fd, file, claimed, pins, running>>
          /\ pc = "select" /\ pc' = "probe" /\ args \in Nat /\ running
      BY <1>3, AtRequest DEF Device, Request, SetStart, files, DeviceInv, TypeOK
    <2> QED BY <2>1, SetStartOff
  <1>4. CASE UNCHANGED vars
    <2>1. /\ UNCHANGED <<device, opt, fd, file, claimed, pins, running, args>>
          /\ pc' = pc /\ old' = old /\ name' = name
      BY <1>4 DEF vars, files, setVars, counts
    <2>2. \A p : Held(p)' = Held(p) /\ Switched(p)' = Switched(p)
      BY <2>1, HeldSame, SwitchedSame
    <2>3. Port(old)' = Port(old)
      BY <2>1 DEF Port
    <2>4. \A p : InUse(p)' = InUse(p)
      BY <2>1, <2>2, <2>3 DEF InUse
    <2>5. OffInv'
      BY <2>1, <2>2, <2>4 DEF OffInv, GivenUpInv
    <2>6. CountInv'
      <3>1. \A p \in Serial : Held(p)' = Held(p)
        BY <2>2
      <3> QED BY <2>1, <3>1 DEF GivenUpInv, CountInv, Taking
    <2> QED BY <2>5, <2>6 DEF GivenUpInv
  <1>5. CASE Requested
    BY <1>3, <1>4, <1>5, RequestedOff DEF Requested, SelectTimeout
  <1>6. CASE Generator
    BY <1>6, GeneratorOff
  <1>7. CASE ExitFree
    BY <1>7, ExitFreeOff
  <1>8. CASE Terminated
    BY <1>4, <1>8 DEF Terminated
  <1> QED BY <1>1, <1>2, <1>4, <1>5, <1>6, <1>7, <1>8 DEF Next

\* A port that is given up, by <ESC>8 or at the end, and in the middle of a
\* mark too, has the lines that key and switch PTT off, whatever devices are
\* asked for: if there were at most four options -d and -o.  With five, TLC
\* finds a port whose lines an option names when it is in use no longer.
THEOREM GivenUpPortsAreOff ==
  ASSUME Settable, MaxArgs <= 4
  PROVE  Spec => []UnusedPortsOff
PROOF
  <1>1. Init => GivenUpInv
    BY DEF Init, GivenUpInv, OffInv, CountInv, Setting, Taking, SerialLines, Ports
  <1>2. DeviceInv /\ DeviceInv' /\ GivenUpInv /\ [Next]_vars => GivenUpInv'
    BY NextOff
  <1>3. GivenUpInv => UnusedPortsOff
    <2> SUFFICES ASSUME GivenUpInv, pc \in {"select", "exited"}, NEW p \in Ports,
                        ~Held(p) \/ pc = "exited"
                 PROVE  pins[p] \cap Switched(p) = {}
      BY DEF UnusedPortsOff
    <2>1. ~InUse(p) \/ pc = "exited"
      BY DEF InUse
    <2> QED BY <2>1 DEF GivenUpInv, OffInv
  <1> QED BY <1>1, <1>2, <1>3, Invariance, PTL DEF Spec

-----------------------------------------------------------------------------
(***************************************************************************)
(* Any device, any user, -n or not, and every schedule of the two threads. *)
(* What is left of the invariant is that the object of the current device  *)
(* has a port of its type, whose claim only fork() loses, and that the     *)
(* generator has this object or none.                                      *)
(***************************************************************************)
Usable(o) ==
  /\ o # "null" => fd[o] \in 1..FilesMax
  /\ o = "tty" => Port("tty") \in Serial
  /\ o = "lp" => /\ Port("lp") \in Parallel
                 /\ Port("lp") \in claimed \/ (Forking /\ running)
  /\ claimed \subseteq IF o = "lp" THEN {Port("lp")} ELSE {}

\* The file of an object, and of a port that was refused.
Mine(o, n) == o # "null" /\ n = fd[o]
Kept(n)    == file[n] \in Parallel /\ ~Root

\* What Probe has found.
Found == /\ device = IF new = 0 THEN "null" ELSE KindOf(name)
         /\ new # 0 => name \in Ports /\ new \in 1..FilesMax /\ file[new] = name

FilesInv ==
  /\ fd["null"] = 0
  /\ pc \in Settled =>
       /\ Usable(device)
       /\ \A n \in 1..FilesMax : file[n] # None => Kept(n) \/ Mine(device, n)
  /\ pc = "probe" => old = device
  /\ pc \in {"free", "close"} =>
       /\ Found /\ Usable(old) /\ (old # "null" => fd[old] # new)
       /\ \A n \in 1..FilesMax : file[n] # None => Kept(n) \/ n = new \/ Mine(old, n)
  /\ pc = "init" =>
       /\ Found /\ claimed = {}
       /\ \A n \in 1..FilesMax : file[n] # None => Kept(n) \/ n = new

RegisteredInv ==
  /\ keyer # None => keyer = device /\ pc \in {"select", "exit", "exited", "crashed"}
  /\ pc = "select" => running /\ (keyer = None => Refused)
  /\ arg # None =>
       /\ todo > 0
       /\ Preemptive \/ (pc \in {"select", "crashed"} /\ arg = device)

AnyInv == TypeOK /\ FilesInv /\ RegisteredInv

\* A step to "crashed" is one of those that DriverExits names.
Explained == pc' = "crashed" => Disowned \/ (Caught /\ Generator)

LEMMA SetLinesTotal ==
  ASSUME TypeOK, NEW o \in Objects, NEW L \in SUBSET AnyLine, NEW on \in BOOLEAN,
         NEW next, SetLines(o, L, on, next)
  PROVE  /\ pins' \in [Ports -> SUBSET AnyLine]
         /\ pc' = next \/ (pc' = "crashed" /\ L # {} /\ ~Able(o))
PROOF
  <1>1. pins \in [Ports -> SUBSET AnyLine]
    BY DEF TypeOK, AnyLine
  <1>2. CASE L = {}
    BY <1>1, <1>2 DEF SetLines
  <1>3. CASE L # {} /\ Able(o)
    <2>1. Port(o) \in Ports
      BY <1>3, AblePort
    <2>2. pc' = next /\ pins' = [pins EXCEPT ![Port(o)] = IF on THEN @ \cup L ELSE @ \ L]
      BY <1>3 DEF SetLines
    <2> QED BY <1>1, <2>1, <2>2
  <1>4. CASE L # {} /\ ~Able(o)
    BY <1>1, <1>4 DEF SetLines
  <1> QED BY <1>2, <1>3, <1>4

LEMMA UsableIsAble ==
  ASSUME TypeOK, NEW o \in Objects, Usable(o), o # "null"
  PROVE  Able(o) \/ Disowned
PROOF
  <1>1. fd[o] \in DOMAIN file
    BY DEF Usable, TypeOK
  <1>2. CASE o = "tty"
    BY <1>1, <1>2 DEF Usable, Able, PortsOf
  <1>3. CASE o = "lp"
    <2>1. CASE Port("lp") \in claimed
      BY <1>1, <1>3, <2>1 DEF Able, PortsOf
    <2>2. CASE Port("lp") \notin claimed
      BY <1>1, <1>3, <2>2 DEF Usable, Disowned
    <2> QED BY <2>1, <2>2
  <1> QED BY <1>2, <1>3 DEF Objects

\* An object that has its port sets the lines, unless fork() has lost the claim.
LEMMA UsableWorks ==
  ASSUME TypeOK, NEW o \in Objects, Usable(o), NEW L \in SUBSET AnyLine,
         NEW on \in BOOLEAN, NEW next, o = "null" => L = {}, SetLines(o, L, on, next)
  PROVE  /\ pins' \in [Ports -> SUBSET AnyLine]
         /\ pc' = next \/ (pc' = "crashed" /\ Disowned)
PROOF
  <1>1. /\ pins' \in [Ports -> SUBSET AnyLine]
        /\ pc' = next \/ (pc' = "crashed" /\ L # {} /\ ~Able(o))
    BY SetLinesTotal
  <1> QED BY <1>1, UsableIsAble

\* The same for one of its lines.
LEMMA UsableLine ==
  ASSUME TypeOK, NEW o \in Objects, Usable(o), NEW role \in Roles, NEW on \in BOOLEAN,
         NEW next, SetLine(o, role, on, next)
  PROVE  /\ pins' \in [Ports -> SUBSET AnyLine]
         /\ pc' = next \/ (pc' = "crashed" /\ Disowned)
PROOF
  <1> DEFINE L == {Line(o, role)} \ {"none"}
  <1>1. L \subseteq AnyLine /\ (o = "null" => L = {})
    BY LinesType
  <1>2. SetLines(o, L, on, next)
    BY DEF SetLine
  <1> HIDE DEF L
  <1> QED BY <1>1, <1>2, UsableWorks

\* A step that leaves the files and the current device alone.
LEMMA SameFiles ==
  ASSUME FilesInv, UNCHANGED <<device, files, setVars, running>>,
         \/ pc' = pc \/ pc' = "crashed"
         \/ pc \in Settled /\ pc' \in Settled \ {"probe"}
         \/ pc = "free" /\ pc' = "close"
  PROVE  FilesInv'
PROOF
  <1>1. UNCHANGED <<device, fd, file, claimed, old, name, new, running>>
    BY DEF files, setVars
  <1>2. Usable(device)' = Usable(device) /\ Usable(old)' = Usable(old) /\ Found' = Found
    BY <1>1 DEF Usable, Port, Found
  <1>3. \A n : Kept(n)' = Kept(n) /\ Mine(device, n)' = Mine(device, n)
                 /\ Mine(old, n)' = Mine(old, n)
    BY <1>1 DEF Kept, Mine
  <1> QED BY <1>1, <1>2, <1>3 DEF FilesInv, Settled

-----------------------------------------------------------------------------
(***************************************************************************)
(* The steps of cwdaemon_cwdevice_set().                                   *)
(***************************************************************************)
LEMMA LowestFreeIsFree ==
  ASSUME TypeOK, Opens
  PROVE  LowestFree \in 1..FilesMax /\ file[LowestFree] = None
PROOF
  <1> DEFINE S == {n \in 1..FilesMax + 1 : n > FilesMax \/ file[n] = None}
             P(n) == FilesMax + 1 - n \in S
  <1>0. FilesMax \in Nat /\ LowestFree = Min(S)
    BY BoundsAssumption DEF LowestFree
  <1>1. \E m \in S : \A y \in S : m <= y
    <2>1. FilesMax + 1 \in S
      BY <1>0
    <2>2. S \subseteq Nat
      BY <1>0
    <2> HIDE DEF S
    <2>3. PICK m \in S : \A y \in S : <<y, m>> \notin OpToRel(<, Nat)
      BY <2>1, <2>2, NatLessThanWellFounded, WFMin
    <2>4. \A y \in S : m <= y
      <3>1. ASSUME NEW y \in S, ~(m <= y)
            PROVE  FALSE
        <4>1. y \in Nat /\ m \in Nat /\ y < m
          BY <2>2, <3>1
        <4>2. <<y, m>> \in OpToRel(<, Nat)
          BY <4>1, Zenon DEF OpToRel
        <4> QED BY <2>3, <4>2
      <3> QED BY <3>1
    <2> QED BY <2>4
  <1>2. Min(S) \in S
    BY <1>1 DEF Min
  <1> QED BY <1>0, <1>2 DEF Opens

\* The port of an object is another file than the one that is opened now.
LEMMA UsableStays ==
  ASSUME TypeOK, NEW o \in Objects, Usable(o), NEW k, file[k] = None,
         file' = file \/ (file' = [file EXCEPT ![k] = name] /\ k \in 1..FilesMax),
         UNCHANGED <<fd, claimed, running>>
  PROVE  Usable(o)' /\ (o # "null" => fd[o] # k)
PROOF
  <1>1. file \in [1..FilesMax -> Ports \cup {None}] /\ None \notin Ports
    BY PortsAssumption DEF TypeOK
  <1>2. o # "null" => Port(o) \in Ports /\ fd[o] \in 1..FilesMax
    BY DEF Usable, Ports, Objects
  <1>3. o # "null" => fd[o] # k
    BY <1>1, <1>2 DEF Port
  <1>4. o # "null" => Port(o)' = Port(o)
    BY <1>1, <1>2, <1>3 DEF Port
  <1> QED BY <1>3, <1>4 DEF Usable

LEMMA ProbeAny ==
  ASSUME AnyInv, Probe
  PROVE  AnyInv' /\ Explained
PROOF
  <1> USE DEF AnyInv
  <1>0. /\ pc = "probe" /\ old = device /\ Usable(device) /\ keyer = None
        /\ \A n \in 1..FilesMax : file[n] # None => Kept(n) \/ Mine(device, n)
        /\ new' = IF Opens THEN LowestFree ELSE 0
        /\ file' = IF Opens THEN [file EXCEPT ![LowestFree] = name] ELSE file
        /\ device \in Objects /\ name \in Names \cup {"null"}
        /\ UNCHANGED <<fd, claimed, opt, keyer, todo, low, auto, old, name, running,
                       arg, args, received>>
    BY DEF Probe, FilesInv, RegisteredInv, Settled, playVars, counts, TypeOK
  <1>1. Opens => /\ LowestFree \in 1..FilesMax /\ file[LowestFree] = None
                 /\ name \in Ports
    BY LowestFreeIsFree DEF Opens
  <1>2. file \in [1..FilesMax -> Ports \cup {None}] /\ FilesMax \in Nat
    BY BoundsAssumption DEF TypeOK
  <1>3. \A n \in 1..FilesMax : n = new' \/ file'[n] = file[n]
    BY <1>0, <1>1, <1>2
  <1>4. Usable(device)' \/ device' # device
    <2>1. CASE Opens
      BY <1>0, <1>1, <2>1, UsableStays DEF Usable
    <2>2. CASE ~Opens
      BY <1>0, <2>2 DEF Usable, Port
    <2> QED BY <2>1, <2>2
  <1>5. Usable(old)' /\ (old # "null" => fd[old] # new')
    <2>1. CASE Opens
      BY <1>0, <1>1, <2>1, UsableStays DEF Usable
    <2>2. CASE ~Opens
      <3>1. Usable(old)'
        BY <1>0, <2>2 DEF Usable, Port
      <3>2. old # "null" => fd[old] \in 1..FilesMax
        BY <1>0 DEF Usable
      <3> QED BY <1>0, <1>2, <2>2, <3>1, <3>2
    <2> QED BY <2>1, <2>2
  <1>6. /\ pins' \in [Ports -> SUBSET AnyLine]
        /\ file' \in [1..FilesMax -> Ports \cup {None}] /\ new' \in 0..FilesMax
    <2>1. pins' \in [Ports -> SUBSET AnyLine]
      BY DEF Probe, TypeOK, Ports, AnyLine
    <2> QED BY <1>0, <1>1, <1>2, <2>1
  <1>7. CASE Refused /\ (Opens \/ name = "empty")
    <2>1. device' = device /\ pc' = IF running THEN "select" ELSE "exit"
      BY <1>7 DEF Probe, Failed
    <2>2. TypeOK'
      BY <1>0, <1>6, <2>1 DEF TypeOK, AnyLine, Labels
    <2>3. new' # 0 => name \in Parallel /\ ~Root /\ file'[new'] = name
      <3>1. Opens => name # "empty"
        BY PortsAssumption DEF Opens
      <3> QED BY <1>0, <1>1, <1>2, <1>7, <3>1 DEF Refused
    <2>4. \A n \in 1..FilesMax : file'[n] # None => Kept(n)' \/ Mine(device, n)'
      BY <1>0, <1>2, <1>3, <2>1, <2>3 DEF Kept, Mine
    <2>5. FilesInv'
      BY <1>0, <1>4, <2>1, <2>4 DEF FilesInv, Settled
    <2>6. RegisteredInv'
      BY <1>0, <1>7, <2>1 DEF RegisteredInv, Refused
    <2> QED BY <2>1, <2>2, <2>5, <2>6 DEF Explained
  <1>8. CASE ~(Refused /\ (Opens \/ name = "empty"))
    <2>1. /\ pc' = "free"
          /\ device' = (CASE Opens /\ name \in Serial   -> "tty"
                          [] Opens /\ name \in Parallel -> "lp"
                          [] OTHER                      -> "null")
      BY <1>8, Zenon DEF Probe
    <2>2. device' = IF Opens THEN KindOf(name) ELSE "null"
      <3>1. CASE Opens /\ name \in Serial
        <4>1. device' = "tty"
          BY <2>1, <3>1, PortsAssumption
        <4> QED BY <3>1, <4>1 DEF KindOf
      <3>2. CASE Opens /\ name \in Parallel
        <4>1. name \notin Serial
          BY <3>2, PortsAssumption
        <4>2. device' = "lp"
          BY <2>1, <3>2, <4>1
        <4> QED BY <3>2, <4>1, <4>2 DEF KindOf
      <3>3. CASE ~Opens
        BY <2>1, <3>3
      <3> QED BY <1>1, <3>1, <3>2, <3>3 DEF Ports
    <2>3. device' \in Objects
      BY <2>2 DEF KindOf, Objects
    <2>4. TypeOK'
      BY <1>0, <1>6, <2>1, <2>3 DEF TypeOK, AnyLine, Labels
    <2>5. Found'
      <3>1. Opens => new' # 0 /\ new' \in 1..FilesMax /\ file'[new'] = name
        BY <1>0, <1>1, <1>2
      <3> QED BY <1>0, <1>1, <2>2, <3>1 DEF Found, KindOf
    <2>6. \A n \in 1..FilesMax : file'[n] # None => Kept(n)' \/ n = new' \/ Mine(old, n)'
      BY <1>0, <1>3 DEF Kept, Mine
    <2>7. FilesInv'
      BY <1>0, <1>5, <2>1, <2>5, <2>6 DEF FilesInv, Settled
    <2>8. RegisteredInv'
      BY <1>0, <2>1 DEF RegisteredInv
    <2> QED BY <2>1, <2>4, <2>7, <2>8 DEF Explained
  <1> QED BY <1>7, <1>8

LEMMA FreePinsAny ==
  ASSUME AnyInv, FreePins
  PROVE  AnyInv' /\ Explained
PROOF
  <1> USE DEF AnyInv
  <1>0. /\ pc = "free" /\ Usable(old) /\ old \in Objects /\ keyer = None
        /\ UNCHANGED <<device, opt, files, keyer, todo, low, auto, setVars, running, arg,
                       args, received>>
    BY DEF FreePins, FilesInv, TypeOK, playVars, counts, RegisteredInv
  <1>1. /\ pins' \in [Ports -> SUBSET AnyLine]
        /\ pc' = "close" \/ (pc' = "crashed" /\ Disowned)
    BY <1>0, LinesType, UsableWorks DEF FreePins, Roles
  <1>2. TypeOK'
    BY <1>0, <1>1 DEF TypeOK, AnyLine, Labels, files, setVars
  <1>3. FilesInv'
    BY <1>0, <1>1, SameFiles
  <1>4. RegisteredInv'
    BY <1>0, <1>1 DEF RegisteredInv
  <1> QED BY <1>1, <1>2, <1>3, <1>4 DEF Explained

LEMMA CloseAny ==
  ASSUME AnyInv, Close
  PROVE  AnyInv' /\ Explained
PROOF
  <1> USE DEF AnyInv
  <1>0. /\ pc = "close" /\ pc' = "init" /\ Found /\ Usable(old) /\ old \in Objects
        /\ (old # "null" => fd[old] # new) /\ keyer = None /\ fd["null"] = 0
        /\ \A n \in 1..FilesMax : file[n] # None => Kept(n) \/ n = new \/ Mine(old, n)
        /\ UNCHANGED <<device, opt, pins, keyer, todo, low, auto, old, name, new, running,
                       arg, args, received>>
    BY DEF Close, FilesInv, TypeOK, playVars, counts, setVars, RegisteredInv
  <1>1. claimed' = {}
    <2>1. CASE old = "lp"
      BY <1>0, <2>1 DEF Close, Usable
    <2>2. CASE old # "lp"
      BY <1>0, <2>2 DEF Close, Usable
    <2> QED BY <2>1, <2>2
  <1>2. /\ file' \in [1..FilesMax -> Ports \cup {None}]
        /\ fd' \in [Objects -> 0..FilesMax] /\ fd'["null"] = 0
    BY <1>0, BoundsAssumption DEF Close, TypeOK
  <1>3. \A n \in 1..FilesMax :
          file'[n] = IF Mine(old, n) THEN None ELSE file[n]
    <2>1. old # "null" => fd[old] \in 1..FilesMax
      BY <1>0 DEF Usable
    <2>2. FilesMax \in Nat /\ file \in [1..FilesMax -> Ports \cup {None}]
      BY BoundsAssumption DEF TypeOK
    <2> QED BY <1>0, <2>1, <2>2 DEF Close, Mine
  <1>4. Found'
    BY <1>0, <1>3 DEF Found, Mine, KindOf
  <1>5. TypeOK'
    BY <1>0, <1>1, <1>2 DEF TypeOK, Labels
  <1>6. \A n \in 1..FilesMax : file'[n] # None => Kept(n)' \/ n = new'
    BY <1>0, <1>3 DEF Kept
  <1>7. FilesInv'
    BY <1>0, <1>1, <1>2, <1>4, <1>6 DEF FilesInv, Settled
  <1>8. RegisteredInv'
    BY <1>0 DEF RegisteredInv
  <1> QED BY <1>0, <1>5, <1>7, <1>8 DEF Explained

LEMMA InitDeviceAny ==
  ASSUME AnyInv, InitDevice
  PROVE  AnyInv' /\ Explained
PROOF
  <1> USE DEF AnyInv
  <1>0. /\ pc = "init" /\ Found /\ claimed = {} /\ keyer = None /\ fd["null"] = 0
        /\ fd' = [fd EXCEPT ![device] = new] /\ device \in Objects
        /\ \A n \in 1..FilesMax : file[n] # None => Kept(n) \/ n = new
        /\ UNCHANGED <<file, device, opt, keyer, todo, low, auto, old, name, new, running,
                       arg, args, received>>
    BY DEF InitDevice, FilesInv, playVars, counts, setVars, RegisteredInv, TypeOK
  <1>1. /\ claimed' = IF device = "lp" THEN {name} ELSE {}
        /\ pc' = "register"
        /\ pins' = IF device = "null" THEN pins
                   ELSE [pins EXCEPT ![name] = @ \ Lines(device)]
    BY <1>0 DEF InitDevice
  <1>2. /\ device = "tty" => name \in Serial
        /\ device = "lp" => name \in Parallel
        /\ device = "null" <=> new = 0
        /\ device # "null" => name \in Ports /\ new \in 1..FilesMax /\ file[new] = name
    BY <1>0 DEF Found, KindOf, Ports
  <1>3. /\ fd' \in [Objects -> 0..FilesMax] /\ fd'[device] = new /\ fd'["null"] = 0
        /\ 0 \notin 1..FilesMax
    BY <1>0, <1>2, BoundsAssumption DEF TypeOK, Objects
  <1>4. TypeOK'
    BY <1>0, <1>1, <1>2, <1>3 DEF TypeOK, Labels
  <1>5. Usable(device)'
    <2>1. device # "null" => Port(device)' = name
      BY <1>0, <1>2, <1>3 DEF Port
    <2> QED BY <1>0, <1>1, <1>2, <1>3, <2>1 DEF Usable
  <1>6. \A n \in 1..FilesMax : file'[n] # None => Kept(n)' \/ Mine(device, n)'
    BY <1>0, <1>2, <1>3 DEF Kept, Mine
  <1>7. FilesInv'
    BY <1>0, <1>1, <1>3, <1>5, <1>6 DEF FilesInv, Settled
  <1>8. RegisteredInv'
    BY <1>0, <1>1 DEF RegisteredInv
  <1> QED BY <1>1, <1>4, <1>7, <1>8 DEF Explained

LEMMA RegisterAny ==
  ASSUME AnyInv, Register
  PROVE  AnyInv' /\ Explained
PROOF
  <1> USE DEF AnyInv
  <1>0. /\ pc = "register" /\ pc' = (IF running THEN "select" ELSE "args")
        /\ keyer' = (IF running THEN device ELSE keyer) /\ keyer = None
        /\ device \in Objects /\ None \notin Objects
        /\ UNCHANGED <<device, opt, files, pins, todo, low, auto, setVars, running, arg,
                       args, received>>
    BY PortsAssumption DEF Register, playVars, counts, RegisteredInv, TypeOK
  <1>1. TypeOK'
    BY <1>0 DEF TypeOK, Labels, files, setVars
  <1>2. FilesInv'
    BY <1>0, SameFiles DEF Settled
  <1>3. RegisteredInv'
    BY <1>0 DEF RegisteredInv
  <1> QED BY <1>0, <1>1, <1>2, <1>3 DEF Explained

-----------------------------------------------------------------------------
(***************************************************************************)
(* Start and requests.                                                     *)
(***************************************************************************)
LEMMA SetStartAny ==
  ASSUME AnyInv, pc \in {"args", "select"}, NEW n \in Names, SetStart(n), keyer' = None,
         UNCHANGED <<device, opt, files, pins, playVars, new, running, arg>>,
         args' \in 0..MaxArgs, received' \in 0..MaxRequests, Preemptive \/ arg = None
  PROVE  AnyInv' /\ Explained
PROOF
  <1> USE DEF AnyInv
  <1>1. /\ pc' = "probe" /\ old' = device /\ name' \in Names
        /\ UNCHANGED <<fd, file, claimed, todo, low, auto>>
    BY DEF SetStart, files, playVars
  <1>2. TypeOK'
    BY <1>1 DEF TypeOK, Labels
  <1>3. Usable(device)' = Usable(device)
    BY <1>1 DEF Usable, Port
  <1>4. \A m : Kept(m)' = Kept(m) /\ Mine(device, m)' = Mine(device, m)
    BY <1>1 DEF Kept, Mine
  <1>5. FilesInv'
    BY <1>1, <1>3, <1>4 DEF FilesInv, Settled
  <1>6. RegisteredInv'
    BY <1>1 DEF RegisteredInv
  <1> QED BY <1>1, <1>2, <1>5, <1>6 DEF Explained

LEMMA ArgOptionAny ==
  ASSUME AnyInv, ArgOption
  PROVE  AnyInv' /\ Explained
PROOF
  <1> USE DEF AnyInv
  <1>0. /\ pc = "args" /\ args' \in 0..MaxArgs /\ keyer = None /\ Usable(device)
        /\ pc' \in {"args", "exit"}
        /\ UNCHANGED <<device, files, keyer, todo, low, auto, setVars, running, arg,
                       received>>
    BY BoundsAssumption
       DEF ArgOption, playVars, RegisteredInv, FilesInv, Settled, TypeOK
  <1>1. /\ opt' \in [Roles -> SerialLines \cup {"none"}]
        /\ pins' \in [Ports -> SUBSET (SerialLines \cup ParallelLines)]
    BY DEF ArgOption, TypeOK
  <1>2. TypeOK'
    BY <1>0, <1>1 DEF TypeOK, Labels, files, setVars
  <1>3. FilesInv'
    BY <1>0, SameFiles DEF Settled
  <1>4. RegisteredInv'
    BY <1>0 DEF RegisteredInv
  <1> QED BY <1>0, <1>2, <1>3, <1>4 DEF Explained

LEMMA ArgsEndAny ==
  ASSUME AnyInv, ArgsEnd
  PROVE  AnyInv' /\ Explained
PROOF
  <1> USE DEF AnyInv
  <1>0. /\ pc = "args" /\ pc' \in {"exit", "fork"} /\ keyer = None
        /\ UNCHANGED <<device, opt, files, pins, keyer, todo, low, auto, setVars, running,
                       arg, args, received>>
    BY DEF ArgsEnd, playVars, counts, RegisteredInv
  <1>1. TypeOK'
    BY <1>0 DEF TypeOK, Labels, files, setVars
  <1>2. FilesInv'
    BY <1>0, SameFiles DEF Settled
  <1>3. RegisteredInv'
    BY <1>0 DEF RegisteredInv
  <1> QED BY <1>0, <1>1, <1>2, <1>3 DEF Explained

\* The parent ends, with its claim of the port that the child uses.
LEMMA StartAny ==
  ASSUME AnyInv, Start
  PROVE  AnyInv' /\ Explained
PROOF
  <1> USE DEF AnyInv
  <1>0. /\ pc = "fork" /\ running' = TRUE /\ keyer' = device /\ device \in Objects
        /\ Usable(device) /\ fd["null"] = 0 /\ None \notin Objects
        /\ \A n \in 1..FilesMax : file[n] # None => Kept(n) \/ Mine(device, n)
        /\ UNCHANGED <<device, opt, fd, file, todo, low, auto, old, name, new, arg, args,
                       received>>
    BY PortsAssumption
       DEF Start, playVars, setVars, counts, FilesInv, Settled, TypeOK
  <1>1. /\ pins' \in [Ports -> SUBSET AnyLine] /\ claimed' \subseteq claimed
        /\ pc' = "select" \/ (pc' = "crashed" /\ Disowned)
        /\ Forking \/ claimed' = claimed
    <2>1. CASE Forking
      <3>1. SetLines(device, Lines(device), FALSE, "select")
        BY <2>1 DEF Start
      <3> QED BY <1>0, <2>1, <3>1, LinesType, UsableWorks DEF Start, Roles
    <2>2. CASE ~Forking
      BY <2>2 DEF Start, TypeOK, AnyLine
    <2> QED BY <2>1, <2>2
  <1>2. TypeOK'
    BY <1>0, <1>1 DEF TypeOK, Labels, AnyLine
  <1>3. Usable(device)'
    BY <1>0, <1>1 DEF Usable, Port
  <1>4. \A n \in 1..FilesMax : file'[n] # None => Kept(n)' \/ Mine(device, n)'
    BY <1>0 DEF Kept, Mine
  <1>5. FilesInv'
    BY <1>0, <1>1, <1>3, <1>4 DEF FilesInv, Settled
  <1>6. RegisteredInv'
    BY <1>0, <1>1 DEF RegisteredInv
  <1> QED BY <1>1, <1>2, <1>5, <1>6 DEF Explained

\* A step of the main loop that leaves the device alone.
LEMMA LoopStep ==
  ASSUME AnyInv, pc = "select",
         pc' \in {"select", "exit"} \/ (pc' = "crashed" /\ Disowned),
         UNCHANGED <<device, opt, files, setVars, running, args, arg>>,
         pins' \in [Ports -> SUBSET AnyLine], keyer' \in {keyer, device},
         todo' \in 0..Capacity, low' \in BOOLEAN, auto' \in BOOLEAN,
         received' \in 0..MaxRequests, arg # None => todo' > 0 /\ Preemptive
  PROVE  AnyInv' /\ Explained
PROOF
  <1> USE DEF AnyInv
  <1>0. device \in Objects /\ None \notin Objects
    BY PortsAssumption DEF TypeOK
  <1>1. TypeOK'
    BY DEF TypeOK, Labels, AnyLine, files, setVars
  <1>2. FilesInv'
    BY SameFiles DEF Settled
  <1>3. Refused' = Refused
    BY DEF Refused, setVars
  <1>4. RegisteredInv'
    BY <1>0, <1>3 DEF RegisteredInv
  <1> QED BY <1>1, <1>2, <1>4 DEF Explained

LEMMA AtLoop ==
  ASSUME AnyInv, pc = "select"
  PROVE  /\ Usable(device) /\ device \in Objects
         /\ (keyer # None => keyer = device) /\ (arg # None => todo > 0)
         /\ pins \in [Ports -> SUBSET AnyLine]
         /\ todo \in 0..Capacity /\ low \in BOOLEAN /\ auto \in BOOLEAN
         /\ received \in 0..MaxRequests /\ args \in 0..MaxArgs
PROOF BY DEF AnyInv, TypeOK, FilesInv, RegisteredInv, Settled, AnyLine

LEMMA RequestTypes ==
  ASSUME TypeOK, NEW kind, Request(kind)
  PROVE  /\ pc = "select" /\ received' \in 0..MaxRequests /\ (Preemptive \/ arg = None)
         /\ UNCHANGED <<running, args>>
PROOF BY BoundsAssumption DEF Request, TypeOK

LEMMA TextAny ==
  ASSUME AnyInv, Text
  PROVE  AnyInv' /\ Explained
PROOF
  <1>0. /\ pc = "select" /\ received' \in 0..MaxRequests /\ (Preemptive \/ arg = None)
        /\ UNCHANGED <<device, opt, files, keyer, low, setVars, running, args, arg>>
        /\ auto' = TRUE
    BY RequestTypes DEF Text, AnyInv
  <1>1. /\ Usable(device) /\ device \in Objects /\ (arg # None => todo > 0)
        /\ pins \in [Ports -> SUBSET AnyLine] /\ todo \in 0..Capacity /\ low \in BOOLEAN
    BY <1>0, AtLoop
  <1>2. todo' \in 0..Capacity /\ (todo > 0 => todo' > 0)
    BY <1>1 DEF Text, Events, Capacity
  <1>3. /\ pins' \in [Ports -> SUBSET AnyLine]
        /\ pc' = "select" \/ (pc' = "crashed" /\ Disowned)
    <2>1. CASE auto
      BY <1>0, <1>1, <2>1 DEF Text
    <2>2. CASE ~auto
      <3>1. SetLine(device, "ptt", TRUE, "select")
        BY <2>2 DEF Text
      <3> QED BY <1>1, <3>1, UsableLine DEF AnyInv, Roles
    <2> QED BY <2>1, <2>2
  <1> QED BY <1>0, <1>1, <1>2, <1>3, LoopStep

LEMMA StopGeneratorAny ==
  ASSUME AnyInv, pc = "select", NEW next, StopGenerator(next)
  PROVE  /\ pins' \in [Ports -> SUBSET AnyLine] /\ arg = None
         /\ todo' = 0 /\ low' = FALSE
         /\ pc' = next \/ (pc' = "crashed" /\ Disowned)
PROOF
  <1>1. /\ Usable(device) /\ device \in Objects /\ (keyer # None => keyer = device)
        /\ pins \in [Ports -> SUBSET AnyLine]
    BY AtLoop
  <1>2. CASE todo % 2 = 1 /\ keyer # None
    <2>1. SetLine(device, "key", FALSE, next)
      BY <1>1, <1>2 DEF StopGenerator
    <2> QED BY <1>1, <2>1, UsableLine DEF AnyInv, Roles, StopGenerator
  <1>3. CASE ~(todo % 2 = 1 /\ keyer # None)
    BY <1>1, <1>3 DEF StopGenerator
  <1> QED BY <1>2, <1>3

LEMMA SoundExitAny ==
  ASSUME AnyInv, Sound \/ Exit
  PROVE  AnyInv' /\ Explained
PROOF
  <1>0. /\ pc = "select" /\ received' \in 0..MaxRequests
        /\ UNCHANGED <<device, opt, files, auto, setVars, running, args, arg>>
        /\ keyer' \in {keyer, device}
    BY RequestTypes DEF Sound, Exit, AnyInv
  <1>1. PICK next \in {"select", "exit"} : StopGenerator(next)
    BY DEF Sound, Exit
  <1>2. auto \in BOOLEAN /\ 0 \in 0..Capacity
    BY <1>0, AtLoop DEF Capacity, Events
  <1>3. /\ pins' \in [Ports -> SUBSET AnyLine] /\ arg = None
        /\ todo' = 0 /\ low' = FALSE
        /\ pc' \in {"select", "exit"} \/ (pc' = "crashed" /\ Disowned)
    BY <1>0, <1>1, StopGeneratorAny
  <1> QED BY <1>0, <1>2, <1>3, LoopStep

LEMMA ResetAny ==
  ASSUME AnyInv, Reset
  PROVE  AnyInv' /\ Explained
PROOF
  <1>0. /\ pc = "select" /\ received' \in 0..MaxRequests /\ arg = None
        /\ UNCHANGED <<device, opt, files, setVars, running, args, arg>>
        /\ keyer' = device /\ todo' = 0 /\ low' = FALSE /\ auto' = FALSE
        /\ SetLines(device, Lines(device), FALSE, "select")
    BY RequestTypes DEF Reset, AnyInv
  <1>1. Usable(device) /\ device \in Objects /\ 0 \in 0..Capacity
    BY <1>0, AtLoop DEF Capacity, Events
  <1>2. /\ pins' \in [Ports -> SUBSET AnyLine]
        /\ pc' = "select" \/ (pc' = "crashed" /\ Disowned)
    BY <1>0, <1>1, LinesType, UsableWorks DEF Roles, AnyInv
  <1> QED BY <1>0, <1>1, <1>2, LoopStep

LEMMA OutputAny ==
  ASSUME AnyInv, NEW kind, NEW line, Output(kind, line)
  PROVE  AnyInv' /\ Explained
PROOF
  <1>0. /\ pc = "select" /\ received' \in 0..MaxRequests /\ (Preemptive \/ arg = None)
        /\ UNCHANGED <<device, opt, files, keyer, todo, low, auto, setVars, running, args,
                       arg>>
    BY RequestTypes DEF Output, AnyInv, playVars
  <1>1. /\ Usable(device) /\ device \in Objects /\ todo \in 0..Capacity
        /\ low \in BOOLEAN /\ auto \in BOOLEAN /\ (arg # None => todo > 0)
    BY <1>0, AtLoop
  <1>2. PICK on \in BOOLEAN : SetLines(device, {line} \cap Lines(device), on, "select")
    BY DEF Output
  <1>3. /\ {line} \cap Lines(device) \subseteq AnyLine
        /\ device = "null" => {line} \cap Lines(device) = {}
    BY <1>1, LinesType DEF Roles, AnyInv
  <1>4. /\ pins' \in [Ports -> SUBSET AnyLine]
        /\ pc' = "select" \/ (pc' = "crashed" /\ Disowned)
    BY <1>1, <1>2, <1>3, UsableWorks DEF AnyInv
  <1> QED BY <1>0, <1>1, <1>4, LoopStep

LEMMA FootswitchAny ==
  ASSUME AnyInv, Footswitch
  PROVE  AnyInv' /\ Explained
PROOF
  <1>0. /\ pc = "select" /\ device = "lp" /\ (Preemptive \/ arg = None)
        /\ UNCHANGED <<device, opt, files, keyer, todo, low, auto, setVars, running, args,
                       arg, received>>
    BY DEF Footswitch, playVars, counts
  <1>1. /\ Usable(device) /\ device \in Objects /\ todo \in 0..Capacity
        /\ low \in BOOLEAN /\ auto \in BOOLEAN /\ (arg # None => todo > 0)
        /\ received \in 0..MaxRequests
    BY <1>0, AtLoop
  <1>2. PICK on \in BOOLEAN : SetLine(device, "ptt", on, "select")
    BY <1>0 DEF Footswitch
  <1>3. /\ pins' \in [Ports -> SUBSET AnyLine]
        /\ pc' = "select" \/ (pc' = "crashed" /\ Disowned)
    BY <1>1, <1>2, UsableLine DEF AnyInv, Roles
  <1> QED BY <1>0, <1>1, <1>3, LoopStep

LEMMA ExitFreeAny ==
  ASSUME AnyInv, ExitFree
  PROVE  AnyInv' /\ Explained
PROOF
  <1> USE DEF AnyInv
  <1>0. /\ pc = "exit" /\ Usable(device) /\ device \in Objects
        /\ UNCHANGED <<device, opt, files, keyer, todo, low, auto, setVars, running, arg,
                       args, received>>
    BY DEF ExitFree, FilesInv, Settled, TypeOK, playVars, counts
  <1>1. /\ pins' \in [Ports -> SUBSET AnyLine]
        /\ pc' = "exited" \/ (pc' = "crashed" /\ Disowned)
    BY <1>0, LinesType, UsableWorks DEF ExitFree, Roles
  <1>2. TypeOK'
    BY <1>0, <1>1 DEF TypeOK, AnyLine, Labels, files, setVars
  <1>3. FilesInv'
    BY <1>0, <1>1, SameFiles DEF Settled
  <1>4. RegisteredInv'
    BY <1>0, <1>1 DEF RegisteredInv
  <1> QED BY <1>1, <1>2, <1>3, <1>4 DEF Explained

-----------------------------------------------------------------------------
(***************************************************************************)
(* The generator's thread, at any place of the main thread.                *)
(***************************************************************************)
LEMMA GeneratorStep ==
  ASSUME AnyInv, Generator, MayGenerate,
         pc' = pc \/ (pc' = "crashed" /\ (Disowned \/ Caught)),
         UNCHANGED <<device, opt, files, keyer, setVars, running, args, received>>,
         pins' \in [Ports -> SUBSET AnyLine],
         todo' \in 0..Capacity, low' \in BOOLEAN, auto' \in BOOLEAN,
         arg' # None => /\ arg' \in Objects /\ todo' > 0
                        /\ Preemptive \/ (pc = "select" /\ arg' = device)
  PROVE  AnyInv' /\ Explained
PROOF
  <1> USE DEF AnyInv
  <1>1. TypeOK'
    BY DEF TypeOK, Labels, AnyLine, files, setVars
  <1>2. FilesInv'
    BY SameFiles
  <1>3. Refused' = Refused
    BY DEF Refused, setVars
  <1>4. RegisteredInv'
    <2>1. device' = device /\ keyer' = keyer /\ running' = running
      OBVIOUS
    <2>2. (keyer # None => keyer = device /\ pc \in {"select", "exit", "exited", "crashed"})'
      BY <2>1 DEF RegisteredInv
    <2>3. (pc = "select" => running /\ (keyer = None => Refused))'
      BY <1>3, <2>1 DEF RegisteredInv
    <2>4. (arg # None => /\ todo > 0
                         /\ Preemptive \/ (pc \in {"select", "crashed"} /\ arg = device))'
      BY <2>1
    <2> QED BY <2>2, <2>3, <2>4 DEF RegisteredInv
  <1>5. pc # "crashed"
    BY DEF MayGenerate, Stopped
  <1> QED BY <1>1, <1>2, <1>4, <1>5 DEF Explained

LEMMA AnyTypes ==
  ASSUME AnyInv
  PROVE  /\ pins \in [Ports -> SUBSET AnyLine] /\ device \in Objects
         /\ todo \in 0..Capacity /\ low \in BOOLEAN /\ auto \in BOOLEAN
         /\ arg \in Objects \cup {None}
PROOF BY DEF AnyInv, TypeOK, AnyLine

\* An object that cannot set its line in the generator's thread.
LEMMA UnableIsExplained ==
  ASSUME AnyInv, MayGenerate, NEW o \in Objects, o # "null", ~Able(o),
         o = device \/ (o = arg /\ arg # None)
  PROVE  Disowned \/ Caught
PROOF
  <1> USE DEF AnyInv
  <1>1. None \notin Objects
    BY PortsAssumption
  <1>2. CASE o = device
    <2>1. CASE pc \in {"free", "close", "init"}
      BY <2>1 DEF Caught, MayGenerate
    <2>2. CASE pc \notin {"free", "close", "init"}
      <3>1. pc \in Settled
        BY <2>2 DEF TypeOK, Labels, Settled, MayGenerate, Stopped
      <3> QED BY <1>2, <3>1, UsableIsAble DEF FilesInv
    <2> QED BY <2>1, <2>2
  <1>3. CASE o # device
    BY <1>1, <1>3 DEF Caught, RegisteredInv
  <1> QED BY <1>2, <1>3

LEMMA GeneratorLine ==
  ASSUME AnyInv, MayGenerate, NEW o \in Objects, NEW role \in Roles, NEW on \in BOOLEAN,
         SetLine(o, role, on, pc), o = device \/ (o = arg /\ arg # None)
  PROVE  /\ pins' \in [Ports -> SUBSET AnyLine]
         /\ pc' = pc \/ (pc' = "crashed" /\ (Disowned \/ Caught))
PROOF
  <1> DEFINE L == {Line(o, role)} \ {"none"}
  <1>1. L \subseteq AnyLine /\ (o = "null" => L = {})
    BY LinesType DEF AnyInv
  <1>2. SetLines(o, L, on, pc)
    BY DEF SetLine
  <1> HIDE DEF L
  <1>3. /\ pins' \in [Ports -> SUBSET AnyLine]
        /\ pc' = pc \/ (pc' = "crashed" /\ L # {} /\ ~Able(o))
    BY <1>1, <1>2, SetLinesTotal DEF AnyInv
  <1>4. L # {} /\ ~Able(o) => Disowned \/ Caught
    BY <1>1, UnableIsExplained
  <1> QED BY <1>3, <1>4

LEMMA LoadKeyerAny ==
  ASSUME AnyInv, LoadKeyer
  PROVE  AnyInv' /\ Explained
PROOF
  <1>0. /\ UNCHANGED <<device, opt, files, pins, keyer, todo, low, auto, pc, setVars,
                       running, args, received>>
        /\ MayGenerate /\ todo > 0 /\ keyer # None /\ arg' = keyer /\ Generator
    BY DEF LoadKeyer, Generator, playVars, counts
  <1>1. keyer = device /\ (Preemptive \/ pc = "select")
    BY <1>0 DEF AnyInv, RegisteredInv, MayGenerate
  <1> QED BY <1>0, <1>1, AnyTypes, GeneratorStep

LEMMA KeyingEventAny ==
  ASSUME AnyInv, KeyingEvent
  PROVE  AnyInv' /\ Explained
PROOF
  <1>0. /\ UNCHANGED <<device, opt, files, keyer, auto, setVars, running, args, received>>
        /\ MayGenerate /\ arg # None /\ arg' = None /\ todo' = todo - 1
        /\ low' = (todo = 1) /\ Generator
        /\ SetLine(arg, "key", todo % 2 = 0, pc)
    BY DEF KeyingEvent, Generator, counts
  <1>1. arg \in Objects /\ todo \in 0..Capacity /\ todo > 0 /\ auto \in BOOLEAN
    BY <1>0, AnyTypes DEF AnyInv, RegisteredInv
  <1>2. todo' \in 0..Capacity /\ low' \in BOOLEAN
    BY <1>0, <1>1 DEF Capacity, Events
  <1>3. /\ pins' \in [Ports -> SUBSET AnyLine]
        /\ pc' = pc \/ (pc' = "crashed" /\ (Disowned \/ Caught))
    BY <1>0, <1>1, GeneratorLine DEF Roles
  <1> QED BY <1>0, <1>1, <1>2, <1>3, GeneratorStep

LEMMA UnkeyedEventAny ==
  ASSUME AnyInv, UnkeyedEvent
  PROVE  AnyInv' /\ Explained
PROOF
  <1>0. /\ UNCHANGED <<device, opt, files, pins, keyer, auto, pc, setVars, running, arg,
                       args, received>>
        /\ MayGenerate /\ todo > 0 /\ arg = None /\ todo' = todo - 1 /\ low' = (todo = 1)
        /\ Generator
    BY DEF UnkeyedEvent, Generator, counts
  <1>1. todo' \in 0..Capacity /\ low' \in BOOLEAN
    BY <1>0, AnyTypes DEF Capacity, Events
  <1> QED BY <1>0, <1>1, AnyTypes, GeneratorStep

LEMMA PttOffAny ==
  ASSUME AnyInv, PttOff
  PROVE  AnyInv' /\ Explained
PROOF
  <1>0. /\ UNCHANGED <<device, opt, files, keyer, todo, setVars, running, arg, args,
                       received>>
        /\ MayGenerate /\ low' = FALSE /\ auto' = (auto /\ todo > 0) /\ Generator
    BY DEF PttOff, Generator, counts
  <1>1. /\ pins' \in [Ports -> SUBSET AnyLine]
        /\ pc' = pc \/ (pc' = "crashed" /\ (Disowned \/ Caught))
    <2>1. CASE auto /\ todo = 0
      <3>1. SetLine(device, "ptt", FALSE, pc)
        BY <2>1 DEF PttOff
      <3> QED BY <1>0, <3>1, AnyTypes, GeneratorLine DEF Roles
    <2>2. CASE ~(auto /\ todo = 0)
      BY <2>2, AnyTypes DEF PttOff
    <2> QED BY <2>1, <2>2
  <1>2. arg # None => /\ todo > 0
                      /\ Preemptive \/ (pc = "select" /\ arg = device)
    BY <1>0 DEF AnyInv, RegisteredInv, MayGenerate
  <1> QED BY <1>0, <1>1, <1>2, AnyTypes, GeneratorStep

-----------------------------------------------------------------------------
LEMMA InitAny ==
  ASSUME Init
  PROVE  AnyInv
PROOF
  <1>1. TypeOK
    <2>1. opt \in [Roles -> SerialLines \cup {"none"}]
      BY DEF Init, Roles, SerialLines
    <2>2. /\ fd \in [Objects -> 0..FilesMax] /\ file \in [1..FilesMax -> Ports \cup {None}]
          /\ pins \in [Ports -> SUBSET (SerialLines \cup ParallelLines)]
      BY BoundsAssumption DEF Init
    <2>3. todo \in 0..Capacity /\ new \in 0..FilesMax /\ args \in 0..MaxArgs
            /\ received \in 0..MaxRequests
      BY BoundsAssumption DEF Init, Capacity, Events
    <2> QED BY <2>1, <2>2, <2>3 DEF Init, TypeOK, Objects, Labels
  <1>2. FilesInv
    BY DEF Init, FilesInv, Usable, Settled, Objects
  <1>3. RegisteredInv
    BY DEF Init, RegisteredInv
  <1> QED BY <1>1, <1>2, <1>3 DEF AnyInv

LEMMA StutterAny ==
  ASSUME AnyInv, UNCHANGED vars
  PROVE  AnyInv'
PROOF
  <1> USE DEF vars, playVars, counts
  <1>1. TypeOK'
    BY DEF AnyInv, TypeOK, files, setVars
  <1>2. FilesInv'
    BY SameFiles DEF AnyInv
  <1>3. RegisteredInv'
    BY DEF AnyInv, RegisteredInv, Refused, setVars
  <1> QED BY <1>1, <1>2, <1>3 DEF AnyInv

LEMMA NextAny ==
  ASSUME AnyInv, [Next]_vars
  PROVE  AnyInv' /\ (pc # "crashed" => Explained)
PROOF
  <1>1. CASE CwdeviceSet
    BY <1>1, ProbeAny, FreePinsAny, CloseAny, InitDeviceAny, RegisterAny DEF CwdeviceSet
  <1>2. CASE ArgDevice \/ Device
    <2>1. PICK n \in Names : SetStart(n)
      BY <1>2 DEF ArgDevice, Device
    <2>2. /\ pc \in {"args", "select"} /\ keyer' = None
          /\ UNCHANGED <<device, opt, files, pins, playVars, new, running, arg>>
          /\ args' \in 0..MaxArgs /\ received' \in 0..MaxRequests
          /\ Preemptive \/ arg = None
      <3>1. CASE ArgDevice
        BY <3>1, BoundsAssumption DEF ArgDevice, AnyInv, TypeOK, RegisteredInv
      <3>2. CASE Device
        BY <3>2, RequestTypes DEF Device, AnyInv, TypeOK
      <3> QED BY <1>2, <3>1, <3>2
    <2> QED BY <2>1, <2>2, SetStartAny
  <1>3. CASE Startup
    BY <1>2, <1>3, ArgOptionAny, ArgsEndAny, StartAny DEF Startup
  <1>4. CASE UNCHANGED vars
    BY <1>4, StutterAny DEF Explained, vars
  <1>5. CASE Requested
    BY <1>2, <1>4, <1>5, TextAny, SoundExitAny, ResetAny, OutputAny, FootswitchAny
       DEF Requested, SelectTimeout, SsbWay, SwitchBand
  <1>6. CASE ExitFree
    BY <1>6, ExitFreeAny
  <1>7. CASE Generator
    BY <1>7, LoadKeyerAny, KeyingEventAny, UnkeyedEventAny, PttOffAny DEF Generator
  <1>8. CASE Terminated
    BY <1>4, <1>8 DEF Terminated
  <1> QED BY <1>1, <1>3, <1>4, <1>5, <1>6, <1>7, <1>8 DEF Next

LEMMA AlwaysAny == Spec => []AnyInv
PROOF
  <1>1. Init => AnyInv
    BY InitAny
  <1>2. AnyInv /\ [Next]_vars => AnyInv'
    BY NextAny
  <1> QED BY <1>1, <1>2, PTL DEF Spec

\* Type correctness, also when no descriptor is left for a device that is
\* asked for.
THEOREM TypeCorrect == Spec => []TypeOK
PROOF
  <1>1. AnyInv => TypeOK
    BY DEF AnyInv
  <1> QED BY <1>1, AlwaysAny, PTL

\* Replacing a device leaves no file open behind it, but those of parallel
\* ports that an ordinary user asks for.
THEOREM OneFileOpen == Spec => []OneFile
PROOF
  <1>1. ASSUME AnyInv, Idle
        PROVE  /\ device # "null" => fd[device] \in DOMAIN file /\ Port(device) # None
               /\ \A n \in 1..FilesMax : file[n] # None =>
                    (device # "null" /\ n = fd[device]) \/ (file[n] \in Parallel /\ ~Root)
    <2>1. /\ Usable(device) /\ device \in Objects
          /\ \A n \in 1..FilesMax : file[n] # None => Kept(n) \/ Mine(device, n)
      BY <1>1 DEF AnyInv, TypeOK, FilesInv, Idle, Settled
    <2>2. DOMAIN file = 1..FilesMax
      BY <1>1 DEF AnyInv, TypeOK
    <2>3. device # "null" => Port(device) \in Ports
      BY <2>1 DEF Usable, Ports, Objects
    <2> QED BY <2>1, <2>2, <2>3, PortsAssumption DEF Usable, Kept, Mine
  <1>2. AnyInv => OneFile
    BY <1>1 DEF OneFile
  <1> QED BY <1>2, AlwaysAny, PTL

\* <ESC>8, <ESC>f and <ESC>0, in any order and whatever the generator is
\* doing, leave the keying callback registered for the current device, unless
\* the last <ESC>8 was refused.
THEOREM CallbackFollowsDevice == Spec => []KeyerAttached
PROOF
  <1>1. AnyInv => KeyerAttached
    BY DEF AnyInv, RegisteredInv, KeyerAttached, Idle
  <1> QED BY <1>1, AlwaysAny, PTL

\* The program ends in a driver in two cases only, whatever is asked for and
\* however the threads are scheduled: the parent's end has released the
\* parallel port of the daemon, or the generator's thread has a device that
\* <ESC>8 is replacing.
THEOREM ExitsOfDrivers == Spec => DriverExits
PROOF
  <1>1. AnyInv /\ [Next]_vars =>
          [pc # "crashed" /\ pc' = "crashed" => Disowned \/ (Caught /\ Generator)]_vars
    BY NextAny DEF Explained
  <1> QED BY <1>1, AlwaysAny, PTL DEF Spec, DriverExits
=============================================================================
