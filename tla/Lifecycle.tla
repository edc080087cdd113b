----------------------------- MODULE Lifecycle -----------------------------
(***************************************************************************)
(* The life of cwdaemon's process, or of its two processes when it forks:  *)
(* the command line, the resources that main() acquires one by one, and    *)
(* exit() with its handlers, from any place and by any cause.  Each        *)
(* handler is registered before the resource it releases is acquired, so   *)
(* that a failure half way is cleaned up as well.  Also where a message    *)
(* about a failure goes, which depends on the place.                       *)
(*                                                                         *)
(* What the main loop does is in Keyer and Receiver; what -d and -o do is  *)
(* in CwDevice, and here one of three outcomes.                            *)
(***************************************************************************)
EXTENDS Integers, Sequences, FiniteSets, FiniteSetsExt

CONSTANTS
  Options,    \* options the command line may hold, [name, value]
  MaxArgs,    \* bound: options on one command line
  FlagsSize,  \* 2^32: how many values libcw's debug flags have
  SpeedMin, SpeedMax, \* CW_SPEED_MIN, CW_SPEED_MAX of libcw
  NotANumber, \* a value that cwdaemon_get_long() refuses
  None

OptionNames == {"wpm", "tone", "volume", "weighting", "pttdelay", "threshold",
                "port", "priority", "flags", "path", "verbose", "nofork",
                "cwdevice", "help"}

ASSUME SizesAssumption == MaxArgs \in Nat /\ FlagsSize \in Nat \ {0}
\* The speed without -s is one that libcw takes.
ASSUME SpeedAssumption ==
  SpeedMin \in Nat /\ SpeedMax \in Nat /\ 24 \in SpeedMin..SpeedMax
ASSUME OptionsAssumption == \A o \in Options :
  /\ o.name \in OptionNames
  /\ o.name = "pttdelay" => o.value \in {NotANumber} \cup Int

\* The process that is started, and the daemon it forks.
Processes == {"parent", "child"}
Resources == {"names", "device", "file", "socket", "output"}
ResourceOf == [cwdevices_free |-> "names", cwdevice_free |-> "device",
               debug_close |-> "file", close_socket |-> "socket",
               close_libcw |-> "output"]
ASSUME NoneAssumption == None \notin DOMAIN ResourceOf \cup {"stdout", "stderr"}

\* Priorities of syslog.h; LOG_CRIT stands for "no messages".
LOG_CRIT == 2
LOG_ERR == 3
LOG_WARNING == 4
LOG_NOTICE == 5
LOG_INFO == 6
LOG_DEBUG == 7

VARIABLES
  given,    \* history: the options read so far
  defaults, \* what the options set
  current,  \* by process: the values in force
  level,    \* by process: libcw's debug level, or None
  place,    \* by process: how far main() is
  handlers, \* by process: handlers registered with atexit()
  held,     \* by process: resources that are open
  debug_f,  \* by process: cwdaemon_debug_f
  running,  \* by process: the exit handler that runs, or None
  broken,   \* by process: exit handlers that were not completed
  outcome,  \* by process: status of exit(), place, where it was reported
  sigint    \* SIGINT: by default, caught, or blocked while it is handled

argVars == <<given, defaults>>
logVars == <<debug_f, level>>
exitVars == <<place, running, broken, outcome>>
vars == <<argVars, current, logVars, handlers, held, exitVars, sigint>>

\* The values at the start, and those cwdaemon_reset_almost_all() copies.
ProgramDefaults ==
  [wpm |-> 24, tone |-> 800, volume |-> 70, weighting |-> 0, pttdelay |-> 0,
   threshold |-> LOG_WARNING, port |-> 6789, priority |-> 0, flags |-> 0,
   path |-> None, forking |-> TRUE]
CurrentNames == {"wpm", "tone", "volume", "weighting", "pttdelay", "threshold"}
Copied(values) == [n \in CurrentNames |-> values[n]]

Init ==
  /\ given = <<>> /\ defaults = ProgramDefaults
  /\ current = [p \in Processes |-> Copied(ProgramDefaults)]
  /\ level = [p \in Processes |-> None]
  /\ place = [parent |-> "devices", child |-> "none"]
  /\ handlers = [p \in Processes |-> <<>>]
  /\ held = [p \in Processes |-> {}]
  /\ debug_f = [p \in Processes |-> "stdout"]
  /\ running = [p \in Processes |-> None]
  /\ broken = [p \in Processes |-> {}]
  /\ outcome = [p \in Processes |-> None]
  /\ sigint = "default"

-----------------------------------------------------------------------------
(***************************************************************************)
(* Where a message goes.                                                   *)
(***************************************************************************)
\* log_message(): to syslog if there is no file.
MessageTo(p, priority) ==
  IF priority > current[p].threshold THEN "nowhere"
  ELSE IF debug_f[p] = "null" THEN "syslog" ELSE debug_f[p]

\* cwdaemon_debug(): nowhere if there is no file.
DebugTo(p, priority, threshold) ==
  IF priority > threshold \/ debug_f[p] = "null" THEN "nowhere" ELSE debug_f[p]

\* Mutant: errors go where debug messages go.
ErrmsgViaDebug(p) == DebugTo(p, LOG_ERR, current[p].threshold)

\* cwdaemon_errmsg(): whatever the file is.
ErrmsgTo(p) == IF defaults.forking THEN "syslog" ELSE "stdout"

-----------------------------------------------------------------------------
(***************************************************************************)
(* exit().  It forgets the handler that is running, if any, and goes on    *)
(* with those that are left.                                               *)
(***************************************************************************)
Exit(p, status, said) ==
  /\ place' = [place EXCEPT ![p] = "exiting"]
  /\ running' = [running EXCEPT ![p] = None]
  /\ broken' = [broken EXCEPT ![p] = @ \cup ({running[p]} \ {None})]
  /\ outcome' = [outcome EXCEPT ![p] =
                   [status |-> status, at |-> place[p], said |-> said]]

\* Mutant: the socket is opened before the process forks.
NextStageSocketFirst(stage) ==
  CASE stage = "devices"  -> "args"
    [] stage = "args"     -> "debug"
    [] stage = "debug"    -> "socket"
    [] stage = "socket"   -> "bind"
    [] stage = "bind"     -> IF defaults.forking THEN "fork" ELSE "foreground"
    [] stage \in {"foreground", "detach"} -> "priority"
    [] stage = "priority" -> "output"
    [] stage = "output"   -> "callback"
    [] stage = "callback" -> "loop"

\* Mutant: the sound system is opened, and its handler registered, before
\* the socket.
NextStageOutputFirst(stage) ==
  CASE stage = "devices"  -> "args"
    [] stage = "args"     -> "debug"
    [] stage = "debug"    -> IF defaults.forking THEN "fork" ELSE "foreground"
    [] stage \in {"foreground", "detach"} -> "output"
    [] stage = "output"   -> "socket"
    [] stage = "socket"   -> "bind"
    [] stage = "bind"     -> "priority"
    [] stage = "priority" -> "callback"
    [] stage = "callback" -> "loop"

\* The order of main().
NextStage(stage) ==
  CASE stage = "devices"  -> "args"
    [] stage = "args"     -> "debug"
    [] stage = "debug"    -> IF defaults.forking THEN "fork" ELSE "foreground"
    [] stage \in {"foreground", "detach"} -> "socket"
    [] stage = "socket"   -> "bind"
    [] stage = "bind"     -> "priority"
    [] stage = "priority" -> "output"
    [] stage = "output"   -> "callback"
    [] stage = "callback" -> "loop"

Advance(p) ==
  /\ place' = [place EXCEPT ![p] = NextStage(@)]
  /\ UNCHANGED <<running, broken, outcome>>

AtExit(p, h) == handlers' = [handlers EXCEPT ![p] = Append(@, h)]
Acquire(p, r) == held' = [held EXCEPT ![p] = @ \cup {r}]

-----------------------------------------------------------------------------
(***************************************************************************)
(* The command line.                                                       *)
(***************************************************************************)
\* cwdaemon_get_long(): a decimal number and nothing after it.
GetLong(v) == v # NotANumber

ParamsPriority(v)  == v \in -20..20
ParamsWpm(v)       == v \in SpeedMin..SpeedMax
ParamsVolume(v)    == v \in 0..100
ParamsWeighting(v) == v \in -50..50
ParamsTone(v)      == v \in 0..4000
ParamsPort(v)      == v \in 1024..65535

\* cwdaemon_params_pttdelay(): 2 for a value that a request may have, and
\* that is clipped for it.
ParamsPttdelay(v) ==
  IF ~GetLong(v) \/ v < 0 THEN 0 ELSE IF v > 50 THEN 2 ELSE 1

\* cwdaemon_option_libcwflags() takes any number, as 32 unsigned bits.
ToFlags(v) == v % FlagsSize

\* The first letter of -y; "syslog" is reserved as the name of a file.
SetVerbosity(v) == v \in {LOG_CRIT, LOG_ERR, LOG_WARNING, LOG_INFO, LOG_DEBUG}
ParamsDebugfile(v) == v # "syslog"

\* Mutant: the option is as lenient as the request.
AcceptedLenient(o) ==
  /\ GetLong(o.value)
  /\ CASE o.name = "pttdelay" -> ParamsPttdelay(o.value) # 0
       [] o.name = "wpm"      -> ParamsWpm(o.value)
       [] o.name = "path"     -> ParamsDebugfile(o.value)
       [] OTHER               -> TRUE

\* What every option accepts; -i and -n have no value.
Accepted(o) ==
  /\ GetLong(o.value)
  /\ CASE o.name = "pttdelay"  -> ParamsPttdelay(o.value) = 1
       [] o.name = "priority"  -> ParamsPriority(o.value)
       [] o.name = "wpm"       -> ParamsWpm(o.value)
       [] o.name = "volume"    -> ParamsVolume(o.value)
       [] o.name = "weighting" -> ParamsWeighting(o.value)
       [] o.name = "tone"      -> ParamsTone(o.value)
       [] o.name = "port"      -> ParamsPort(o.value)
       [] o.name = "threshold" -> SetVerbosity(o.value)
       [] o.name = "path"      -> ParamsDebugfile(o.value)
       [] OTHER                -> TRUE

\* Mutant: an off-by-one at the limit.
IncVerbosityPast(t) == IF t <= LOG_DEBUG THEN t + 1 ELSE t

IncVerbosity(t) == IF t < LOG_DEBUG THEN t + 1 ELSE t

Applied(o) ==
  CASE o.name = "verbose" -> [defaults EXCEPT !.threshold = IncVerbosity(@)]
    [] o.name = "nofork"  -> [defaults EXCEPT !.forking = FALSE]
    [] o.name = "flags"   -> [defaults EXCEPT !.flags = ToFlags(o.value)]
    [] OTHER              -> [defaults EXCEPT ![o.name] = o.value]

\* The names of the devices; free() copes with those not allocated yet.
InitDevices(p) ==
  /\ place[p] = "devices"
  /\ Acquire(p, "names")
  /\ \/ /\ Advance(p)
        /\ handlers' = [handlers EXCEPT ![p] = <<"cwdevices_free", "cwdevice_free">>]
     \/ /\ Exit(p, "failure", MessageTo(p, LOG_ERR))
        /\ AtExit(p, "cwdevices_free")
  /\ UNCHANGED <<argVars, current, logVars, sigint>>

\* The next option.  Its messages are filtered by the threshold the program
\* starts with, whatever -y and -i say.
Argument(p) ==
  /\ place[p] = "args" /\ Len(given) < MaxArgs
  /\ \E o \in Options :
       /\ o.name \notin {"cwdevice", "help"}
       /\ given' = Append(given, o)
       /\ IF Accepted(o)
          THEN defaults' = Applied(o) /\ UNCHANGED exitVars
          ELSE Exit(p, "failure", MessageTo(p, LOG_ERR)) /\ UNCHANGED defaults
  /\ UNCHANGED <<current, logVars, handlers, held, sigint>>

\* --help and --version.
Help(p) ==
  /\ place[p] = "args" /\ Len(given) < MaxArgs
  /\ \E o \in Options : o.name = "help" /\ given' = Append(given, o)
  /\ Exit(p, "success", "stdout")
  /\ UNCHANGED <<defaults, current, logVars, handlers, held, sigint>>

\* -d: a port, the null device, or a failure.
ArgDevice(p) ==
  /\ place[p] = "args" /\ Len(given) < MaxArgs
  /\ \E o \in Options : o.name = "cwdevice" /\ given' = Append(given, o)
  /\ \/ Acquire(p, "device") /\ UNCHANGED exitVars
     \/ held' = [held EXCEPT ![p] = @ \ {"device"}] /\ UNCHANGED exitVars
     \/ Exit(p, "failure", MessageTo(p, LOG_ERR)) /\ UNCHANGED held
  /\ UNCHANGED <<defaults, current, logVars, handlers, sigint>>

\* Options of a serial port can contradict each other; a word that is not an
\* option is refused.
ArgsEnd(p) ==
  /\ place[p] = "args"
  /\ \/ Advance(p)
     \/ Exit(p, "failure", MessageTo(p, LOG_ERR))
  /\ UNCHANGED <<argVars, current, logVars, handlers, held, sigint>>

-----------------------------------------------------------------------------
(***************************************************************************)
(* Start.                                                                  *)
(***************************************************************************)
OpenFile(p) ==
  \/ Acquire(p, "file") /\ debug_f' = [debug_f EXCEPT ![p] = "file"] /\ Advance(p)
  \/ /\ debug_f' = [debug_f EXCEPT ![p] = "null"]
     /\ Exit(p, "failure", "stderr") /\ UNCHANGED held

\* Mutant: "-f stdout" is accepted from a process that will fork.
DebugOpenNoClash(p) ==
  /\ place[p] = "debug"
  /\ AtExit(p, "debug_close")
  /\ CASE defaults.path \in {"stdout", "stderr"} ->
            /\ debug_f' = [debug_f EXCEPT ![p] = defaults.path]
            /\ Advance(p) /\ UNCHANGED held
       [] defaults.path = None ->
            /\ debug_f' = [debug_f EXCEPT ![p] =
                             IF defaults.forking THEN "null" ELSE "stdout"]
            /\ Advance(p) /\ UNCHANGED held
       [] OTHER -> OpenFile(p)
  /\ UNCHANGED <<argVars, current, level, sigint>>

DebugOpen(p) ==
  /\ place[p] = "debug"
  /\ AtExit(p, "debug_close")
  /\ CASE defaults.forking /\ defaults.path \in {"stdout", "stderr"} ->
            /\ Exit(p, "failure", "stdout")
            /\ UNCHANGED <<debug_f, held>>
       [] ~defaults.forking /\ defaults.path \in {"stdout", "stderr"} ->
            /\ debug_f' = [debug_f EXCEPT ![p] = defaults.path]
            /\ Advance(p) /\ UNCHANGED held
       [] defaults.path = None ->
            /\ debug_f' = [debug_f EXCEPT ![p] =
                             IF defaults.forking THEN "null" ELSE "stdout"]
            /\ Advance(p) /\ UNCHANGED held
       [] OTHER -> OpenFile(p)
  /\ UNCHANGED <<argVars, current, level, sigint>>

\* The child has a copy of everything; the parent exits, with its handlers.
Fork ==
  /\ place["parent"] = "fork"
  /\ \/ /\ place' = [parent |-> "exiting", child |-> "detach"]
        /\ handlers' = [handlers EXCEPT !["child"] = handlers["parent"]]
        /\ held' = [held EXCEPT !["child"] = held["parent"]]
        /\ debug_f' = [debug_f EXCEPT !["child"] = debug_f["parent"]]
        /\ outcome' = [outcome EXCEPT !["parent"] =
                         [status |-> "success", at |-> "fork", said |-> "nowhere"]]
        /\ UNCHANGED <<running, broken>>
     \/ /\ Exit("parent", "failure", "stdout")
        /\ UNCHANGED <<handlers, held, debug_f>>
  /\ UNCHANGED <<argVars, current, level, sigint>>

\* signal(): before, ^C ends the process with no handler called.
Foreground(p) ==
  /\ place[p] = "foreground"
  /\ Advance(p)
  /\ sigint' = "caught"
  /\ UNCHANGED <<argVars, current, logVars, handlers, held>>

\* setsid(), chdir(), /dev/null in place of the terminal.
Detach(p) ==
  /\ place[p] = "detach"
  /\ Advance(p) \/ Exit(p, "failure", "syslog")
  /\ UNCHANGED <<argVars, current, logVars, handlers, held, sigint>>

\* Mutant: the handler is registered when the socket is ready.
CreateSocketLate(p) ==
  /\ place[p] = "socket"
  /\ \/ Acquire(p, "socket") /\ Advance(p)
     \/ Exit(p, "failure", ErrmsgTo(p)) /\ UNCHANGED held
  /\ UNCHANGED <<argVars, current, logVars, handlers, sigint>>

CreateSocket(p) ==
  /\ place[p] = "socket"
  /\ AtExit(p, "close_socket")
  /\ \/ Acquire(p, "socket") /\ Advance(p)
     \/ Exit(p, "failure", ErrmsgTo(p)) /\ UNCHANGED held
  /\ UNCHANGED <<argVars, current, logVars, sigint>>

\* bind() and fcntl(): when they fail the socket is open.
BindSocket(p) ==
  /\ place[p] = "bind"
  /\ Advance(p) \/ Exit(p, "failure", ErrmsgTo(p))
  /\ UNCHANGED <<argVars, current, logVars, handlers, held, sigint>>

SetPriority(p) ==
  /\ place[p] = "priority"
  /\ \/ Advance(p)
     \/ defaults.priority # 0 /\ Exit(p, "failure", ErrmsgTo(p))
  /\ UNCHANGED <<argVars, current, logVars, handlers, held, sigint>>

\* cwdaemon_reset_almost_all(): the options take effect, also if no
\* generator can be created or if it does not start.
ResetAlmostAll(p) ==
  /\ place[p] = "output"
  /\ AtExit(p, "close_libcw")
  /\ current' = [current EXCEPT ![p] = Copied(defaults)]
  /\ \/ Acquire(p, "output") /\ Advance(p)
     \/ /\ Exit(p, "failure", DebugTo(p, LOG_ERR, defaults.threshold))
        /\ UNCHANGED held
     \/ /\ Exit(p, "failure", DebugTo(p, LOG_INFO, defaults.threshold))
        /\ Acquire(p, "output")
  /\ UNCHANGED <<argVars, logVars, sigint>>

\* Mutant: no case for the threshold that only -i can choose.
LibcwLevelNoNotice(threshold) ==
  CASE threshold = LOG_ERR -> "error" [] threshold = LOG_WARNING -> "warning"
    [] threshold = LOG_INFO -> "info" [] threshold = LOG_DEBUG -> "debug"
    [] OTHER -> "none"

\* set_libcw_debugging(): only -i can choose LOG_NOTICE.
LibcwLevel(threshold) ==
  CASE threshold = LOG_ERR -> "error" [] threshold \in {LOG_WARNING, LOG_NOTICE} -> "warning"
    [] threshold = LOG_INFO -> "info" [] threshold = LOG_DEBUG -> "debug"
    [] OTHER -> "none"

\* libcw's debugging, the keying callback.
EnterLoop(p) ==
  /\ place[p] = "callback"
  /\ Advance(p)
  /\ level' = [level EXCEPT ![p] =
                 IF defaults.flags = 0 THEN @
                 ELSE LibcwLevel(current[p].threshold)]
  /\ UNCHANGED <<argVars, current, debug_f, handlers, held, sigint>>

-----------------------------------------------------------------------------
(***************************************************************************)
(* Exit from the main loop, by a request or as recvfrom() failed, by ^C in *)
(* a process that did not fork, and the handlers.                          *)
(***************************************************************************)
LoopExit(p) ==
  /\ place[p] = "loop"
  /\ Exit(p, "success", "nowhere") \/ Exit(p, "failure", ErrmsgTo(p))
  /\ UNCHANGED <<argVars, current, logVars, handlers, held, sigint>>

\* The signal stays blocked while its handler runs, which does not return.
CatchSigint(p) ==
  /\ p = "parent" /\ place[p] # "gone"
  /\ sigint = "caught" /\ sigint' = "blocked"
  /\ Exit(p, "success", "stdout")
  /\ UNCHANGED <<argVars, current, logVars, handlers, held>>

\* Mutant: a handler is still registered while it runs.
BeginHandlerKept(p) ==
  /\ place[p] = "exiting" /\ running[p] = None /\ handlers[p] # <<>>
  /\ running' = [running EXCEPT ![p] = handlers[p][Len(handlers[p])]]
  /\ UNCHANGED <<argVars, current, logVars, handlers, held, place, broken,
                 outcome, sigint>>

\* The handler that was registered last is taken from the list and called.
BeginHandler(p) ==
  /\ place[p] = "exiting" /\ running[p] = None /\ handlers[p] # <<>>
  /\ running' = [running EXCEPT ![p] = handlers[p][Len(handlers[p])]]
  /\ handlers' = [handlers EXCEPT ![p] = SubSeq(@, 1, Len(@) - 1)]
  /\ UNCHANGED <<argVars, current, logVars, held, place, broken, outcome,
                 sigint>>

\* What a handler releases need not have been acquired.
EndHandler(p) ==
  /\ running[p] # None
  /\ held' = [held EXCEPT ![p] = @ \ {ResourceOf[running[p]]}]
  /\ debug_f' = [debug_f EXCEPT ![p] =
                   IF running[p] = "debug_close" /\ @ = "file" THEN "null" ELSE @]
  /\ running' = [running EXCEPT ![p] = None]
  /\ UNCHANGED <<argVars, current, level, handlers, place, broken, outcome,
                 sigint>>

\* close() of the socket, and the drivers' ioctl(): exit() again.
FailHandler(p) ==
  /\ \/ running[p] = "close_socket" /\ Exit(p, "failure", ErrmsgTo(p))
     \/ /\ running[p] = "cwdevice_free" /\ "device" \in held[p]
        /\ Exit(p, "failure", ErrmsgTo(p))
  /\ UNCHANGED <<argVars, current, logVars, handlers, held, sigint>>

Gone(p) ==
  /\ place[p] = "exiting" /\ running[p] = None /\ handlers[p] = <<>>
  /\ place' = [place EXCEPT ![p] = "gone"]
  /\ UNCHANGED <<argVars, current, logVars, handlers, held, running, broken,
                 outcome, sigint>>

-----------------------------------------------------------------------------
Arguments(p) == Argument(p) \/ Help(p) \/ ArgDevice(p) \/ ArgsEnd(p)
Start(p) == \/ InitDevices(p) \/ Arguments(p) \/ DebugOpen(p) \/ Foreground(p)
            \/ Detach(p) \/ CreateSocket(p) \/ BindSocket(p) \/ SetPriority(p)
            \/ ResetAlmostAll(p) \/ EnterLoop(p)
Exiting(p) == BeginHandler(p) \/ EndHandler(p) \/ FailHandler(p) \/ Gone(p)
Step(p) == Start(p) \/ Exiting(p)

Terminated == /\ \A p \in Processes : place[p] \in {"none", "gone"}
              /\ UNCHANGED vars

Next == \/ Fork \/ Terminated
        \/ \E p \in Processes : Step(p) \/ LoopExit(p) \/ CatchSigint(p)

Spec == Init /\ [][Next]_vars
\* A process that can go on goes on; nothing makes it leave the main loop.
FairSpec == Spec /\ WF_vars(Fork) /\ \A p \in Processes : WF_vars(Step(p))

-----------------------------------------------------------------------------
Stages == {"devices", "args", "debug", "fork", "foreground", "detach", "socket", "bind",
           "priority", "output", "callback", "loop", "exiting", "gone"}

\* Type invariant: every variable has its type.
TypeOK ==
  /\ given \in Seq(Options)
  /\ DOMAIN defaults = DOMAIN ProgramDefaults
  /\ defaults.threshold \in LOG_CRIT..LOG_DEBUG
  /\ \A p \in Processes : DOMAIN current[p] = CurrentNames
  /\ level \in [Processes -> {None, "none", "error", "warning", "info", "debug"}]
  /\ place \in [Processes -> Stages \cup {"none"}]
  /\ handlers \in [Processes -> Seq(DOMAIN ResourceOf)]
  /\ held \in [Processes -> SUBSET Resources]
  /\ debug_f \in [Processes -> {"stdout", "stderr", "file", "null"}]
  /\ running \in [Processes -> DOMAIN ResourceOf \cup {None}]
  /\ broken \in [Processes -> SUBSET DOMAIN ResourceOf]
  /\ outcome \in [Processes ->
       [status : {"success", "failure"}, at : Stages,
        said : {"stdout", "stderr", "file", "syslog", "nowhere"}] \cup {None}]
  /\ sigint \in {"default", "caught", "blocked"}

-----------------------------------------------------------------------------
(***************************************************************************)
(* Properties.                                                             *)
(***************************************************************************)
\* Reference: what a command line asks for.  The last option of a name
\* counts; -i adds one to what the last -y, or the default, says.
At(name) == {i \in 1..Len(given) : given[i].name = name}
LastOf(name) == IF At(name) = {} THEN ProgramDefaults[name]
                ELSE given[Max(At(name))].value
Verbosity ==
  LET since == {i \in At("verbose") : \A j \in At("threshold") : j < i}
      sum == LastOf("threshold") + Cardinality(since)
  IN  IF sum > LOG_DEBUG THEN LOG_DEBUG ELSE sum

\* A daemon that serves has the values its command line asks for, all within
\* their limits; libcw is debugged exactly if flags were asked for, with the
\* daemon's own threshold.
Configured ==
  \A p \in Processes : place[p] = "loop" =>
    /\ \A n \in CurrentNames \ {"threshold"} : current[p][n] = LastOf(n)
    /\ current[p].threshold = Verbosity
    /\ current[p].pttdelay \in 0..50
    /\ current[p].wpm \in SpeedMin..SpeedMax
    /\ defaults.port = LastOf("port")
    /\ level[p] = IF LastOf("flags") % FlagsSize = 0 THEN None
                  ELSE CASE Verbosity = LOG_CRIT -> "none"
                         [] Verbosity = LOG_ERR -> "error"
                         [] Verbosity \in {LOG_WARNING, LOG_NOTICE} -> "warning"
                         [] Verbosity = LOG_INFO -> "info"
                         [] Verbosity = LOG_DEBUG -> "debug"

\* As long as there is a generator, its thread can find the socket it
\* replies by: exit() ends the generator first.  Only ^C while exit() stops
\* the generator breaks this.
ResourcesOutliveUsers ==
  \A p \in Processes :
    "output" \in held[p] /\ "close_libcw" \notin broken[p]
      => "socket" \in held[p] /\ (defaults.forking => p = "child")

\* Whatever exit() was called by, and wherever, nothing stays open but what
\* a handler that was itself cut short by exit() had to close.
NothingLeft ==
  \A p \in Processes : place[p] = "gone" =>
    \A h \in DOMAIN ResourceOf : ResourceOf[h] \in held[p] => h \in broken[p]

\* A daemon in the background has no business with the terminal.
DaemonLeavesTerminal ==
  place["child"] # "none"
    => MessageTo("child", LOG_ERR) \in {"file", "syslog", "nowhere"}

\* The process that forks never has a socket or a generator: a text is
\* received and played once.
OnlyDaemonServes ==
  defaults.forking => held["parent"] \cap {"socket", "output"} = {}

\* A process that ends with a failure has said why, except when the sound
\* system could not be opened or started.
FailureReported ==
  \A p \in Processes :
    outcome[p] # None /\ outcome[p].status = "failure" /\ outcome[p].at # "output"
      => outcome[p].said # "nowhere"

\* The start ends in the main loop or in the end of the process, and exit()
\* ends, also when handlers call it again.
Settles == \A p \in Processes :
  place[p] # "none" ~> place[p] \in {"loop", "gone"}

=============================================================================
