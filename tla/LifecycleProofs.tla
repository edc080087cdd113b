-------------------------- MODULE LifecycleProofs --------------------------
(***************************************************************************)
(* What holds of the start and of the end of the process for every set of  *)
(* options and every length of the command line.                           *)
(***************************************************************************)
EXTENDS Lifecycle, FiniteSetTheorems, WellFoundedInduction, TLAPS

Handlers == {"cwdevices_free", "cwdevice_free", "debug_close", "close_socket",
             "close_libcw"}

(***************************************************************************)
(* Handlers are registered in one order, and called in the opposite one:   *)
(* the list is at any time the beginning of that order, and how much of it *)
(* is there depends on how far main() is.                                  *)
(***************************************************************************)
Rank == [cwdevices_free |-> 1, cwdevice_free |-> 2, debug_close |-> 3,
         close_socket |-> 4, close_libcw |-> 5]
HandlersInv(p) ==
  /\ \A i \in 1..Len(handlers[p]) : Rank[handlers[p][i]] = i
  /\ place[p] \in {"none", "devices", "gone"} => Len(handlers[p]) = 0
  /\ place[p] \in {"args", "debug"} => Len(handlers[p]) = 2
  /\ place[p] \in {"fork", "foreground", "detach", "socket"}
       => Len(handlers[p]) = 3
  /\ place[p] \in {"bind", "priority", "output"} => Len(handlers[p]) = 4
  /\ place[p] \in {"callback", "loop"} => Len(handlers[p]) = 5

(***************************************************************************)
(* A handler that runs was the last one.  What is open has its handler     *)
(* still to be called, running, or cut short.                              *)
(***************************************************************************)
RunningInv(p) ==
  /\ running[p] # None => place[p] = "exiting"
  /\ running[p] # None => Len(handlers[p]) < Rank[running[p]]
  /\ place[p] \notin {"exiting", "gone"} => broken[p] = {}
HeldInv(p) ==
  \A h \in Handlers : ResourceOf[h] \in held[p] =>
    Rank[h] <= Len(handlers[p]) \/ running[p] = h \/ h \in broken[p]
ServiceInv(p) ==
  /\ place[p] \in {"none", "devices", "args", "debug", "fork", "foreground",
                   "detach", "socket"} => held[p] \cap {"socket", "output"} = {}
  /\ place[p] \in {"bind", "priority", "output", "callback", "loop"}
       => "socket" \in held[p]
  /\ "output" \in held[p] /\ "close_libcw" \notin broken[p]
       => "socket" \in held[p]
ProcessInv(p) == HandlersInv(p) /\ RunningInv(p) /\ HeldInv(p) /\ ServiceInv(p)

(***************************************************************************)
(* Only one of the two processes gets as far as the socket.                *)
(***************************************************************************)
Served == {"socket", "bind", "priority", "output", "callback", "loop"}
ForkInv ==
  /\ place["child"] # "none"
       => place["parent"] \in {"exiting", "gone"} /\ defaults.forking
  /\ place["child"] \in {"none", "detach", "exiting", "gone"} \cup Served
  /\ place["parent"] \in {"foreground"} \cup Served => ~defaults.forking
  /\ place["parent"] = "fork" => defaults.forking
  /\ place["parent"] \notin {"none", "detach"}
  /\ OnlyDaemonServes

(***************************************************************************)
(* The log: on the terminal until the file is opened, and never again in a *)
(* process that has forked.                                                *)
(***************************************************************************)
LogInv(p) ==
  /\ debug_f[p] = "file" => "file" \in held[p]
  /\ place[p] \in {"devices", "args"}
       => debug_f[p] = "stdout" /\ current[p].threshold = LOG_WARNING
  /\ outcome[p] # None /\ outcome[p].status = "failure"
       /\ outcome[p].at # "output" => outcome[p].said # "nowhere"
DetachedInv ==
  /\ place["parent"] = "fork" => debug_f["parent"] \in {"file", "null"}
  /\ place["child"] # "none" => debug_f["child"] \in {"file", "null"}

Logs == {"stdout", "stderr", "file", "null"}
Said == {"stdout", "stderr", "file", "syslog", "nowhere"}
TypeInv ==
  /\ place \in [Processes -> Stages \cup {"none"}]
  /\ handlers \in [Processes -> Seq(Handlers)]
  /\ held \in [Processes -> SUBSET Resources]
  /\ debug_f \in [Processes -> Logs]
  /\ running \in [Processes -> Handlers \cup {None}]
  /\ broken \in [Processes -> SUBSET Handlers]
  /\ outcome \in [Processes ->
       [status : {"success", "failure"}, at : Stages, said : Said] \cup {None}]
  /\ DOMAIN current = Processes
  /\ "forking" \in DOMAIN defaults /\ defaults.forking \in BOOLEAN

LifeInv == /\ TypeInv /\ ForkInv /\ DetachedInv
           /\ \A p \in Processes : ProcessInv(p) /\ LogInv(p)

-----------------------------------------------------------------------------
LEMMA HandlersDomain == DOMAIN ResourceOf = Handlers
  BY DEF ResourceOf, Handlers

LEMMA RankFacts ==
  /\ \A h \in Handlers : Rank[h] \in 1..5 /\ ResourceOf[h] \in Resources
  /\ \A h, g \in Handlers :
       (Rank[h] = Rank[g] => h = g) /\ (ResourceOf[h] = ResourceOf[g] => h = g)
  /\ Rank["cwdevices_free"] = 1 /\ Rank["cwdevice_free"] = 2
  /\ Rank["debug_close"] = 3 /\ Rank["close_socket"] = 4
  /\ Rank["close_libcw"] = 5
  /\ ResourceOf["debug_close"] = "file" /\ ResourceOf["close_socket"] = "socket"
  /\ ResourceOf["close_libcw"] = "output" /\ ResourceOf["cwdevice_free"] = "device"
  /\ ResourceOf["cwdevices_free"] = "names"
  BY DEF Handlers, Rank, Resources, ResourceOf

LEMMA NextStageOf ==
  /\ NextStage("devices") = "args" /\ NextStage("args") = "debug"
  /\ NextStage("debug") = IF defaults.forking THEN "fork" ELSE "foreground"
  /\ NextStage("foreground") = "socket" /\ NextStage("detach") = "socket"
  /\ NextStage("socket") = "bind" /\ NextStage("bind") = "priority"
  /\ NextStage("priority") = "output" /\ NextStage("output") = "callback"
  /\ NextStage("callback") = "loop"
  BY Zenon DEF NextStage

LEMMA AppendHandler ==
  ASSUME NEW s \in Seq(Handlers), NEW h \in Handlers
  PROVE  /\ Append(s, h) \in Seq(Handlers) /\ Len(Append(s, h)) = Len(s) + 1
         /\ \A i \in 1..Len(s) : Append(s, h)[i] = s[i]
         /\ Append(s, h)[Len(s) + 1] = h
  OBVIOUS

\* Where the messages of the start go.
LEMMA MessagePlace ==
  ASSUME TypeInv, NEW p \in Processes
  PROVE  /\ MessageTo(p, LOG_ERR) \in Said
         /\ \A x, t : DebugTo(p, x, t) \in Said
         /\ ErrmsgTo(p) \in {"syslog", "stdout"}
  <1>1. debug_f[p] = "null" \/ debug_f[p] \in Said
    BY DEF TypeInv, Logs, Said
  <1>2. MessageTo(p, LOG_ERR) \in Said
    <2>1. \/ MessageTo(p, LOG_ERR) \in {"nowhere", "syslog"}
          \/ debug_f[p] # "null" /\ MessageTo(p, LOG_ERR) = debug_f[p]
      BY Zenon DEF MessageTo
    <2> QED
      BY <1>1, <2>1 DEF Said
  <1>3. ASSUME NEW x, NEW t PROVE DebugTo(p, x, t) \in Said
    <2>1. \/ DebugTo(p, x, t) = "nowhere"
          \/ debug_f[p] # "null" /\ DebugTo(p, x, t) = debug_f[p]
      BY Zenon DEF DebugTo
    <2> QED
      BY <1>1, <2>1 DEF Said
  <1> QED
    BY <1>2, <1>3 DEF ErrmsgTo

\* exit(): the handler that runs is cut short.
LEMMA ExitStep ==
  ASSUME TypeInv, NEW p \in Processes, place[p] \in Stages,
         NEW status \in {"success", "failure"}, NEW said \in Said,
         Exit(p, status, said)
  PROVE  /\ place' \in [Processes -> Stages \cup {"none"}]
         /\ running' \in [Processes -> Handlers \cup {None}]
         /\ broken' \in [Processes -> SUBSET Handlers]
         /\ outcome' \in [Processes ->
              [status : {"success", "failure"}, at : Stages, said : Said]
              \cup {None}]
         /\ place'[p] = "exiting" /\ running'[p] = None
         /\ broken'[p] = broken[p] \cup ({running[p]} \ {None})
         /\ outcome'[p] = [status |-> status, at |-> place[p], said |-> said]
         /\ \A q \in Processes \ {p} :
              /\ place'[q] = place[q] /\ running'[q] = running[q]
              /\ broken'[q] = broken[q] /\ outcome'[q] = outcome[q]
  <1>1. "exiting" \in Stages
    BY DEF Stages
  <1>2. [status |-> status, at |-> place[p], said |-> said]
          \in [status : {"success", "failure"}, at : Stages, said : Said]
    OBVIOUS
  <1>3. {running[p]} \ {None} \subseteq Handlers
    BY DEF TypeInv
  <1> QED
    BY <1>1, <1>2, <1>3 DEF Exit, TypeInv

\* The types after exit(), and what it leaves alone.
ExitFrame(p) ==
  /\ place' \in [Processes -> Stages \cup {"none"}]
  /\ running' \in [Processes -> Handlers \cup {None}]
  /\ broken' \in [Processes -> SUBSET Handlers]
  /\ outcome' \in [Processes ->
       [status : {"success", "failure"}, at : Stages, said : Said] \cup {None}]
  /\ \A q \in Processes \ {p} :
       /\ place'[q] = place[q] /\ running'[q] = running[q]
       /\ broken'[q] = broken[q] /\ outcome'[q] = outcome[q]
LEMMA ExitFrameHolds ==
  ASSUME TypeInv, NEW p \in Processes, place[p] \in Stages,
         NEW status \in {"success", "failure"}, NEW said \in Said,
         Exit(p, status, said)
  PROVE  ExitFrame(p)
  BY ExitStep, Zenon DEF ExitFrame

-----------------------------------------------------------------------------
\* A step of a process, other than fork(), is about that process alone.
Alone(p) == \A q \in Processes \ {p} :
  /\ place'[q] = place[q] /\ handlers'[q] = handlers[q] /\ held'[q] = held[q]
  /\ debug_f'[q] = debug_f[q] /\ running'[q] = running[q]
  /\ broken'[q] = broken[q] /\ outcome'[q] = outcome[q]
  /\ current'[q] = current[q]

\* An option that is accepted changes forking only to FALSE.
LEMMA AppliedForking ==
  ASSUME NEW o \in Options, "forking" \in DOMAIN defaults,
         defaults.forking \in BOOLEAN, o.name # "cwdevice", o.name # "help"
  PROVE  /\ "forking" \in DOMAIN Applied(o)
         /\ Applied(o).forking \in {defaults.forking, FALSE}
  <1>1. o.name \in OptionNames
    BY OptionsAssumption
  <1>2. CASE o.name = "verbose"
    <2>1. Applied(o) = [defaults EXCEPT !.threshold = IncVerbosity(@)]
      BY <1>2, Zenon DEF Applied
    <2> QED
      BY <2>1
  <1>3. CASE o.name = "nofork"
    <2>1. Applied(o) = [defaults EXCEPT !.forking = FALSE]
      BY <1>3, Zenon DEF Applied
    <2> QED
      BY <2>1
  <1>4. CASE o.name = "flags"
    <2>1. Applied(o) = [defaults EXCEPT !.flags = ToFlags(o.value)]
      BY <1>4, Zenon DEF Applied
    <2> QED
      BY <2>1
  <1>5. CASE o.name \notin {"verbose", "nofork", "flags"}
    <2>1. Applied(o) = [defaults EXCEPT ![o.name] = o.value]
      BY <1>5, Zenon DEF Applied
    <2>2. o.name # "forking"
      BY <1>1 DEF OptionNames
    <2> QED
      BY <2>1, <2>2
  <1> QED
    BY <1>2, <1>3, <1>4, <1>5

LEMMA StagesFacts ==
  /\ {"args", "debug", "fork", "foreground", "socket", "bind", "priority",
      "output", "callback", "loop", "exiting", "gone", "devices", "detach"}
       = Stages
  /\ \A s \in Stages : s # "none"
  BY DEF Stages

LEMMA AdvanceStep ==
  ASSUME TypeInv, NEW p \in Processes, Advance(p),
         place[p] \in {"devices", "args", "debug", "foreground", "detach",
                       "socket", "bind", "priority", "output", "callback"}
  PROVE  /\ place' \in [Processes -> Stages \cup {"none"}]
         /\ place'[p] = NextStage(place[p])
         /\ \A q \in Processes \ {p} : place'[q] = place[q]
         /\ running' = running /\ broken' = broken /\ outcome' = outcome
  <1>1. NextStage(place[p]) \in Stages
    BY NextStageOf DEF Stages
  <1> QED
    BY <1>1 DEF Advance, TypeInv

LEMMA AtExitStep ==
  ASSUME TypeInv, NEW p \in Processes, NEW h \in Handlers, AtExit(p, h)
  PROVE  /\ handlers' \in [Processes -> Seq(Handlers)]
         /\ Len(handlers'[p]) = Len(handlers[p]) + 1
         /\ \A i \in 1..Len(handlers[p]) : handlers'[p][i] = handlers[p][i]
         /\ handlers'[p][Len(handlers[p]) + 1] = h
         /\ \A q \in Processes \ {p} : handlers'[q] = handlers[q]
  <1>1. handlers[p] \in Seq(Handlers)
    BY DEF TypeInv
  <1>2. /\ handlers'[p] = Append(handlers[p], h)
        /\ handlers' = [handlers EXCEPT ![p] = Append(handlers[p], h)]
    BY DEF AtExit, TypeInv
  <1>3. Append(handlers[p], h) \in Seq(Handlers)
    BY <1>1, AppendHandler
  <1>4. handlers' \in [Processes -> Seq(Handlers)]
    BY <1>2, <1>3 DEF TypeInv
  <1>5. \A q \in Processes \ {p} : handlers'[q] = handlers[q]
    BY <1>2 DEF TypeInv
  <1> QED
    BY <1>1, <1>2, <1>4, <1>5, AppendHandler

LEMMA AcquireStep ==
  ASSUME TypeInv, NEW p \in Processes, NEW r \in Resources, Acquire(p, r)
  PROVE  /\ held' \in [Processes -> SUBSET Resources]
         /\ held'[p] = held[p] \cup {r}
         /\ \A q \in Processes \ {p} : held'[q] = held[q]
  BY DEF Acquire, TypeInv

-----------------------------------------------------------------------------
(***************************************************************************)
(* Each step of a process preserves what is said of that process.          *)
(***************************************************************************)
Preserved(p) == TypeInv' /\ Alone(p) /\ ProcessInv(p)' /\ LogInv(p)'

LEMMA ExitProcess ==
  ASSUME TypeInv, NEW p \in Processes, place[p] \in Stages,
         NEW status \in {"success", "failure"}, NEW said \in Said,
         Exit(p, status, said), RunningInv(p),
         handlers' \in [Processes -> Seq(Handlers)],
         \A i \in 1..Len(handlers'[p]) : Rank[handlers'[p][i]] = i,
         \A h \in Handlers : ResourceOf[h] \in held'[p] =>
           Rank[h] <= Len(handlers'[p]) \/ running[p] = h \/ h \in broken[p],
         "output" \in held'[p] /\ "close_libcw" \notin broken[p]
           => "socket" \in held'[p]
  PROVE  ProcessInv(p)'
  <1>1. /\ place'[p] = "exiting" /\ running'[p] = None
        /\ broken'[p] = broken[p] \cup ({running[p]} \ {None})
    BY DEF Exit, TypeInv
  <1>2. None \notin Handlers
    BY NoneAssumption, HandlersDomain
  <1>3. HandlersInv(p)'
    BY <1>1 DEF HandlersInv
  <1>4. RunningInv(p)'
    BY <1>1 DEF RunningInv
  <1>5. HeldInv(p)'
    BY <1>1, <1>2 DEF HeldInv
  <1>6. ServiceInv(p)'
    BY <1>1 DEF ServiceInv
  <1> QED
    BY <1>3, <1>4, <1>5, <1>6 DEF ProcessInv

\* exit() by a step that does nothing else.
LEMMA ExitPreserves ==
  ASSUME TypeInv, NEW p \in Processes, place[p] \in Stages,
         ProcessInv(p), LogInv(p),
         NEW status \in {"success", "failure"}, NEW said \in Said,
         status = "failure" => said # "nowhere",
         Exit(p, status, said),
         UNCHANGED <<defaults, current, logVars, handlers, held>>
  PROVE  Preserved(p)
  <1>1. ProcessInv(p)'
    <2>1. handlers' = handlers /\ held' = held
      OBVIOUS
    <2>2. handlers \in [Processes -> Seq(Handlers)]
      BY DEF TypeInv
    <2> QED
      BY <2>1, <2>2, ExitProcess
      DEF ProcessInv, HandlersInv, HeldInv, ServiceInv
  <1>2. TypeInv' /\ Alone(p)
    <2>1. ExitFrame(p)
      BY ExitFrameHolds
    <2> QED
      BY <2>1 DEF ExitFrame, TypeInv, Alone, logVars
  <1>4. LogInv(p)'
    <2>1. /\ place'[p] = "exiting" /\ debug_f' = debug_f /\ held' = held
          /\ outcome'[p] = [status |-> status, at |-> place[p], said |-> said]
      BY ExitStep DEF logVars
    <2>2. outcome'[p].status = status /\ outcome'[p].said = said
      BY <2>1
    <2> QED
      BY <2>1, <2>2 DEF LogInv
  <1> QED
    BY <1>1, <1>2, <1>4 DEF Preserved

\* The next stage, by a step that does nothing else.
LEMMA AdvancePreserves ==
  ASSUME TypeInv, NEW p \in Processes, ProcessInv(p), LogInv(p), Advance(p),
         place[p] \in {"args", "foreground", "detach", "bind", "priority"},
         UNCHANGED <<defaults, current, logVars, handlers, held>>
  PROVE  Preserved(p)
  <1>1. /\ place' \in [Processes -> Stages \cup {"none"}]
        /\ place'[p] = NextStage(place[p])
        /\ \A q \in Processes \ {p} : place'[q] = place[q]
        /\ running' = running /\ broken' = broken /\ outcome' = outcome
    BY AdvanceStep
  <1>2. TypeInv' /\ Alone(p)
    BY <1>1 DEF TypeInv, Alone, logVars
  <1>3. /\ place[p] = "args" => place'[p] = "debug"
        /\ place[p] \in {"foreground", "detach"} => place'[p] = "socket"
        /\ place[p] = "bind" => place'[p] = "priority"
        /\ place[p] = "priority" => place'[p] = "output"
    BY <1>1, NextStageOf
  <1>4. HandlersInv(p)' /\ RunningInv(p)' /\ HeldInv(p)' /\ ServiceInv(p)'
    <2>1. HandlersInv(p)'
      BY <1>3 DEF ProcessInv, HandlersInv
    <2>2. RunningInv(p)' /\ HeldInv(p)'
      BY <1>1 DEF ProcessInv, RunningInv, HeldInv
    <2>3. ServiceInv(p)'
      BY <1>1, <1>3 DEF ProcessInv, ServiceInv
    <2> QED
      BY <2>1, <2>2, <2>3
  <1>5. LogInv(p)'
    BY <1>1, <1>3 DEF LogInv, logVars
  <1> QED
    BY <1>2, <1>4, <1>5 DEF Preserved, ProcessInv

\* A refused command line is reported on the terminal.
LEMMA StartMessage ==
  ASSUME NEW p \in Processes, LogInv(p), place[p] \in {"devices", "args"}
  PROVE  MessageTo(p, LOG_ERR) = "stdout"
  <1>1. debug_f[p] = "stdout" /\ ~(LOG_ERR > current[p].threshold)
    BY DEF LogInv, LOG_ERR, LOG_WARNING
  <1> QED
    BY <1>1, Zenon DEF MessageTo

LEMMA InitDevicesPreserves ==
  ASSUME TypeInv, NEW p \in Processes, ProcessInv(p), LogInv(p), InitDevices(p)
  PROVE  Preserved(p)
  <1>1. /\ place[p] = "devices" /\ place[p] \in Stages /\ "names" \in Resources
        /\ "stdout" \in Said
        /\ UNCHANGED <<defaults, current, debug_f>>
    BY DEF InitDevices, Stages, argVars, logVars, Resources, Said
  <1>2. /\ held' \in [Processes -> SUBSET Resources]
        /\ held'[p] = held[p] \cup {"names"}
        /\ \A q \in Processes \ {p} : held'[q] = held[q]
    BY <1>1, AcquireStep DEF InitDevices
  <1>3. /\ Len(handlers[p]) = 0 /\ handlers[p] \in Seq(Handlers)
        /\ running[p] = None /\ broken[p] = {}
        /\ held[p] \cap {"socket", "output"} = {}
        /\ debug_f[p] = "stdout" /\ current[p].threshold = LOG_WARNING
    BY <1>1
    DEF ProcessInv, HandlersInv, RunningInv, ServiceInv, LogInv, TypeInv
  <1>4. \A h \in Handlers : ResourceOf[h] \in held'[p] => Rank[h] <= 1
    <2>1. ASSUME NEW h \in Handlers, ResourceOf[h] \in held[p] PROVE FALSE
      BY <1>3, <2>1, RankFacts, NoneAssumption, HandlersDomain
      DEF ProcessInv, HeldInv
    <2> QED
      BY <1>2, <2>1, RankFacts DEF Handlers
  <1>5. CASE Advance(p)
    <2>1. handlers' = [handlers EXCEPT ![p] = <<"cwdevices_free", "cwdevice_free">>]
          \/ Exit(p, "failure", MessageTo(p, LOG_ERR))
      BY DEF InitDevices
    <2>2. place'[p] = "args"
      BY <1>1, <1>5, AdvanceStep, NextStageOf
    <2>3. ~Exit(p, "failure", MessageTo(p, LOG_ERR))
      BY <2>2 DEF Exit, TypeInv
    <2>4. /\ handlers' \in [Processes -> Seq(Handlers)]
          /\ handlers'[p] = <<"cwdevices_free", "cwdevice_free">>
          /\ \A q \in Processes \ {p} : handlers'[q] = handlers[q]
      <3>1. <<"cwdevices_free", "cwdevice_free">> \in Seq(Handlers)
        BY DEF Handlers
      <3>2. handlers' = [handlers EXCEPT ![p] =
                           <<"cwdevices_free", "cwdevice_free">>]
        BY <2>1, <2>3
      <3> QED
        BY <3>1, <3>2 DEF TypeInv
    <2>5. /\ place' \in [Processes -> Stages \cup {"none"}]
          /\ running' = running /\ broken' = broken /\ outcome' = outcome
          /\ \A q \in Processes \ {p} : place'[q] = place[q]
      BY <1>1, <1>5, AdvanceStep
    <2>6. TypeInv' /\ Alone(p)
      BY <1>1, <1>2, <2>4, <2>5 DEF TypeInv, Alone
    <2>7. HandlersInv(p)'
      <3>1. Len(handlers'[p]) = 2
        BY <2>4
      <3>2. ASSUME NEW i \in 1..2 PROVE Rank[handlers'[p][i]] = i
        BY <2>4, <3>2, RankFacts, i = 1 \/ i = 2
      <3> QED
        BY <2>2, <3>1, <3>2 DEF HandlersInv
    <2>8. RunningInv(p)' /\ HeldInv(p)' /\ ServiceInv(p)' /\ LogInv(p)'
      <3>1. Len(handlers'[p]) = 2
        BY <2>4
      <3>2. HeldInv(p)'
        BY <1>4, <3>1, RankFacts DEF HeldInv
      <3>3. RunningInv(p)' /\ ServiceInv(p)'
        BY <1>2, <1>3, <2>2, <2>5 DEF RunningInv, ServiceInv
      <3>4. LogInv(p)'
        BY <1>1, <1>2, <1>3, <2>2, <2>5 DEF LogInv
      <3> QED
        BY <3>2, <3>3, <3>4
    <2> QED
      BY <2>6, <2>7, <2>8 DEF Preserved, ProcessInv
  <1>6. CASE Exit(p, "failure", MessageTo(p, LOG_ERR))
    <2>1. Exit(p, "failure", "stdout")
      BY <1>1, <1>6, StartMessage
    <2>2. /\ place'[p] = "exiting"
          /\ outcome'[p] = [status |-> "failure", at |-> place[p], said |-> "stdout"]
      BY <1>1, <2>1, ExitStep
    <2>3. ~Advance(p)
      BY <1>1, <2>2, AdvanceStep, NextStageOf
    <2>4. AtExit(p, "cwdevices_free")
      BY <2>3 DEF InitDevices
    <2>5. /\ handlers' \in [Processes -> Seq(Handlers)]
          /\ Len(handlers'[p]) = 1 /\ handlers'[p][1] = "cwdevices_free"
          /\ \A q \in Processes \ {p} : handlers'[q] = handlers[q]
      <3>1. "cwdevices_free" \in Handlers /\ Len(handlers[p]) + 1 = 1
        BY <1>3 DEF Handlers
      <3>2. /\ handlers' \in [Processes -> Seq(Handlers)]
            /\ Len(handlers'[p]) = Len(handlers[p]) + 1
            /\ handlers'[p][Len(handlers[p]) + 1] = "cwdevices_free"
            /\ \A q \in Processes \ {p} : handlers'[q] = handlers[q]
        BY <2>4, <3>1, AtExitStep, Zenon
      <3> QED
        BY <3>1, <3>2
    <2>6. ProcessInv(p)'
      <3>1. \A i \in 1..Len(handlers'[p]) : Rank[handlers'[p][i]] = i
        BY <2>5, RankFacts
      <3>2. \A h \in Handlers : ResourceOf[h] \in held'[p] =>
              Rank[h] <= Len(handlers'[p])
        BY <1>4, <2>5
      <3>3. "output" \notin held'[p]
        BY <1>2, <1>3
      <3> QED
        BY <1>1, <2>1, <2>5, <3>1, <3>2, <3>3, ExitProcess DEF ProcessInv
    <2>7. TypeInv' /\ Alone(p)
      <3>1. ExitFrame(p)
        BY <1>1, <2>1, ExitFrameHolds
      <3> QED
        BY <1>1, <1>2, <2>5, <3>1 DEF ExitFrame, TypeInv, Alone
    <2>8. LogInv(p)'
      BY <1>1, <1>3, <2>2 DEF LogInv
    <2> QED
      BY <2>6, <2>7, <2>8 DEF Preserved
  <1> QED
    BY <1>5, <1>6 DEF InitDevices

LEMMA ArgumentPreserves ==
  ASSUME TypeInv, NEW p \in Processes, ProcessInv(p), LogInv(p), Argument(p)
  PROVE  Preserved(p) /\ (defaults'.forking => defaults.forking)
  <1>1. PICK o \in Options :
          /\ o.name \notin {"cwdevice", "help"}
          /\ IF Accepted(o)
             THEN defaults' = Applied(o) /\ UNCHANGED exitVars
             ELSE Exit(p, "failure", MessageTo(p, LOG_ERR)) /\ UNCHANGED defaults
    BY DEF Argument
  <1>2. /\ place[p] = "args" /\ place[p] \in Stages /\ "stdout" \in Said
        /\ UNCHANGED <<current, logVars, handlers, held>>
    BY DEF Argument, Stages, Said
  <1>3. CASE Accepted(o)
    <2>1. /\ defaults' = Applied(o)
          /\ UNCHANGED <<place, running, broken, outcome>>
      BY <1>1, <1>3 DEF exitVars
    <2>2. /\ "forking" \in DOMAIN defaults' /\ defaults'.forking \in BOOLEAN
          /\ defaults'.forking => defaults.forking
      BY <1>1, <2>1, AppliedForking DEF TypeInv
    <2>3. TypeInv' /\ Alone(p)
      BY <1>2, <2>1, <2>2 DEF TypeInv, Alone, logVars
    <2>4. ProcessInv(p)' /\ LogInv(p)'
      BY <1>2, <2>1
      DEF ProcessInv, HandlersInv, RunningInv, HeldInv, ServiceInv, LogInv,
          logVars
    <2> QED
      BY <2>2, <2>3, <2>4 DEF Preserved
  <1>4. CASE ~Accepted(o)
    <2>1. Exit(p, "failure", "stdout") /\ UNCHANGED defaults
      BY <1>1, <1>2, <1>4, StartMessage
    <2> QED
      BY <1>2, <2>1, ExitPreserves
  <1> QED
    BY <1>3, <1>4

LEMMA ArgDevicePreserves ==
  ASSUME TypeInv, NEW p \in Processes, ProcessInv(p), LogInv(p), ArgDevice(p)
  PROVE  Preserved(p)
  <1>1. /\ place[p] = "args" /\ place[p] \in Stages /\ "stdout" \in Said
        /\ UNCHANGED <<defaults, current, logVars, handlers>>
    BY DEF ArgDevice, Stages, Said
  <1>2. CASE Exit(p, "failure", MessageTo(p, LOG_ERR)) /\ UNCHANGED held
    BY <1>1, <1>2, StartMessage, ExitPreserves
  <1>3. CASE UNCHANGED exitVars /\ (\/ Acquire(p, "device")
                                    \/ held' = [held EXCEPT ![p] = @ \ {"device"}])
    <2>1. UNCHANGED <<place, running, broken, outcome>>
      BY <1>3 DEF exitVars
    <2>2. /\ held' \in [Processes -> SUBSET Resources]
          /\ held'[p] \in {held[p] \cup {"device"}, held[p] \ {"device"}}
          /\ \A q \in Processes \ {p} : held'[q] = held[q]
      <3>1. "device" \in Resources /\ held \in [Processes -> SUBSET Resources]
        BY DEF TypeInv, Resources
      <3>2. CASE Acquire(p, "device")
        BY <3>1, <3>2, AcquireStep
      <3>3. CASE held' = [held EXCEPT ![p] = @ \ {"device"}]
        BY <3>1, <3>3
      <3> QED
        BY <1>3, <3>2, <3>3
    <2>3. TypeInv' /\ Alone(p)
      BY <1>1, <2>1, <2>2 DEF TypeInv, Alone, logVars
    <2>4. HandlersInv(p)' /\ RunningInv(p)' /\ ServiceInv(p)' /\ LogInv(p)'
      BY <1>1, <2>1, <2>2
      DEF ProcessInv, HandlersInv, RunningInv, ServiceInv, LogInv, logVars
    <2>5. HeldInv(p)'
      <3> SUFFICES ASSUME NEW h \in Handlers, ResourceOf[h] \in held'[p]
                   PROVE  Rank[h] <= Len(handlers[p]) \/ running[p] = h
                            \/ h \in broken[p]
        BY <1>1, <2>1 DEF HeldInv
      <3>1. CASE ResourceOf[h] = "device"
        <4>1. h = "cwdevice_free"
          BY <3>1, RankFacts DEF Handlers
        <4>2. Len(handlers[p]) = 2
          BY <1>1 DEF ProcessInv, HandlersInv
        <4> QED
          BY <4>1, <4>2, RankFacts
      <3>2. CASE ResourceOf[h] # "device"
        BY <2>2, <3>2 DEF ProcessInv, HeldInv
      <3> QED
        BY <3>1, <3>2
    <2> QED
      BY <2>3, <2>4, <2>5 DEF Preserved, ProcessInv
  <1> QED
    BY <1>2, <1>3 DEF ArgDevice

\* The handler comes before the resource: of a socket, a file, a generator.
LEMMA RegisterHeld ==
  ASSUME TypeInv, NEW p \in Processes, ProcessInv(p), NEW h \in Handlers,
         AtExit(p, h), Rank[h] = Len(handlers[p]) + 1,
         held'[p] \in {held[p], held[p] \cup {ResourceOf[h]}}
  PROVE  /\ Len(handlers'[p]) = Len(handlers[p]) + 1
         /\ \A i \in 1..Len(handlers'[p]) : Rank[handlers'[p][i]] = i
         /\ \A g \in Handlers : ResourceOf[g] \in held'[p] =>
              Rank[g] <= Len(handlers'[p]) \/ running[p] = g \/ g \in broken[p]
  <1> DEFINE n == Len(handlers[p])
  <1>1. /\ Len(handlers'[p]) = n + 1 /\ n \in Nat
        /\ \A i \in 1..n : handlers'[p][i] = handlers[p][i]
        /\ handlers'[p][n + 1] = h
    BY AtExitStep DEF TypeInv
  <1>2. \A i \in 1..n : Rank[handlers[p][i]] = i
    BY DEF ProcessInv, HandlersInv
  <1>3. ASSUME NEW i \in 1..n + 1 PROVE Rank[handlers'[p][i]] = i
    BY <1>1, <1>2, <1>3, i \in 1..n \/ i = n + 1
  <1>4. ASSUME NEW g \in Handlers, ResourceOf[g] \in held'[p]
        PROVE  Rank[g] <= n + 1 \/ running[p] = g \/ g \in broken[p]
    <2>1. CASE g = h
      BY <1>1, <2>1
    <2>2. CASE g # h
      <3>1. ResourceOf[g] \in held[p]
        BY <1>4, <2>2, RankFacts
      <3>2. Rank[g] <= n \/ running[p] = g \/ g \in broken[p]
        BY <3>1 DEF ProcessInv, HeldInv
      <3> QED
        BY <1>1, <3>2, RankFacts
    <2> QED
      BY <2>1, <2>2
  <1> QED
    BY <1>1, <1>3, <1>4

LEMMA RegisterExit ==
  ASSUME TypeInv, NEW p \in Processes, ProcessInv(p), place[p] \in Stages,
         NEW h \in Handlers, AtExit(p, h), Rank[h] = Len(handlers[p]) + 1,
         held'[p] \in {held[p], held[p] \cup {ResourceOf[h]}},
         h = "close_libcw" => "socket" \in held[p],
         NEW status \in {"success", "failure"}, NEW said \in Said,
         Exit(p, status, said)
  PROVE  ProcessInv(p)'
  <1>1. /\ \A i \in 1..Len(handlers'[p]) : Rank[handlers'[p][i]] = i
        /\ \A g \in Handlers : ResourceOf[g] \in held'[p] =>
             Rank[g] <= Len(handlers'[p]) \/ running[p] = g \/ g \in broken[p]
    BY RegisterHeld
  <1>2. handlers' \in [Processes -> Seq(Handlers)]
    BY AtExitStep
  <1>3. "output" \in held'[p] /\ "close_libcw" \notin broken[p]
          => "socket" \in held'[p]
    <2>1. "output" \in held'[p] => "output" \in held[p] \/ h = "close_libcw"
      BY RankFacts DEF Handlers
    <2> QED
      BY <2>1 DEF ProcessInv, ServiceInv
  <1> QED
    BY <1>1, <1>2, <1>3, ExitProcess DEF ProcessInv

LEMMA DebugOpenPreserves ==
  ASSUME TypeInv, NEW p \in Processes, ProcessInv(p), LogInv(p), DebugOpen(p)
  PROVE  /\ Preserved(p)
         /\ place'[p] = "exiting" \/ place'[p] = NextStage("debug")
         /\ defaults.forking /\ place'[p] # "exiting"
              => debug_f'[p] \in {"file", "null"}
         /\ debug_f'[p] \in Logs
  <1>1. /\ place[p] = "debug" /\ place[p] \in Stages
        /\ "debug_close" \in Handlers /\ AtExit(p, "debug_close")
        /\ UNCHANGED <<defaults, current>>
    <2>1. place[p] = "debug" /\ AtExit(p, "debug_close")
      BY Zenon DEF DebugOpen
    <2>2. UNCHANGED <<argVars, current, level, sigint>>
      BY Zenon DEF DebugOpen
    <2> QED
      BY <2>1, <2>2 DEF Stages, Handlers, argVars
  <1>2. /\ Len(handlers[p]) = 2 /\ running[p] = None /\ broken[p] = {}
        /\ held[p] \cap {"socket", "output"} = {}
        /\ Rank["debug_close"] = Len(handlers[p]) + 1
        /\ ResourceOf["debug_close"] = "file" /\ "file" \in Resources
        /\ debug_f[p] \in Logs
    <2>1. Len(handlers[p]) = 2 /\ running[p] = None /\ broken[p] = {}
      BY <1>1 DEF ProcessInv, HandlersInv, RunningInv
    <2>2. held[p] \cap {"socket", "output"} = {}
      BY <1>1 DEF ProcessInv, ServiceInv
    <2> QED
      BY <2>1, <2>2, RankFacts DEF TypeInv, Resources
  <1>3. /\ handlers' \in [Processes -> Seq(Handlers)]
        /\ Len(handlers'[p]) = 3
        /\ \A q \in Processes \ {p} : handlers'[q] = handlers[q]
    <2>1. Len(handlers[p]) + 1 = 3
      BY <1>2
    <2> QED
      BY <1>1, <2>1, AtExitStep
  <1>0. None \notin {"stdout", "stderr"}
    BY NoneAssumption
  <1>4. \/ /\ Exit(p, "failure", "stdout") /\ UNCHANGED <<debug_f, held>>
        \/ /\ Exit(p, "failure", "stderr") /\ held' = held
           /\ debug_f' = [debug_f EXCEPT ![p] = "null"]
        \/ /\ Advance(p)
           /\ \E f \in Logs :
                /\ debug_f' = [debug_f EXCEPT ![p] = f]
                /\ defaults.forking => f \in {"file", "null"}
                /\ IF f = "file" THEN Acquire(p, "file") ELSE held' = held
    <2>1. CASE defaults.forking /\ defaults.path \in {"stdout", "stderr"}
      <3>1. Exit(p, "failure", "stdout") /\ UNCHANGED <<debug_f, held>>
        BY <2>1, <1>0, Zenon DEF DebugOpen
      <3> QED
        BY <3>1
    <2>2. CASE ~defaults.forking /\ defaults.path \in {"stdout", "stderr"}
      <3>1. /\ debug_f' = [debug_f EXCEPT ![p] = defaults.path]
            /\ Advance(p) /\ held' = held
        BY <2>2, <1>0, Zenon DEF DebugOpen
      <3>2. defaults.path \in Logs /\ defaults.path # "file"
        BY <2>2 DEF Logs
      <3> QED
        BY <2>2, <3>1, <3>2
    <2>3. CASE defaults.path \notin {"stdout", "stderr"}
               /\ defaults.path = None
      <3>1. /\ debug_f' = [debug_f EXCEPT ![p] =
                             IF defaults.forking THEN "null" ELSE "stdout"]
            /\ Advance(p) /\ held' = held
        BY <2>3, Zenon DEF DebugOpen
      <3> QED
        BY <3>1, "null" \in Logs, "stdout" \in Logs DEF Logs
    <2>4. CASE defaults.path \notin {"stdout", "stderr"}
               /\ defaults.path # None
      <3>1. OpenFile(p)
        BY <2>4, Zenon DEF DebugOpen
      <3> QED
        BY <3>1, "file" \in Logs DEF OpenFile, Logs
    <2> QED
      BY <2>1, <2>2, <2>3, <2>4
  <1>5. CASE /\ Exit(p, "failure", "stdout") /\ UNCHANGED <<debug_f, held>>
    <2>1. "stdout" \in Said /\ held'[p] = held[p]
      BY <1>5 DEF Said
    <2>2. ProcessInv(p)'
      BY <1>1, <1>2, <1>5, <2>1, RegisterExit
    <2>3. /\ place'[p] = "exiting"
          /\ outcome'[p] = [status |-> "failure", at |-> place[p], said |-> "stdout"]
      BY <1>1, <1>5, <2>1, ExitStep
    <2>4. LogInv(p)'
      BY <1>5, <2>3 DEF LogInv
    <2>5. TypeInv' /\ Alone(p)
      <3>1. ExitFrame(p)
        BY <1>1, <1>5, <2>1, ExitFrameHolds
      <3> QED
        BY <1>1, <1>3, <1>5, <3>1 DEF ExitFrame, TypeInv, Alone
    <2> QED
      BY <1>2, <1>5, <2>2, <2>3, <2>4, <2>5 DEF Preserved
  <1>6. CASE /\ Exit(p, "failure", "stderr") /\ held' = held
             /\ debug_f' = [debug_f EXCEPT ![p] = "null"]
    <2>1. "stderr" \in Said /\ held'[p] = held[p] /\ "null" \in Logs
      BY <1>6 DEF Said, Logs
    <2>2. ProcessInv(p)'
      BY <1>1, <1>2, <1>6, <2>1, RegisterExit
    <2>3. /\ place'[p] = "exiting"
          /\ outcome'[p] = [status |-> "failure", at |-> place[p], said |-> "stderr"]
      BY <1>1, <1>6, <2>1, ExitStep
    <2>4. /\ debug_f' \in [Processes -> Logs] /\ debug_f'[p] = "null"
          /\ \A q \in Processes \ {p} : debug_f'[q] = debug_f[q]
      BY <1>6, <2>1 DEF TypeInv
    <2>5. LogInv(p)'
      BY <1>6, <2>3, <2>4 DEF LogInv
    <2>6. TypeInv' /\ Alone(p)
      <3>1. ExitFrame(p)
        BY <1>1, <1>6, <2>1, ExitFrameHolds
      <3> QED
        BY <1>1, <1>3, <1>6, <2>4, <3>1 DEF ExitFrame, TypeInv, Alone
    <2> QED
      BY <2>1, <2>2, <2>3, <2>4, <2>5, <2>6 DEF Preserved
  <1>7. ASSUME Advance(p), NEW f \in Logs,
               debug_f' = [debug_f EXCEPT ![p] = f],
               defaults.forking => f \in {"file", "null"},
               IF f = "file" THEN Acquire(p, "file") ELSE held' = held
        PROVE  /\ Preserved(p) /\ place'[p] = NextStage("debug")
               /\ defaults.forking => debug_f'[p] \in {"file", "null"}
               /\ debug_f'[p] \in Logs
    <2>1. /\ place' \in [Processes -> Stages \cup {"none"}]
          /\ place'[p] = NextStage("debug")
          /\ \A q \in Processes \ {p} : place'[q] = place[q]
          /\ running' = running /\ broken' = broken /\ outcome' = outcome
      BY <1>1, <1>7, AdvanceStep
    <2>2. place'[p] \in {"fork", "foreground"}
      BY <2>1, NextStageOf
    <2>3. /\ held' \in [Processes -> SUBSET Resources]
          /\ held'[p] \in {held[p], held[p] \cup {"file"}}
          /\ f = "file" => "file" \in held'[p]
          /\ \A q \in Processes \ {p} : held'[q] = held[q]
      BY <1>2, <1>7, AcquireStep DEF TypeInv
    <2>4. /\ debug_f' \in [Processes -> Logs] /\ debug_f'[p] = f
          /\ \A q \in Processes \ {p} : debug_f'[q] = debug_f[q]
      BY <1>7 DEF TypeInv
    <2>5. /\ \A i \in 1..Len(handlers'[p]) : Rank[handlers'[p][i]] = i
          /\ \A g \in Handlers : ResourceOf[g] \in held'[p] =>
               Rank[g] <= Len(handlers'[p]) \/ running[p] = g \/ g \in broken[p]
      BY <1>1, <1>2, <2>3, RegisterHeld
    <2>6. HandlersInv(p)' /\ HeldInv(p)'
      BY <1>3, <2>1, <2>2, <2>5 DEF HandlersInv, HeldInv
    <2>7. RunningInv(p)' /\ ServiceInv(p)' /\ LogInv(p)'
      <3>1. RunningInv(p)' /\ ServiceInv(p)'
        BY <1>2, <2>1, <2>2, <2>3 DEF RunningInv, ServiceInv
      <3>2. LogInv(p)'
        BY <2>1, <2>2, <2>3, <2>4 DEF LogInv
      <3> QED
        BY <3>1, <3>2
    <2>8. TypeInv' /\ Alone(p)
      BY <1>1, <1>3, <2>1, <2>3, <2>4 DEF TypeInv, Alone
    <2> QED
      BY <1>7, <2>1, <2>4, <2>6, <2>7, <2>8 DEF Preserved, ProcessInv
  <1> QED
    BY <1>4, <1>5, <1>6, <1>7

LEMMA CreateSocketPreserves ==
  ASSUME TypeInv, NEW p \in Processes, ProcessInv(p), LogInv(p), CreateSocket(p)
  PROVE  /\ Preserved(p) /\ place'[p] \in {"exiting", "bind"}
         /\ "output" \notin held'[p]
  <1>1. /\ place[p] = "socket" /\ place[p] \in Stages
        /\ "close_socket" \in Handlers /\ AtExit(p, "close_socket")
        /\ UNCHANGED <<defaults, current, debug_f>>
    BY DEF CreateSocket, Stages, Handlers, argVars, logVars
  <1>2. /\ Len(handlers[p]) = 3 /\ running[p] = None /\ broken[p] = {}
        /\ held[p] \cap {"socket", "output"} = {}
    BY <1>1 DEF ProcessInv, HandlersInv, RunningInv, ServiceInv
  <1>3. /\ Len(handlers[p]) + 1 = 4
        /\ Rank["close_socket"] = Len(handlers[p]) + 1
        /\ ResourceOf["close_socket"] = "socket" /\ "socket" \in Resources
    BY <1>2, RankFacts DEF Resources
  <1>4. /\ handlers' \in [Processes -> Seq(Handlers)]
        /\ Len(handlers'[p]) = 4
        /\ \A q \in Processes \ {p} : handlers'[q] = handlers[q]
    BY <1>1, <1>3, AtExitStep
  <1>5. ErrmsgTo(p) \in Said /\ ErrmsgTo(p) # "nowhere"
    BY MessagePlace DEF Said
  <1>6. CASE Exit(p, "failure", ErrmsgTo(p)) /\ UNCHANGED held
    <2>1. ProcessInv(p)'
      BY <1>1, <1>3, <1>5, <1>6, RegisterExit
    <2>2. /\ place'[p] = "exiting"
          /\ outcome'[p] = [status |-> "failure", at |-> place[p],
                            said |-> ErrmsgTo(p)]
      BY <1>1, <1>5, <1>6, ExitStep
    <2>3. outcome'[p].said # "nowhere"
      BY <1>5, <2>2
    <2>4. LogInv(p)'
      BY <1>1, <1>6, <2>2, <2>3 DEF LogInv
    <2>5. TypeInv' /\ Alone(p)
      <3>1. ExitFrame(p)
        BY <1>1, <1>5, <1>6, ExitFrameHolds
      <3> QED
        BY <1>1, <1>4, <1>6, <3>1 DEF ExitFrame, TypeInv, Alone
    <2> QED
      BY <1>2, <1>6, <2>1, <2>2, <2>4, <2>5 DEF Preserved
  <1>7. CASE Acquire(p, "socket") /\ Advance(p)
    <2>1. /\ place' \in [Processes -> Stages \cup {"none"}] /\ place'[p] = "bind"
          /\ \A q \in Processes \ {p} : place'[q] = place[q]
          /\ running' = running /\ broken' = broken /\ outcome' = outcome
      BY <1>1, <1>7, AdvanceStep, NextStageOf
    <2>2. /\ held' \in [Processes -> SUBSET Resources]
          /\ held'[p] = held[p] \cup {"socket"}
          /\ \A q \in Processes \ {p} : held'[q] = held[q]
      BY <1>3, <1>7, AcquireStep
    <2>3. /\ \A i \in 1..Len(handlers'[p]) : Rank[handlers'[p][i]] = i
          /\ \A g \in Handlers : ResourceOf[g] \in held'[p] =>
               Rank[g] <= Len(handlers'[p]) \/ running[p] = g \/ g \in broken[p]
      BY <1>1, <1>3, <2>2, RegisterHeld
    <2>4. HandlersInv(p)' /\ HeldInv(p)'
      BY <1>4, <2>1, <2>3 DEF HandlersInv, HeldInv
    <2>5. RunningInv(p)' /\ ServiceInv(p)'
      BY <1>2, <2>1, <2>2 DEF RunningInv, ServiceInv
    <2>6. LogInv(p)'
      BY <1>1, <2>1, <2>2 DEF LogInv
    <2>7. TypeInv' /\ Alone(p)
      BY <1>1, <1>4, <2>1, <2>2 DEF TypeInv, Alone
    <2> QED
      BY <1>2, <2>1, <2>2, <2>4, <2>5, <2>6, <2>7 DEF Preserved, ProcessInv
  <1> QED
    BY <1>6, <1>7 DEF CreateSocket

LEMMA ResetAlmostAllPreserves ==
  ASSUME TypeInv, NEW p \in Processes, ProcessInv(p), LogInv(p),
         ResetAlmostAll(p)
  PROVE  Preserved(p) /\ place'[p] \in {"exiting", "callback"}
  <1>1. /\ place[p] = "output" /\ place[p] \in Stages
        /\ "close_libcw" \in Handlers /\ AtExit(p, "close_libcw")
        /\ UNCHANGED <<defaults, debug_f>>
        /\ current' = [current EXCEPT ![p] = Copied(defaults)]
    BY DEF ResetAlmostAll, Stages, Handlers, argVars, logVars
  <1>2. /\ DOMAIN current' = Processes
        /\ \A q \in Processes \ {p} : current'[q] = current[q]
    BY <1>1 DEF TypeInv
  <1>3. /\ Len(handlers[p]) = 4 /\ running[p] = None /\ broken[p] = {}
        /\ "socket" \in held[p]
    BY <1>1 DEF ProcessInv, HandlersInv, RunningInv, ServiceInv
  <1>4. /\ Len(handlers[p]) + 1 = 5
        /\ Rank["close_libcw"] = Len(handlers[p]) + 1
        /\ ResourceOf["close_libcw"] = "output" /\ "output" \in Resources
    BY <1>3, RankFacts DEF Resources
  <1>5. /\ handlers' \in [Processes -> Seq(Handlers)]
        /\ Len(handlers'[p]) = 5
        /\ \A q \in Processes \ {p} : handlers'[q] = handlers[q]
    BY <1>1, <1>4, AtExitStep
  <1>6. \A x : DebugTo(p, x, defaults.threshold) \in Said
    BY MessagePlace
  <1>7. ASSUME NEW x, Exit(p, "failure", DebugTo(p, x, defaults.threshold)),
               held' = held \/ Acquire(p, "output")
        PROVE  Preserved(p) /\ place'[p] = "exiting"
    <2>1. /\ held' \in [Processes -> SUBSET Resources]
          /\ held'[p] \in {held[p], held[p] \cup {"output"}}
          /\ \A q \in Processes \ {p} : held'[q] = held[q]
      BY <1>4, <1>7, AcquireStep DEF TypeInv
    <2>2. ProcessInv(p)'
      BY <1>1, <1>3, <1>4, <1>6, <1>7, <2>1, RegisterExit
    <2>3. /\ place'[p] = "exiting"
          /\ outcome'[p] = [status |-> "failure", at |-> place[p],
                            said |-> DebugTo(p, x, defaults.threshold)]
      BY <1>1, <1>6, <1>7, ExitStep
    <2>4. outcome'[p].at = "output"
      BY <1>1, <2>3
    <2>5. LogInv(p)'
      BY <1>1, <2>1, <2>3, <2>4 DEF LogInv
    <2>6. TypeInv' /\ Alone(p)
      <3>1. ExitFrame(p)
        BY <1>1, <1>6, <1>7, ExitFrameHolds
      <3> QED
        BY <1>1, <1>2, <1>5, <2>1, <3>1 DEF ExitFrame, TypeInv, Alone
    <2> QED
      BY <2>2, <2>3, <2>5, <2>6 DEF Preserved
  <1>8. CASE Acquire(p, "output") /\ Advance(p)
    <2>1. /\ place' \in [Processes -> Stages \cup {"none"}]
          /\ place'[p] = "callback"
          /\ \A q \in Processes \ {p} : place'[q] = place[q]
          /\ running' = running /\ broken' = broken /\ outcome' = outcome
      BY <1>1, <1>8, AdvanceStep, NextStageOf
    <2>2. /\ held' \in [Processes -> SUBSET Resources]
          /\ held'[p] = held[p] \cup {"output"}
          /\ \A q \in Processes \ {p} : held'[q] = held[q]
      BY <1>4, <1>8, AcquireStep
    <2>3. /\ \A i \in 1..Len(handlers'[p]) : Rank[handlers'[p][i]] = i
          /\ \A g \in Handlers : ResourceOf[g] \in held'[p] =>
               Rank[g] <= Len(handlers'[p]) \/ running[p] = g \/ g \in broken[p]
      BY <1>1, <1>4, <2>2, RegisterHeld
    <2>4. HandlersInv(p)' /\ HeldInv(p)'
      BY <1>5, <2>1, <2>3 DEF HandlersInv, HeldInv
    <2>5. RunningInv(p)' /\ ServiceInv(p)'
      BY <1>3, <2>1, <2>2 DEF RunningInv, ServiceInv
    <2>6. LogInv(p)'
      BY <1>1, <2>1, <2>2 DEF LogInv
    <2>7. TypeInv' /\ Alone(p)
      BY <1>1, <1>2, <1>5, <2>1, <2>2 DEF TypeInv, Alone
    <2> QED
      BY <2>1, <2>4, <2>5, <2>6, <2>7 DEF Preserved, ProcessInv
  <1> QED
    BY <1>7, <1>8 DEF ResetAlmostAll

LEMMA EnterLoopPreserves ==
  ASSUME TypeInv, NEW p \in Processes, ProcessInv(p), LogInv(p), EnterLoop(p)
  PROVE  Preserved(p) /\ place'[p] = "loop"
  <1>1. /\ place[p] = "callback" /\ Advance(p)
        /\ UNCHANGED <<defaults, current, debug_f, handlers, held>>
    BY DEF EnterLoop, argVars
  <1>2. /\ place' \in [Processes -> Stages \cup {"none"}] /\ place'[p] = "loop"
        /\ \A q \in Processes \ {p} : place'[q] = place[q]
        /\ running' = running /\ broken' = broken /\ outcome' = outcome
    BY <1>1, AdvanceStep, NextStageOf
  <1>3. HandlersInv(p)' /\ RunningInv(p)' /\ HeldInv(p)' /\ ServiceInv(p)'
    <2>1. HandlersInv(p)'
      BY <1>1, <1>2 DEF ProcessInv, HandlersInv
    <2>2. RunningInv(p)' /\ HeldInv(p)'
      BY <1>1, <1>2 DEF ProcessInv, RunningInv, HeldInv
    <2>3. ServiceInv(p)'
      BY <1>1, <1>2 DEF ProcessInv, ServiceInv
    <2> QED
      BY <2>1, <2>2, <2>3
  <1>4. TypeInv' /\ Alone(p) /\ LogInv(p)'
    BY <1>1, <1>2 DEF TypeInv, Alone, LogInv
  <1> QED
    BY <1>2, <1>3, <1>4 DEF Preserved, ProcessInv

-----------------------------------------------------------------------------
LEMMA BeginHandlerPreserves ==
  ASSUME TypeInv, NEW p \in Processes, ProcessInv(p), LogInv(p),
         BeginHandler(p)
  PROVE  Preserved(p) /\ place' = place /\ held' = held
  <1> DEFINE n == Len(handlers[p])
             s == SubSeq(handlers[p], 1, n - 1)
  <1>1. /\ place[p] = "exiting" /\ running[p] = None /\ n # 0 /\ n \in Nat
        /\ handlers[p] \in Seq(Handlers)
        /\ UNCHANGED <<defaults, current, debug_f, held, place, broken, outcome>>
    BY DEF BeginHandler, TypeInv, argVars, logVars
  <1>2. handlers[p][n] \in Handlers
    BY <1>1
  <1>3. /\ running' \in [Processes -> Handlers \cup {None}]
        /\ running'[p] = handlers[p][n]
        /\ \A q \in Processes \ {p} : running'[q] = running[q]
    BY <1>2 DEF BeginHandler, TypeInv
  <1>4. /\ s \in Seq(Handlers) /\ Len(s) = n - 1
        /\ \A i \in 1..n - 1 : s[i] = handlers[p][i]
    BY <1>1
  <1>5. /\ handlers' \in [Processes -> Seq(Handlers)] /\ handlers'[p] = s
        /\ \A q \in Processes \ {p} : handlers'[q] = handlers[q]
    BY <1>4 DEF BeginHandler, TypeInv
  <1>6. \A i \in 1..n : Rank[handlers[p][i]] = i
    BY DEF ProcessInv, HandlersInv
  <1>7. HandlersInv(p)'
    <2>1. \A i \in 1..Len(handlers'[p]) : Rank[handlers'[p][i]] = i
      <3> SUFFICES ASSUME NEW i \in 1..n - 1
                   PROVE  handlers'[p][i] = handlers[p][i] /\ i \in 1..n
        BY <1>4, <1>5, <1>6
      <3> QED
        BY <1>1, <1>4, <1>5
    <2> QED
      BY <1>1, <2>1 DEF HandlersInv
  <1>8. Len(handlers'[p]) = n - 1 /\ Rank[running'[p]] = n
    BY <1>1, <1>3, <1>4, <1>5, <1>6
  <1>9. RunningInv(p)'
    BY <1>1, <1>8 DEF ProcessInv, RunningInv
  <1>10. HeldInv(p)'
    <2> SUFFICES ASSUME NEW h \in Handlers, ResourceOf[h] \in held[p]
                 PROVE  Rank[h] <= n - 1 \/ running'[p] = h \/ h \in broken[p]
      BY <1>1, <1>8 DEF HeldInv
    <2>1. Rank[h] <= n \/ h \in broken[p]
      BY <1>1, NoneAssumption, HandlersDomain DEF ProcessInv, HeldInv
    <2>2. Rank[h] \in 1..5
      BY RankFacts
    <2>3. Rank[h] = n => running'[p] = h
      BY <1>2, <1>3, <1>8, RankFacts
    <2> QED
      BY <1>1, <2>1, <2>2, <2>3
  <1>11. ServiceInv(p)' /\ LogInv(p)'
    BY <1>1 DEF ProcessInv, ServiceInv, LogInv
  <1>12. TypeInv' /\ Alone(p)
    BY <1>1, <1>3, <1>5 DEF TypeInv, Alone
  <1> QED
    BY <1>1, <1>7, <1>9, <1>10, <1>11, <1>12 DEF Preserved, ProcessInv

LEMMA EndHandlerPreserves ==
  ASSUME TypeInv, NEW p \in Processes, ProcessInv(p), LogInv(p), EndHandler(p)
  PROVE  /\ Preserved(p) /\ place' = place /\ held'[p] \subseteq held[p]
         /\ debug_f'[p] \in {debug_f[p], "null"}
  <1> DEFINE r == running[p]
  <1>1. /\ r # None /\ r \in Handlers /\ place[p] = "exiting"
        /\ UNCHANGED <<defaults, current, handlers, place, broken, outcome>>
    BY DEF EndHandler, TypeInv, argVars, ProcessInv, RunningInv
  <1>2. /\ held' \in [Processes -> SUBSET Resources]
        /\ held'[p] = held[p] \ {ResourceOf[r]}
        /\ \A q \in Processes \ {p} : held'[q] = held[q]
    BY DEF EndHandler, TypeInv
  <1>3. /\ debug_f' \in [Processes -> Logs]
        /\ debug_f'[p] = IF r = "debug_close" /\ debug_f[p] = "file"
                         THEN "null" ELSE debug_f[p]
        /\ \A q \in Processes \ {p} : debug_f'[q] = debug_f[q]
    BY "null" \in Logs DEF EndHandler, TypeInv, Logs
  <1>4. /\ running' \in [Processes -> Handlers \cup {None}]
        /\ running'[p] = None
        /\ \A q \in Processes \ {p} : running'[q] = running[q]
    BY DEF EndHandler, TypeInv
  <1>5. HandlersInv(p)' /\ RunningInv(p)'
    BY <1>1, <1>4 DEF ProcessInv, HandlersInv, RunningInv
  <1>6. HeldInv(p)'
    <2> SUFFICES ASSUME NEW h \in Handlers, ResourceOf[h] \in held'[p]
                 PROVE  Rank[h] <= Len(handlers[p]) \/ h \in broken[p]
      BY <1>1 DEF HeldInv
    <2>1. ResourceOf[h] \in held[p] /\ h # r
      BY <1>2
    <2> QED
      BY <2>1 DEF ProcessInv, HeldInv
  <1>7. ServiceInv(p)'
    <2>1. ASSUME r = "close_socket", "output" \in held[p],
                 "close_libcw" \notin broken[p]
          PROVE  FALSE
      <3>1. Len(handlers[p]) < 4 /\ Len(handlers[p]) \in Nat
        BY <1>1, <2>1, RankFacts DEF ProcessInv, RunningInv, TypeInv
      <3>2. "close_libcw" \in Handlers /\ ResourceOf["close_libcw"] = "output"
            /\ Rank["close_libcw"] = 5
        BY RankFacts DEF Handlers
      <3>3. 5 <= Len(handlers[p]) \/ running[p] = "close_libcw"
              \/ "close_libcw" \in broken[p]
        BY <2>1, <3>2 DEF ProcessInv, HeldInv
      <3> QED
        BY <2>1, <3>1, <3>3
    <2>2. ResourceOf[r] = "socket" => r = "close_socket"
      BY <1>1, RankFacts DEF Handlers
    <2> QED
      BY <1>1, <1>2, <2>1, <2>2 DEF ProcessInv, ServiceInv
  <1>8. LogInv(p)'
    <2>1. ResourceOf[r] = "file" => r = "debug_close"
      BY <1>1, RankFacts DEF Handlers
    <2> QED
      BY <1>1, <1>2, <1>3, <2>1 DEF LogInv
  <1>9. TypeInv' /\ Alone(p)
    BY <1>1, <1>2, <1>3, <1>4 DEF TypeInv, Alone
  <1> QED
    BY <1>1, <1>2, <1>3, <1>5, <1>6, <1>7, <1>8, <1>9 DEF Preserved, ProcessInv

LEMMA GonePreserves ==
  ASSUME TypeInv, NEW p \in Processes, ProcessInv(p), LogInv(p), Gone(p)
  PROVE  Preserved(p) /\ place'[p] = "gone"
  <1>1. /\ place[p] = "exiting" /\ running[p] = None /\ Len(handlers[p]) = 0
        /\ UNCHANGED <<defaults, current, debug_f, handlers, held, running,
                       broken, outcome>>
    BY DEF Gone, argVars, logVars
  <1>2. /\ place' \in [Processes -> Stages \cup {"none"}] /\ place'[p] = "gone"
        /\ \A q \in Processes \ {p} : place'[q] = place[q]
    BY DEF Gone, TypeInv, Stages
  <1>3. HandlersInv(p)'
    BY <1>1, <1>2 DEF ProcessInv, HandlersInv
  <1>4. RunningInv(p)' /\ HeldInv(p)'
    BY <1>1, <1>2 DEF ProcessInv, RunningInv, HeldInv
  <1>5. ServiceInv(p)' /\ LogInv(p)'
    BY <1>1, <1>2 DEF ProcessInv, ServiceInv, LogInv
  <1>6. TypeInv' /\ Alone(p)
    BY <1>1, <1>2 DEF TypeInv, Alone
  <1> QED
    BY <1>2, <1>3, <1>4, <1>5, <1>6 DEF Preserved, ProcessInv

-----------------------------------------------------------------------------
(***************************************************************************)
(* What the invariants about both processes need to know of a step of one. *)
(***************************************************************************)
Progress(p) ==
  /\ \/ UNCHANGED defaults
     \/ /\ place[p] = "args" /\ place'[p] \in {"args", "exiting"}
        /\ defaults'.forking => defaults.forking
  /\ \/ place'[p] = place[p]
     \/ place'[p] \in {"exiting", "gone"} /\ place[p] # "none"
     \/ place'[p] = NextStage(place[p])
          /\ place[p] \in {"devices", "args", "debug", "foreground", "detach"}
     \/ place[p] \in Served /\ place'[p] \in Served
  /\ held'[p] \cap {"socket", "output"} \subseteq held[p] \/ place[p] \in Served
  /\ \/ debug_f'[p] \in {debug_f[p], "null"} /\ place'[p] # "fork"
     \/ /\ place[p] = "debug"
        /\ place'[p] = "fork" => debug_f'[p] \in {"file", "null"}

LEMMA SomeStage ==
  ASSUME NEW p \in Processes, TypeInv, place[p] # "none"
  PROVE  place[p] \in Stages
  BY DEF TypeInv

LEMMA ExitProgress ==
  ASSUME TypeInv, NEW p \in Processes, place[p] # "none",
         NEW status, NEW said, Exit(p, status, said),
         UNCHANGED <<defaults, logVars, held>>
  PROVE  Progress(p)
  <1>1. place'[p] = "exiting"
    BY DEF Exit, TypeInv
  <1> QED
    BY <1>1 DEF Progress, logVars

LEMMA AdvanceProgress ==
  ASSUME TypeInv, NEW p \in Processes, Advance(p),
         UNCHANGED <<defaults, debug_f>>,
         \/ /\ place[p] \in {"devices", "args", "foreground", "detach"}
            /\ held'[p] \cap {"socket", "output"} \subseteq held[p]
         \/ place[p] \in Served \ {"loop"}
  PROVE  Progress(p)
  <1>1. place'[p] = NextStage(place[p])
    BY AdvanceStep DEF Served
  <1>2. CASE place[p] \in {"devices", "args", "foreground", "detach"}
    <2>1. place'[p] # "fork"
      BY <1>1, <1>2, NextStageOf
    <2>2. held'[p] \cap {"socket", "output"} \subseteq held[p]
      BY <1>2 DEF Served
    <2> QED
      BY <1>1, <1>2, <2>1, <2>2 DEF Progress
  <1>3. CASE place[p] \in Served \ {"loop"}
    <2>1. place'[p] \in Served /\ place'[p] # "fork"
      BY <1>1, <1>3, NextStageOf DEF Served
    <2> QED
      BY <1>3, <2>1 DEF Progress
  <1> QED
    BY <1>2, <1>3

LEMMA ArgumentsStep ==
  ASSUME TypeInv, NEW p \in Processes, ProcessInv(p), LogInv(p), Arguments(p)
  PROVE  Preserved(p) /\ Progress(p)
  <1>1. CASE Argument(p)
    <2>1. Preserved(p) /\ (defaults'.forking => defaults.forking)
      BY <1>1, ArgumentPreserves
    <2>2. /\ place[p] = "args" /\ held' = held /\ debug_f' = debug_f
          /\ place' = place \/ Exit(p, "failure", MessageTo(p, LOG_ERR))
      BY <1>1 DEF Argument, logVars, exitVars
    <2>3. place'[p] \in {"args", "exiting"}
      BY <2>2 DEF Exit, TypeInv
    <2> QED
      BY <2>1, <2>2, <2>3 DEF Progress
  <1>2. CASE Help(p)
    <2>1. /\ place[p] = "args" /\ Exit(p, "success", "stdout")
          /\ UNCHANGED <<defaults, current, logVars, handlers, held>>
      BY <1>2 DEF Help
    <2>2. "stdout" \in Said /\ place[p] \in Stages
      BY <2>1 DEF Said, Stages
    <2> QED
      BY <2>1, <2>2, ExitPreserves, ExitProgress
  <1>3. CASE ArgDevice(p)
    <2>1. /\ place[p] = "args" /\ UNCHANGED <<defaults, debug_f>>
          /\ place' = place \/ Exit(p, "failure", MessageTo(p, LOG_ERR))
          /\ held'[p] \cap {"socket", "output"} \subseteq held[p]
      BY <1>3 DEF ArgDevice, logVars, exitVars, Acquire, TypeInv
    <2>2. place'[p] \in {"args", "exiting"}
      BY <2>1 DEF Exit, TypeInv
    <2> QED
      BY <1>3, <2>1, <2>2, ArgDevicePreserves DEF Progress
  <1>4. CASE ArgsEnd(p)
    <2>1. /\ place[p] = "args" /\ place[p] \in Stages /\ "stdout" \in Said
          /\ UNCHANGED <<defaults, current, logVars, handlers, held>>
      BY <1>4 DEF ArgsEnd, argVars, Stages, Said
    <2>2. CASE Advance(p)
      BY <2>1, <2>2, AdvancePreserves, AdvanceProgress DEF logVars
    <2>3. CASE Exit(p, "failure", MessageTo(p, LOG_ERR))
      BY <2>1, <2>3, StartMessage, ExitPreserves, ExitProgress
    <2> QED
      BY <1>4, <2>2, <2>3 DEF ArgsEnd
  <1> QED
    BY <1>1, <1>2, <1>3, <1>4 DEF Arguments

LEMMA StartStep ==
  ASSUME TypeInv, NEW p \in Processes, ProcessInv(p), LogInv(p), Start(p)
  PROVE  Preserved(p) /\ Progress(p)
  <1>0. ErrmsgTo(p) \in Said /\ ErrmsgTo(p) # "nowhere" /\ "syslog" \in Said
    BY MessagePlace DEF Said
  <1>1. CASE InitDevices(p)
    <2>1. /\ place[p] = "devices" /\ UNCHANGED <<defaults, debug_f>>
          /\ held'[p] \cap {"socket", "output"} \subseteq held[p]
          /\ Advance(p) \/ Exit(p, "failure", MessageTo(p, LOG_ERR))
      BY <1>1 DEF InitDevices, argVars, logVars, Acquire, TypeInv
    <2>2. CASE Advance(p)
      BY <1>1, <2>1, <2>2, InitDevicesPreserves, AdvanceProgress
    <2>3. CASE Exit(p, "failure", MessageTo(p, LOG_ERR))
      <3>1. place'[p] = "exiting"
        BY <2>3 DEF Exit, TypeInv
      <3> QED
        BY <1>1, <2>1, <3>1, InitDevicesPreserves DEF Progress
    <2> QED
      BY <2>1, <2>2, <2>3
  <1>2. CASE Arguments(p)
    BY <1>2, ArgumentsStep
  <1>3. CASE DebugOpen(p)
    <2>1. place[p] = "debug" /\ UNCHANGED argVars
      BY <1>3, Zenon DEF DebugOpen
    <2>2. held'[p] \cap {"socket", "output"} \subseteq held[p]
      <3>1. Preserved(p) /\ (place'[p] = "exiting" \/ place'[p] = NextStage("debug"))
        BY <1>3, DebugOpenPreserves
      <3>2. held' = held \/ Acquire(p, "file")
        BY <1>3, Zenon DEF DebugOpen, OpenFile
      <3> QED
        BY <3>2 DEF Acquire, TypeInv
    <2>3. NextStage("debug") = "fork" => defaults.forking
      BY NextStageOf
    <2> QED
      BY <1>3, <2>1, <2>2, <2>3, DebugOpenPreserves DEF Progress, argVars
  <1>4. CASE Foreground(p)
    <2>1. /\ place[p] = "foreground" /\ Advance(p)
          /\ UNCHANGED <<defaults, current, logVars, handlers, held>>
      BY <1>4 DEF Foreground, argVars
    <2> QED
      BY <2>1, AdvancePreserves, AdvanceProgress DEF logVars
  <1>5. CASE Detach(p) \/ BindSocket(p) \/ SetPriority(p)
    <2>1. /\ place[p] \in {"detach", "bind", "priority"}
          /\ place[p] \in Stages
          /\ UNCHANGED <<defaults, current, logVars, handlers, held>>
          /\ \/ Advance(p) \/ Exit(p, "failure", "syslog")
             \/ Exit(p, "failure", ErrmsgTo(p))
      BY <1>5 DEF Detach, BindSocket, SetPriority, argVars, Stages
    <2>2. CASE Advance(p)
      BY <2>1, <2>2, AdvancePreserves, AdvanceProgress DEF logVars, Served
    <2>3. CASE Exit(p, "failure", "syslog")
      BY <1>0, <2>1, <2>3, ExitPreserves, ExitProgress
    <2>4. CASE Exit(p, "failure", ErrmsgTo(p))
      BY <1>0, <2>1, <2>4, ExitPreserves, ExitProgress
    <2> QED
      BY <2>1, <2>2, <2>3, <2>4
  <1>6. CASE CreateSocket(p)
    <2>1. place[p] = "socket" /\ UNCHANGED <<defaults, debug_f>>
      BY <1>6 DEF CreateSocket, argVars, logVars
    <2> QED
      BY <1>6, <2>1, CreateSocketPreserves DEF Progress, Served
  <1>7. CASE ResetAlmostAll(p)
    <2>1. place[p] = "output" /\ UNCHANGED <<defaults, debug_f>>
      BY <1>7 DEF ResetAlmostAll, argVars, logVars
    <2> QED
      BY <1>7, <2>1, ResetAlmostAllPreserves DEF Progress, Served
  <1>8. CASE EnterLoop(p)
    <2>1. place[p] = "callback" /\ UNCHANGED <<defaults, debug_f, held>>
      BY <1>8 DEF EnterLoop, argVars
    <2> QED
      BY <1>8, <2>1, EnterLoopPreserves DEF Progress, Served
  <1> QED
    BY <1>1, <1>2, <1>3, <1>4, <1>5, <1>6, <1>7, <1>8 DEF Start

LEMMA EndStep ==
  ASSUME TypeInv, NEW p \in Processes, ProcessInv(p), LogInv(p),
         place["parent"] # "none",
         Exiting(p) \/ LoopExit(p) \/ CatchSigint(p)
  PROVE  Preserved(p) /\ Progress(p)
  <1>0. ErrmsgTo(p) \in Said /\ ErrmsgTo(p) # "nowhere" /\ "stdout" \in Said
        /\ "nowhere" \in Said
    BY MessagePlace DEF Said
  <1>1. CASE BeginHandler(p)
    <2>1. UNCHANGED <<defaults, debug_f>> /\ place[p] = "exiting"
      BY <1>1 DEF BeginHandler, argVars, logVars
    <2> QED
      BY <1>1, <2>1, BeginHandlerPreserves DEF Progress
  <1>2. CASE EndHandler(p)
    <2>1. UNCHANGED defaults
      BY <1>2 DEF EndHandler, argVars
    <2>2. place[p] = "exiting"
      BY <1>2 DEF EndHandler, ProcessInv, RunningInv
    <2> QED
      BY <1>2, <2>1, <2>2, EndHandlerPreserves DEF Progress
  <1>3. CASE Gone(p)
    <2>1. /\ UNCHANGED <<defaults, debug_f, held>> /\ place[p] = "exiting"
      BY <1>3 DEF Gone, argVars, logVars
    <2> QED
      BY <1>3, <2>1, GonePreserves DEF Progress
  <1>4. CASE FailHandler(p)
    <2>1. /\ Exit(p, "failure", ErrmsgTo(p))
          /\ UNCHANGED <<defaults, current, logVars, handlers, held>>
      BY <1>4 DEF FailHandler, argVars
    <2>2. place[p] = "exiting"
      <3>1. running[p] \in Handlers
        BY <1>4 DEF FailHandler, Handlers
      <3> QED
        BY <3>1, NoneAssumption, HandlersDomain DEF ProcessInv, RunningInv
    <2> QED
      BY <1>0, <2>1, <2>2, SomeStage, ExitPreserves, ExitProgress
  <1>5. CASE LoopExit(p)
    <2>1. /\ place[p] = "loop"
          /\ Exit(p, "success", "nowhere") \/ Exit(p, "failure", ErrmsgTo(p))
          /\ UNCHANGED <<defaults, current, logVars, handlers, held>>
      BY <1>5 DEF LoopExit, argVars
    <2>2. CASE Exit(p, "success", "nowhere")
      BY <1>0, <2>1, <2>2, SomeStage, ExitPreserves, ExitProgress
    <2>3. CASE Exit(p, "failure", ErrmsgTo(p))
      BY <1>0, <2>1, <2>3, SomeStage, ExitPreserves, ExitProgress
    <2> QED
      BY <2>1, <2>2, <2>3
  <1>6. CASE CatchSigint(p)
    <2>1. /\ p = "parent" /\ Exit(p, "success", "stdout")
          /\ UNCHANGED <<defaults, current, logVars, handlers, held>>
      BY <1>6 DEF CatchSigint, argVars
    <2> QED
      BY <1>0, <2>1, SomeStage, ExitPreserves, ExitProgress
  <1> QED
    BY <1>1, <1>2, <1>3, <1>4, <1>5, <1>6 DEF Exiting

\* A step of one process keeps the two apart.
LEMMA ApartStep ==
  ASSUME TypeInv, ForkInv, DetachedInv, NEW p \in Processes,
         TypeInv', Alone(p), Progress(p)
  PROVE  ForkInv' /\ DetachedInv'
  <1> USE DEF ForkInv, DetachedInv, OnlyDaemonServes
  <1>1. NextStage("debug") = IF defaults.forking THEN "fork" ELSE "foreground"
    BY NextStageOf
  <1>2. defaults'.forking => defaults.forking
    BY DEF Progress
  <1>3. CASE p = "parent"
    <2>1. /\ place'["child"] = place["child"] /\ debug_f'["child"] = debug_f["child"]
      BY <1>3 DEF Alone, Processes
    <2>2. place["child"] # "none" => /\ place'["parent"] \in {"exiting", "gone"}
                                     /\ defaults'.forking
      <3> SUFFICES ASSUME place["child"] # "none"
                   PROVE  place'["parent"] \in {"exiting", "gone"}
                            /\ defaults'.forking
        OBVIOUS
      <3>1. place["parent"] \in {"exiting", "gone"} /\ defaults.forking
        OBVIOUS
      <3> QED
        BY <1>3, <3>1 DEF Progress, Served
    <2>3. \/ place'["parent"] \in {place["parent"], "exiting", "gone", "args",
                                   "debug"}
          \/ place'["parent"] = "fork" /\ defaults.forking
               /\ place["parent"] = "debug"
          \/ place'["parent"] = "foreground" /\ ~defaults.forking
          \/ place'["parent"] = "socket" /\ place["parent"] = "foreground"
          \/ place["parent"] \in Served /\ place'["parent"] \in Served
      BY <1>1, <1>3, NextStageOf DEF Progress
    <2>4. place'["parent"] \in {"foreground"} \cup Served => ~defaults'.forking
      BY <1>2, <2>3 DEF Served
    <2>5. place'["parent"] = "fork" => defaults'.forking
      BY <1>3, <2>3 DEF Progress, Served
    <2>6. place'["parent"] \notin {"none", "detach"}
      BY <2>3 DEF Served
    <2>7. OnlyDaemonServes'
      <3>1. CASE place["parent"] \in Served
        BY <1>2, <3>1
      <3>2. CASE held'["parent"] \cap {"socket", "output"} \subseteq held["parent"]
        BY <1>2, <3>2
      <3> QED
        BY <1>3, <3>1, <3>2 DEF Progress
    <2>8. place'["parent"] = "fork" => debug_f'["parent"] \in {"file", "null"}
      BY <1>3 DEF Progress
    <2> QED
      BY <2>1, <2>2, <2>4, <2>5, <2>6, <2>7, <2>8
  <1>4. CASE p = "child"
    <2>1. /\ place'["parent"] = place["parent"] /\ held'["parent"] = held["parent"]
          /\ debug_f'["parent"] = debug_f["parent"]
      BY <1>4 DEF Alone, Processes
    <2>2. place'["child"] # "none" => place["child"] # "none"
      BY <1>4 DEF Progress, Served
    <2>3. defaults' = defaults
      BY <1>4 DEF Progress, Served
    <2>4. place'["child"] \in {"none", "detach", "exiting", "gone"} \cup Served
      BY <1>4, NextStageOf DEF Progress, Served
    <2>5. place'["child"] # "none" => debug_f'["child"] \in {"file", "null"}
      BY <1>4, <2>2 DEF Progress, Served
    <2> QED
      BY <2>1, <2>2, <2>3, <2>4, <2>5
  <1> QED
    BY <1>3, <1>4 DEF Processes

(***************************************************************************)
(* fork(): the child takes over what the parent has, and its handlers.     *)
(***************************************************************************)
LEMMA ForkStep ==
  ASSUME LifeInv, Fork
  PROVE  LifeInv'
  <1> DEFINE P == "parent"
             C == "child"
  <1>1. /\ place[P] = "fork" /\ place[P] \in Stages /\ P \in Processes
        /\ C \in Processes
        /\ UNCHANGED <<defaults, current>>
    BY DEF Fork, Stages, Processes, argVars
  <1>2. place[C] = "none" /\ defaults.forking
    BY <1>1 DEF LifeInv, ForkInv
  <1>3. /\ TypeInv /\ ForkInv /\ DetachedInv
        /\ ProcessInv(P) /\ LogInv(P) /\ ProcessInv(C) /\ LogInv(C)
    BY <1>1 DEF LifeInv
  <1>4. CASE Exit(P, "failure", "stdout") /\ UNCHANGED <<handlers, held, debug_f>>
    <2>1. Preserved(P) /\ Progress(P)
      <3>1. UNCHANGED <<defaults, current, logVars, handlers, held>>
        BY <1>4 DEF Fork, logVars, argVars
      <3>2. "stdout" \in Said
        BY DEF Said
      <3> QED
        BY <1>1, <1>3, <1>4, <3>1, <3>2, ExitPreserves, ExitProgress
    <2>2. ForkInv' /\ DetachedInv'
      BY <1>1, <1>3, <2>1, ApartStep DEF Preserved
    <2>3. ProcessInv(C)' /\ LogInv(C)'
      BY <1>1, <1>3, <2>1
      DEF Preserved, Alone, ProcessInv, HandlersInv, RunningInv, HeldInv,
          ServiceInv, LogInv
    <2> QED
      BY <2>1, <2>2, <2>3 DEF Preserved, LifeInv, Processes
  <1>5. CASE /\ place' = [parent |-> "exiting", child |-> "detach"]
             /\ handlers' = [handlers EXCEPT !["child"] = handlers["parent"]]
             /\ held' = [held EXCEPT !["child"] = held["parent"]]
             /\ debug_f' = [debug_f EXCEPT !["child"] = debug_f["parent"]]
             /\ outcome' = [outcome EXCEPT !["parent"] =
                  [status |-> "success", at |-> "fork", said |-> "nowhere"]]
             /\ UNCHANGED <<running, broken>>
    <2>1. /\ place' \in [Processes -> Stages \cup {"none"}]
          /\ place'[P] = "exiting" /\ place'[C] = "detach"
      BY <1>5 DEF Processes, Stages
    <2>2. /\ handlers' \in [Processes -> Seq(Handlers)]
          /\ handlers'[P] = handlers[P] /\ handlers'[C] = handlers[P]
      BY <1>1, <1>3, <1>5 DEF TypeInv
    <2>3. /\ held' \in [Processes -> SUBSET Resources]
          /\ held'[P] = held[P] /\ held'[C] = held[P]
      BY <1>1, <1>3, <1>5 DEF TypeInv
    <2>4. /\ debug_f' \in [Processes -> Logs]
          /\ debug_f'[P] = debug_f[P] /\ debug_f'[C] = debug_f[P]
      BY <1>1, <1>3, <1>5 DEF TypeInv
    <2>5. /\ outcome' \in [Processes ->
               [status : {"success", "failure"}, at : Stages, said : Said]
               \cup {None}]
          /\ outcome'[C] = outcome[C]
          /\ outcome'[P] = [status |-> "success", at |-> "fork",
                            said |-> "nowhere"]
      <3>1. [status |-> "success", at |-> "fork", said |-> "nowhere"]
              \in [status : {"success", "failure"}, at : Stages, said : Said]
        BY DEF Stages, Said
      <3> QED
        BY <1>1, <1>3, <1>5, <3>1 DEF TypeInv
    <2>6. TypeInv'
      BY <1>1, <1>3, <1>5, <2>1, <2>2, <2>3, <2>4, <2>5 DEF TypeInv
    <2>7. running[P] = None /\ broken[P] = {} /\ running[C] = None /\ broken[C] = {}
      BY <1>1, <1>2, <1>3 DEF ProcessInv, RunningInv
    <2>8. held[P] \cap {"socket", "output"} = {} /\ Len(handlers[P]) = 3
      BY <1>1, <1>3 DEF ProcessInv, ServiceInv, HandlersInv
    <2>9. \A q \in Processes : /\ handlers'[q] = handlers[P] /\ held'[q] = held[P]
                              /\ running'[q] = None /\ broken'[q] = {}
                              /\ debug_f'[q] = debug_f[P]
                              /\ place'[q] \in {"exiting", "detach"}
      BY <1>5, <2>1, <2>2, <2>3, <2>4, <2>7 DEF Processes
    <2>10. ASSUME NEW q \in Processes PROVE ProcessInv(q)'
      <3>1. HandlersInv(q)'
        BY <1>3, <2>8, <2>9 DEF ProcessInv, HandlersInv
      <3>2. RunningInv(q)'
        BY <2>9 DEF RunningInv
      <3>3. HeldInv(q)'
        BY <1>3, <2>7, <2>9, NoneAssumption, HandlersDomain
        DEF ProcessInv, HeldInv
      <3>4. ServiceInv(q)'
        BY <2>8, <2>9 DEF ServiceInv
      <3> QED
        BY <3>1, <3>2, <3>3, <3>4 DEF ProcessInv
    <2>11. LogInv(P)'
      <3>1. outcome'[P].status = "success"
        BY <2>5
      <3> QED
        BY <1>3, <2>1, <2>3, <2>4, <3>1 DEF LogInv
    <2>12. LogInv(C)'
      BY <1>3, <2>1, <2>3, <2>4, <2>5 DEF LogInv
    <2>13. ForkInv' /\ DetachedInv'
      BY <1>1, <1>2, <1>3, <2>1, <2>3, <2>4, <2>8
      DEF ForkInv, DetachedInv, Served, OnlyDaemonServes
    <2> QED
      BY <2>6, <2>10, <2>11, <2>12, <2>13 DEF LifeInv, Processes
  <1> QED
    BY <1>4, <1>5 DEF Fork

LEMMA InitLifeInv == Init => LifeInv
  <1> SUFFICES ASSUME Init PROVE LifeInv
    OBVIOUS
  <1>1. /\ place = [parent |-> "devices", child |-> "none"]
        /\ \A p \in Processes :
             /\ handlers[p] = <<>> /\ held[p] = {} /\ running[p] = None
             /\ broken[p] = {} /\ debug_f[p] = "stdout" /\ outcome[p] = None
             /\ current[p] = Copied(ProgramDefaults)
    BY DEF Init
  <1>2. Copied(ProgramDefaults).threshold = LOG_WARNING
    BY DEF Copied, ProgramDefaults, CurrentNames
  <1>3. TypeInv
    <2>1. defaults.forking = TRUE /\ "forking" \in DOMAIN defaults
      BY DEF Init, ProgramDefaults
    <2>2. place \in [Processes -> Stages \cup {"none"}]
      BY <1>1 DEF Processes, Stages
    <2>3. "stdout" \in Logs /\ <<>> \in Seq(Handlers)
      BY DEF Logs
    <2>4. DOMAIN current = Processes
      BY DEF Init
    <2> QED
      BY <2>1, <2>2, <2>3, <2>4 DEF Init, TypeInv
  <1>4. \A p \in Processes : ProcessInv(p)
    BY <1>1
    DEF Processes, ProcessInv, HandlersInv, RunningInv, HeldInv, ServiceInv
  <1>5. \A p \in Processes : LogInv(p)
    BY <1>1, <1>2 DEF LogInv
  <1>6. ForkInv /\ DetachedInv
    BY <1>1 DEF ForkInv, DetachedInv, Served, OnlyDaemonServes, Processes
  <1> QED
    BY <1>3, <1>4, <1>5, <1>6 DEF LifeInv

LEMMA StepLifeInv == LifeInv /\ [Next]_vars => LifeInv'
  <1> SUFFICES ASSUME LifeInv, [Next]_vars PROVE LifeInv'
    OBVIOUS
  <1>1. CASE Fork
    BY <1>1, ForkStep
  <1>2. CASE Terminated \/ UNCHANGED vars
    BY <1>2
    DEF Terminated, vars, argVars, logVars, exitVars, LifeInv, TypeInv,
        ForkInv, DetachedInv, OnlyDaemonServes, ProcessInv, HandlersInv,
        RunningInv, HeldInv, ServiceInv, LogInv
  <1>3. ASSUME NEW p \in Processes, Step(p) \/ LoopExit(p) \/ CatchSigint(p)
        PROVE  LifeInv'
    <2>1. Preserved(p) /\ Progress(p)
      BY <1>3, StartStep, EndStep DEF Step, LifeInv, ForkInv
    <2>2. ForkInv' /\ DetachedInv'
      BY <2>1, ApartStep DEF Preserved, LifeInv
    <2>3. ASSUME NEW q \in Processes, q # p PROVE ProcessInv(q)' /\ LogInv(q)'
      <3>1. ProcessInv(q) /\ LogInv(q)
        BY DEF LifeInv
      <3>2. /\ place'[q] = place[q] /\ handlers'[q] = handlers[q]
            /\ held'[q] = held[q] /\ debug_f'[q] = debug_f[q]
            /\ running'[q] = running[q] /\ broken'[q] = broken[q]
            /\ outcome'[q] = outcome[q] /\ current'[q] = current[q]
        BY <2>1, <2>3 DEF Preserved, Alone
      <3>3. ProcessInv(q)'
        BY <3>1, <3>2
        DEF ProcessInv, HandlersInv, RunningInv, HeldInv, ServiceInv
      <3> QED
        BY <3>1, <3>2, <3>3 DEF LogInv
    <2> QED
      BY <2>1, <2>2, <2>3 DEF Preserved, LifeInv
  <1> QED
    BY <1>1, <1>2, <1>3 DEF Next

LEMMA LifeInvariant == Spec => []LifeInv
  BY InitLifeInv, StepLifeInv, PTL DEF Spec

-----------------------------------------------------------------------------
\* Whatever ends the process, and wherever, and although exit() may be called
\* again by one of its handlers: nothing stays open but what a handler that
\* was itself cut short had to close.
THEOREM NothingIsLeft == Spec => []NothingLeft
  <1>1. LifeInv => NothingLeft
    <2> SUFFICES ASSUME LifeInv, NEW p \in Processes, place[p] = "gone",
                        NEW h \in DOMAIN ResourceOf, ResourceOf[h] \in held[p]
                 PROVE  h \in broken[p]
      BY DEF NothingLeft
    <2>1. HandlersInv(p) /\ RunningInv(p) /\ HeldInv(p) /\ h \in Handlers
      BY HandlersDomain DEF LifeInv, ProcessInv
    <2>2. Len(handlers[p]) = 0 /\ running[p] = None
      BY <2>1 DEF HandlersInv, RunningInv
    <2>3. Rank[h] \in 1..5 /\ h # None
      BY <2>1, RankFacts, NoneAssumption, HandlersDomain
    <2> QED
      BY <2>1, <2>2, <2>3 DEF HeldInv
  <1> QED
    BY <1>1, LifeInvariant, PTL

\* As long as there is a generator, its thread finds the socket it replies by,
\* and the process that has both is the daemon, not the one that forked it.
THEOREM ResourcesAreThere == Spec => []ResourcesOutliveUsers
  <1>1. LifeInv => ResourcesOutliveUsers
    <2> SUFFICES ASSUME LifeInv, NEW p \in Processes, "output" \in held[p],
                        "close_libcw" \notin broken[p]
                 PROVE  "socket" \in held[p] /\ (defaults.forking => p = "child")
      BY DEF ResourcesOutliveUsers
    <2>1. ServiceInv(p) /\ OnlyDaemonServes
      BY DEF LifeInv, ProcessInv, ForkInv
    <2> QED
      BY <2>1 DEF ServiceInv, OnlyDaemonServes, Processes
  <1> QED
    BY <1>1, LifeInvariant, PTL

\* The process that forks has neither socket nor generator, at any time.
THEOREM OnlyTheDaemonServes == Spec => []OnlyDaemonServes
  <1>1. LifeInv => OnlyDaemonServes
    BY DEF LifeInv, ForkInv
  <1> QED
    BY <1>1, LifeInvariant, PTL

\* No message of a daemon in the background goes to the terminal.
THEOREM TerminalIsLeft == Spec => []DaemonLeavesTerminal
  <1>1. LifeInv => DaemonLeavesTerminal
    <2> SUFFICES ASSUME LifeInv, place["child"] # "none"
                 PROVE  MessageTo("child", LOG_ERR) \in {"file", "syslog", "nowhere"}
      BY DEF DaemonLeavesTerminal
    <2>1. debug_f["child"] \in {"file", "null"}
      BY DEF LifeInv, DetachedInv
    <2>2. MessageTo("child", LOG_ERR) \in {"nowhere", "syslog", debug_f["child"]}
      BY Zenon DEF MessageTo
    <2>3. MessageTo("child", LOG_ERR) = "null" => debug_f["child"] # "null"
      BY Zenon DEF MessageTo
    <2> QED
      BY <2>1, <2>2, <2>3
  <1> QED
    BY <1>1, LifeInvariant, PTL

\* A process that ends with a failure has said why, on the terminal or in the
\* log, unless the sound system is the reason.
THEOREM FailuresAreReported == Spec => []FailureReported
  <1>1. LifeInv => FailureReported
    BY DEF LifeInv, LogInv, FailureReported
  <1> QED
    BY <1>1, LifeInvariant, PTL

-----------------------------------------------------------------------------
(***************************************************************************)
(* What the options ask for.  "The last option of a name" is a Max over    *)
(* positions, and -i counts those after the last -y: here is what becomes  *)
(* of both when an option is read.                                         *)
(***************************************************************************)
LEMMA MaxIs ==
  ASSUME NEW S \in SUBSET Nat, NEW m \in S, \A i \in S : i <= m
  PROVE  Max(S) = m
  <1>1. \A i \in S : m >= i
    OBVIOUS
  <1>2. Max(S) \in S /\ \A i \in S : Max(S) >= i
    BY <1>1, Zenon DEF Max
  <1>3. Max(S) \in Nat /\ m \in Nat /\ Max(S) >= m /\ m >= Max(S)
    BY <1>1, <1>2
  <1> QED
    BY <1>3

LEMMA MaxExists ==
  ASSUME NEW n \in Nat, NEW S \in SUBSET (1..n), S # {}
  PROVE  Max(S) \in S
  <1> DEFINE T == {k \in Nat : n - k \in S}
  <1>1. ASSUME NEW i \in S PROVE i \in Nat /\ i <= n /\ n - i \in T
    <2>1. i \in Nat /\ i <= n
      OBVIOUS
    <2>2. n - i \in Nat /\ n - (n - i) = i
      BY <2>1
    <2> QED
      BY <2>1, <2>2
  <1>2. T \subseteq Nat /\ T # {}
    BY <1>1
  <1>3. PICK x \in T : \A y \in T : ~ (<<y, x>> \in OpToRel(<, Nat))
    <2> HIDE DEF T
    <2> QED
      BY <1>2, NatLessThanWellFounded, WFMin
  <1>4. x \in T /\ \A y \in T : ~(y < x)
    BY <1>2, <1>3 DEF OpToRel
  <1>5. n - x \in S /\ x \in Nat
    BY <1>4
  <1>6. ASSUME NEW i \in S PROVE i <= n - x
    BY <1>1, <1>4, <1>5
  <1> QED
    BY <1>1, <1>5, <1>6, MaxIs

Reads(o) == given \in Seq(Options) /\ o \in Options /\ given' = Append(given, o)

LEMMA ReadAt ==
  ASSUME NEW o, Reads(o), NEW name
  PROVE  /\ Len(given) \in Nat /\ At(name) \subseteq 1..Len(given)
         /\ \A i \in 1..Len(given) : given'[i] = given[i]
         /\ given'[Len(given) + 1] = o
         /\ At(name)' = IF o.name = name THEN At(name) \cup {Len(given) + 1}
                                         ELSE At(name)
  <1> USE DEF Reads
  <1>1. /\ Len(given) \in Nat /\ Len(given') = Len(given) + 1
        /\ \A i \in 1..Len(given) : given'[i] = given[i]
        /\ given'[Len(given) + 1] = o
    BY Reads(o)
  <1> HIDE DEF Reads
  <1>2. At(name)' = {i \in 1..Len(given) + 1 : given'[i].name = name}
    BY <1>1 DEF At
  <1>3. \A i \in 1..Len(given) : i \in At(name)' <=> i \in At(name)
    BY <1>1, <1>2 DEF At
  <1>4. Len(given) + 1 \in At(name)' <=> o.name = name
    BY <1>1, <1>2
  <1>5. At(name) \subseteq 1..Len(given)
    BY DEF At
  <1>6. \A i : i \in At(name)' <=>
                 i \in At(name) \/ (o.name = name /\ i = Len(given) + 1)
    BY <1>1, <1>2, <1>3, <1>4, <1>5
  <1> QED
    BY <1>1, <1>5, <1>6

\* The last option of a name counts.
LEMMA ReadLast ==
  ASSUME NEW o, Reads(o), NEW name
  PROVE  LastOf(name)' = IF o.name = name THEN o.value ELSE LastOf(name)
  <1>1. /\ Len(given) \in Nat /\ At(name) \subseteq 1..Len(given)
        /\ \A i \in 1..Len(given) : given'[i] = given[i]
        /\ given'[Len(given) + 1] = o
        /\ At(name)' = IF o.name = name THEN At(name) \cup {Len(given) + 1}
                                        ELSE At(name)
    BY ReadAt
  <1>2. CASE o.name = name
    <2>1. At(name)' \in SUBSET Nat /\ Len(given) + 1 \in At(name)'
      BY <1>1, <1>2
    <2>2. \A i \in At(name)' : i <= Len(given) + 1
      BY <1>1, <1>2
    <2>3. Max(At(name)') = Len(given) + 1
      BY <2>1, <2>2, MaxIs
    <2> QED
      BY <1>1, <1>2, <2>1, <2>3 DEF LastOf
  <1>3. CASE o.name # name
    <2>1. CASE At(name) = {}
      BY <1>1, <1>3, <2>1 DEF LastOf
    <2>2. CASE At(name) # {}
      <3>1. Max(At(name)) \in 1..Len(given)
        BY <1>1, <2>2, MaxExists
      <3> QED
        BY <1>1, <1>3, <2>2, <3>1 DEF LastOf
    <2> QED
      BY <2>1, <2>2
  <1> QED
    BY <1>2, <1>3

\* The -i options that count are those after the last -y.
Since == {i \in At("verbose") : \A j \in At("threshold") : j < i}
Capped(sum) == IF sum > LOG_DEBUG THEN LOG_DEBUG ELSE sum

LEMMA VerbosityIs ==
  Verbosity = Capped(LastOf("threshold") + Cardinality(Since))
  BY DEF Verbosity, Since, Capped

LEMMA SinceFinite ==
  ASSUME given \in Seq(Options)
  PROVE  IsFiniteSet(Since) /\ Cardinality(Since) \in Nat
  <1>1. Len(given) \in Nat /\ Since \in SUBSET (1..Len(given))
    BY DEF Since, At
  <1>2. IsFiniteSet(1..Len(given))
    BY <1>1, FS_Interval
  <1>3. IsFiniteSet(Since)
    BY <1>1, <1>2, FS_Subset
  <1> QED
    BY <1>3, FS_CardinalityType

LEMMA ReadSince ==
  ASSUME NEW o, Reads(o)
  PROVE  Cardinality(Since)' = CASE o.name = "threshold" -> 0
                                 [] o.name = "verbose"   -> Cardinality(Since) + 1
                                 [] OTHER                -> Cardinality(Since)
  <1>1. /\ Len(given) \in Nat
        /\ At("verbose") \subseteq 1..Len(given)
        /\ At("threshold") \subseteq 1..Len(given)
        /\ At("verbose")' = IF o.name = "verbose"
                            THEN At("verbose") \cup {Len(given) + 1}
                            ELSE At("verbose")
        /\ At("threshold")' = IF o.name = "threshold"
                              THEN At("threshold") \cup {Len(given) + 1}
                              ELSE At("threshold")
    BY ReadAt
  <1>2. CASE o.name = "threshold"
    <2>1. Since' = {}
      <3> SUFFICES ASSUME NEW i \in At("verbose")'
                   PROVE  \E j \in At("threshold")' : ~(j < i)
        BY DEF Since
      <3>1. i \in 1..Len(given) /\ Len(given) + 1 \in At("threshold")'
        BY <1>1, <1>2
      <3> QED
        BY <1>1, <3>1
    <2> QED
      BY <1>2, <2>1, FS_EmptySet
  <1>3. CASE o.name = "verbose"
    <2>1. Since' = Since \cup {Len(given) + 1}
      BY <1>1, <1>3 DEF Since
    <2>2. Len(given) + 1 \notin Since
      BY <1>1 DEF Since
    <2>3. Cardinality(Since \cup {Len(given) + 1}) = Cardinality(Since) + 1
      BY <2>2, SinceFinite, FS_AddElement DEF Reads
    <2> QED
      BY <1>3, <2>1, <2>3
  <1>4. CASE o.name \notin {"threshold", "verbose"}
    <2>1. Since' = Since
      BY <1>1, <1>4 DEF Since
    <2> QED
      BY <1>4, <2>1
  <1> QED
    BY <1>2, <1>3, <1>4

-----------------------------------------------------------------------------
(***************************************************************************)
(* The defaults follow the command line as long as no option is refused,   *)
(* and the daemon works with them from the start of its sound system on.   *)
(***************************************************************************)
Plain == {"wpm", "tone", "volume", "weighting", "pttdelay", "port", "priority",
          "path"}
Asked ==
  /\ \A name \in Plain : defaults[name] = LastOf(name)
  /\ defaults.flags = LastOf("flags") % FlagsSize
  /\ LastOf("threshold") \in LOG_CRIT..LOG_DEBUG
  /\ defaults.threshold = Verbosity
  /\ defaults.pttdelay \in 0..50 /\ defaults.wpm \in SpeedMin..SpeedMax

Working == {"devices", "args", "debug", "fork", "foreground", "detach",
            "socket", "bind", "priority", "output", "callback", "loop"}
AskedInv == (\E p \in Processes : place[p] \in Working) => Asked
InForceInv == \A p \in Processes :
  /\ place[p] \in {"callback", "loop"} => current[p] = Copied(defaults)
  /\ place[p] \in (Working \ {"loop"}) \cup {"none"} => level[p] = None
  /\ place[p] = "loop"
       => level[p] = IF defaults.flags = 0 THEN None
                     ELSE LibcwLevel(defaults.threshold)
Levels == {None, "none", "error", "warning", "info", "debug"}
ValuesInv ==
  /\ given \in Seq(Options)
  /\ DOMAIN defaults = DOMAIN ProgramDefaults
  /\ defaults.threshold \in LOG_CRIT..LOG_DEBUG
  /\ DOMAIN current = Processes
  /\ \A p \in Processes : DOMAIN current[p] = CurrentNames
  /\ level \in [Processes -> Levels]
  /\ sigint \in {"default", "caught", "blocked"}
ConfigInv == ValuesInv /\ AskedInv /\ InForceInv

LEMMA LibcwLevelType == \A t : LibcwLevel(t) \in Levels
  <1> TAKE t
  <1>1. LibcwLevel(t) \in {"none", "error", "warning", "info", "debug"}
    BY Zenon DEF LibcwLevel
  <1> QED
    BY <1>1 DEF Levels

LEMMA VerbosityRange ==
  ASSUME given \in Seq(Options), LastOf("threshold") \in LOG_CRIT..LOG_DEBUG
  PROVE  Verbosity \in LOG_CRIT..LOG_DEBUG
  BY VerbosityIs, SinceFinite DEF Capped, LOG_CRIT, LOG_DEBUG

LEMMA ConfigInit == Init => ConfigInv
  <1> SUFFICES ASSUME Init PROVE ConfigInv
    OBVIOUS
  <1> USE DEF Init
  <1>1. given = <<>> /\ given \in Seq(Options) /\ \A name : At(name) = {}
    BY DEF At
  <1>2. \A name : LastOf(name) = ProgramDefaults[name]
    BY <1>1 DEF LastOf
  <1>3. Cardinality(Since) = 0
    BY <1>1, FS_EmptySet DEF Since
  <1>4. Verbosity = LOG_WARNING
    BY <1>2, <1>3, VerbosityIs DEF Capped, ProgramDefaults, LOG_WARNING, LOG_DEBUG
  <1>5. 0 % FlagsSize = 0
    BY SizesAssumption
  <1>6. Asked
    BY <1>2, <1>4, <1>5, SpeedAssumption
    DEF Asked, Plain, ProgramDefaults, LOG_WARNING, LOG_CRIT, LOG_DEBUG
  <1>7. ValuesInv
    BY <1>1
    DEF ValuesInv, ProgramDefaults, LOG_WARNING, LOG_CRIT, LOG_DEBUG, Copied,
        Levels
  <1>8. InForceInv
    BY DEF InForceInv, Processes
  <1> QED
    BY <1>6, <1>7, <1>8 DEF ConfigInv, AskedInv

LEMMA AcceptedValue ==
  ASSUME NEW o \in Options, Accepted(o)
  PROVE  /\ o.name = "wpm" => o.value \in SpeedMin..SpeedMax
         /\ o.name = "pttdelay" => o.value \in 0..50
         /\ o.name = "threshold" => o.value \in LOG_CRIT..LOG_DEBUG
  <1>1. GetLong(o.value)
    BY DEF Accepted
  <1>2. o.name = "wpm" => ParamsWpm(o.value)
    BY <1>1, Zenon DEF Accepted
  <1>3. o.name = "threshold" => SetVerbosity(o.value)
    BY <1>1, Zenon DEF Accepted
  <1>4. o.name = "pttdelay" => o.value \in 0..50
    <2> SUFFICES ASSUME o.name = "pttdelay" PROVE o.value \in 0..50
      OBVIOUS
    <2>1. ParamsPttdelay(o.value) = 1
      BY <1>1, Zenon DEF Accepted
    <2>2. o.value \in Int
      BY <1>1, OptionsAssumption DEF GetLong
    <2>3. ~(o.value < 0)
      BY <2>1 DEF ParamsPttdelay
    <2>4. ~(o.value > 50)
      BY <2>1, <2>3 DEF ParamsPttdelay
    <2> QED
      BY <2>2, <2>3, <2>4
  <1> QED
    BY <1>2, <1>3, <1>4
    DEF ParamsWpm, SetVerbosity, LOG_CRIT, LOG_ERR, LOG_WARNING, LOG_INFO,
        LOG_DEBUG

\* What the options of other names ask for is not changed by an option.
LEMMA ReadOthers ==
  ASSUME Asked, NEW o, Reads(o)
  PROVE  /\ \A name : name # o.name => LastOf(name)' = LastOf(name)
         /\ o.name \notin {"threshold", "verbose"} => Verbosity' = Verbosity
  <1>1. \A name : LastOf(name)' = IF o.name = name THEN o.value ELSE LastOf(name)
    BY ReadLast
  <1>2. Verbosity' = Capped(LastOf("threshold")' + Cardinality(Since)')
    BY DEF Verbosity, Since, Capped
  <1>3. o.name \notin {"threshold", "verbose"} =>
          Cardinality(Since)' = Cardinality(Since)
    BY ReadSince
  <1> QED
    BY <1>1, <1>2, <1>3, VerbosityIs

LEMMA ReadAsked ==
  ASSUME ValuesInv, Asked, NEW o, Reads(o), Accepted(o),
         o.name \notin {"cwdevice", "help"}, defaults' = Applied(o)
  PROVE  /\ Asked' /\ DOMAIN defaults' = DOMAIN ProgramDefaults
         /\ defaults'.threshold \in LOG_CRIT..LOG_DEBUG
  <1>1. /\ o \in Options /\ given \in Seq(Options)
        /\ DOMAIN defaults = {"wpm", "tone", "volume", "weighting", "pttdelay",
             "threshold", "port", "priority", "flags", "path", "forking"}
        /\ DOMAIN ProgramDefaults = DOMAIN defaults
    BY DEF Reads, ValuesInv, ProgramDefaults
  <1>2. /\ LastOf(o.name)' = o.value
        /\ \A name : name # o.name => LastOf(name)' = LastOf(name)
        /\ o.name \notin {"threshold", "verbose"} => Verbosity' = Verbosity
    BY ReadLast, ReadOthers
  <1>3. Verbosity' = Capped(LastOf("threshold")' + Cardinality(Since)')
    BY DEF Verbosity, Since, Capped
  <1>4. CASE o.name = "verbose"
    <2>1. defaults' = [defaults EXCEPT !.threshold = IncVerbosity(@)]
      BY <1>4, Zenon DEF Applied
    <2>2. Cardinality(Since)' = Cardinality(Since) + 1 /\ Cardinality(Since) \in Nat
      BY <1>1, <1>4, ReadSince, SinceFinite
    <2>3. Verbosity' = IncVerbosity(Verbosity)
      BY <1>2, <1>3, <1>4, <2>2, VerbosityIs
      DEF Asked, Capped, IncVerbosity, LOG_CRIT, LOG_DEBUG
    <2>4. defaults'.threshold = Verbosity'
      BY <1>1, <2>1, <2>3 DEF Asked
    <2>5. defaults'.threshold \in LOG_CRIT..LOG_DEBUG
      BY <1>1, <2>1 DEF ValuesInv, IncVerbosity, LOG_CRIT, LOG_DEBUG
    <2>6. \A name \in Plain \cup {"flags"} : defaults'[name] = defaults[name]
      BY <1>1, <2>1 DEF Plain
    <2> QED
      BY <1>1, <1>2, <1>4, <2>1, <2>4, <2>5, <2>6 DEF Asked, Plain
  <1>5. CASE o.name = "nofork"
    <2>1. defaults' = [defaults EXCEPT !.forking = FALSE]
      BY <1>5, Zenon DEF Applied
    <2>2. \A name \in Plain \cup {"flags", "threshold"} :
            defaults'[name] = defaults[name]
      BY <1>1, <2>1 DEF Plain
    <2> QED
      BY <1>1, <1>2, <1>5, <2>1, <2>2 DEF Asked, Plain, ValuesInv
  <1>6. CASE o.name = "flags"
    <2>1. defaults' = [defaults EXCEPT !.flags = ToFlags(o.value)]
      BY <1>6, Zenon DEF Applied
    <2>2. \A name \in Plain \cup {"threshold"} :
            defaults'[name] = defaults[name]
      BY <1>1, <2>1 DEF Plain
    <2>3. defaults'.flags = LastOf("flags")' % FlagsSize
      BY <1>1, <1>2, <1>6, <2>1 DEF ToFlags
    <2> QED
      BY <1>1, <1>2, <1>6, <2>1, <2>2, <2>3 DEF Asked, Plain, ValuesInv
  <1>7. CASE o.name = "threshold"
    <2>1. defaults' = [defaults EXCEPT !.threshold = o.value]
      BY <1>7, Zenon DEF Applied
    <2>2. o.value \in LOG_CRIT..LOG_DEBUG
      BY <1>1, <1>7, AcceptedValue
    <2>3. Cardinality(Since)' = 0
      BY <1>7, ReadSince
    <2>4. Verbosity' = o.value
      BY <1>2, <1>3, <1>7, <2>2, <2>3 DEF Capped, LOG_CRIT, LOG_DEBUG
    <2>5. \A name \in Plain \cup {"flags"} : defaults'[name] = defaults[name]
      BY <1>1, <2>1 DEF Plain
    <2> QED
      BY <1>1, <1>2, <1>7, <2>1, <2>2, <2>4, <2>5 DEF Asked, Plain
  <1>8. CASE o.name \in Plain
    <2>1. defaults' = [defaults EXCEPT ![o.name] = o.value]
      BY <1>8, Zenon DEF Applied, Plain
    <2>2. \A name \in Plain \cup {"flags", "threshold"} :
            defaults'[name] = IF name = o.name THEN o.value ELSE defaults[name]
      BY <1>1, <2>1 DEF Plain
    <2>3. \A name \in Plain : defaults'[name] = LastOf(name)'
      BY <1>2, <2>2 DEF Asked
    <2>4. defaults'.pttdelay \in 0..50 /\ defaults'.wpm \in SpeedMin..SpeedMax
      <3>1. o.name = "pttdelay" => o.value \in 0..50
        BY <1>1, AcceptedValue
      <3>2. o.name = "wpm" => o.value \in SpeedMin..SpeedMax
        BY <1>1, AcceptedValue
      <3> QED
        BY <2>2, <3>1, <3>2 DEF Asked, Plain
    <2>5. /\ defaults'.flags = defaults.flags
          /\ defaults'.threshold = defaults.threshold
          /\ DOMAIN defaults' = DOMAIN defaults
      BY <1>8, <2>1, <2>2 DEF Plain
    <2>6. /\ o.name \notin {"flags", "threshold", "verbose"}
      BY <1>8 DEF Plain
    <2>7. /\ LastOf("flags")' = LastOf("flags") /\ Verbosity' = Verbosity
          /\ LastOf("threshold")' = LastOf("threshold")
      BY <1>2, <2>6
    <2> QED
      BY <1>1, <2>3, <2>4, <2>5, <2>7 DEF Asked, ValuesInv
  <1>9. o.name \in {"verbose", "nofork", "flags", "threshold"} \cup Plain
    BY <1>1, OptionsAssumption DEF OptionNames, Plain
  <1> QED
    BY <1>4, <1>5, <1>6, <1>7, <1>8, <1>9

\* A step that reads no option and puts none into force.
Quiet(p) ==
  /\ UNCHANGED <<given, defaults, current, level>>
  /\ \A q \in Processes \ {p} : place'[q] = place[q]
  /\ \/ place'[p] = place[p] \/ place'[p] \in {"exiting", "gone"}
     \/ /\ place[p] \in {"devices", "args", "debug", "foreground", "detach",
                         "socket", "bind", "priority"}
        /\ place'[p] = NextStage(place[p])
  /\ sigint' \in {sigint, "caught", "blocked"}

LEMMA AskedSame ==
  ASSUME UNCHANGED <<given, defaults>>
  PROVE  Asked' <=> Asked
  BY DEF Asked, LastOf, At, Verbosity

LEMMA QuietConfig ==
  ASSUME ConfigInv, NEW p \in Processes, Quiet(p)
  PROVE  ConfigInv'
  <1> USE DEF ConfigInv
  <1>1. ValuesInv'
    BY DEF ValuesInv, Quiet
  <1>2. place'[p] \in {place[p], "exiting", "gone"}
        \/ /\ place[p] \in Working
           /\ place'[p] \in Working \ {"callback", "loop"}
    BY NextStageOf DEF Quiet, Working
  <1>3. AskedInv'
    <2>1. \A q \in Processes : place'[q] \in Working =>
            \E r \in Processes : place[r] \in Working
      BY <1>2 DEF Quiet, Working
    <2>2. Asked' <=> Asked
      BY AskedSame DEF Quiet
    <2> QED
      BY <2>1, <2>2 DEF AskedInv
  <1>4. InForceInv'
    <2> SUFFICES ASSUME NEW q \in Processes
                 PROVE
           /\ place'[q] \in {"callback", "loop"} => current[q] = Copied(defaults)
           /\ place'[q] \in (Working \ {"loop"}) \cup {"none"} => level[q] = None
           /\ place'[q] = "loop"
                => level[q] = IF defaults.flags = 0 THEN None
                              ELSE LibcwLevel(defaults.threshold)
      BY DEF InForceInv, Quiet, Copied, LibcwLevel
    <2>1. CASE q # p
      BY <2>1 DEF InForceInv, Quiet
    <2>2. CASE q = p
      BY <1>2, <2>2 DEF InForceInv, Quiet, Working
    <2> QED
      BY <2>1, <2>2
  <1> QED
    BY <1>1, <1>3, <1>4

\* Only the parent reads options, and there is no child yet.
LEMMA ReadingAlone ==
  ASSUME LifeInv, NEW p \in Processes, place[p] = "args"
  PROVE  p = "parent" /\ place["child"] = "none"
  <1>1. place["child"] # "args"
    BY DEF LifeInv, ForkInv, Served
  <1> QED
    BY <1>1 DEF LifeInv, ForkInv, Processes

\* An option that is refused, or that ends the start, leaves no one working.
LEMMA RefusedConfig ==
  ASSUME LifeInv, ConfigInv, NEW p \in Processes, place[p] = "args",
         NEW o \in Options, given' = Append(given, o),
         NEW status, NEW said, Exit(p, status, said),
         UNCHANGED <<defaults, current, level, sigint>>
  PROVE  ConfigInv'
  <1>1. p = "parent" /\ place["child"] = "none"
    BY ReadingAlone
  <1>2. place'["parent"] = "exiting" /\ place'["child"] = "none"
    BY <1>1 DEF Exit, LifeInv, TypeInv
  <1>3. \A q \in Processes : place'[q] \in {"exiting", "none"}
    BY <1>2 DEF Processes
  <1>4. given' \in Seq(Options)
    BY DEF ConfigInv, ValuesInv
  <1>5. ValuesInv'
    BY <1>4 DEF ConfigInv, ValuesInv
  <1>6. AskedInv'
    BY <1>3 DEF AskedInv, Working
  <1>7. \A q \in Processes : place'[q] = "none" => level'[q] = None
    BY <1>1, <1>2 DEF ConfigInv, InForceInv, Processes
  <1>8. InForceInv'
    BY <1>3, <1>7 DEF InForceInv, Working
  <1> QED
    BY <1>5, <1>6, <1>8 DEF ConfigInv

\* An option that is read and changes no more than what it asks for.
LEMMA ReadConfig ==
  ASSUME LifeInv, ConfigInv, NEW p \in Processes, place[p] = "args",
         NEW o \in Options, given' = Append(given, o),
         UNCHANGED <<place, current, level, sigint>>,
         Asked', DOMAIN defaults' = DOMAIN ProgramDefaults,
         defaults'.threshold \in LOG_CRIT..LOG_DEBUG
  PROVE  ConfigInv'
  <1>1. p = "parent" /\ place["child"] = "none"
    BY ReadingAlone
  <1>2. given' \in Seq(Options)
    BY DEF ConfigInv, ValuesInv
  <1>3. ValuesInv'
    BY <1>2 DEF ConfigInv, ValuesInv
  <1>4. \A q \in Processes : place'[q] \in {"args", "none"} /\ level'[q] = None
    BY <1>1 DEF ConfigInv, InForceInv, Processes, Working
  <1>5. InForceInv'
    BY <1>4 DEF InForceInv
  <1> QED
    BY <1>3, <1>5 DEF ConfigInv, AskedInv

LEMMA ArgumentsConfig ==
  ASSUME LifeInv, ConfigInv, NEW p \in Processes, Arguments(p)
  PROVE  ConfigInv'
  <1>1. place[p] = "args" /\ UNCHANGED <<current, level, sigint>>
    BY DEF Arguments, Argument, Help, ArgDevice, ArgsEnd, logVars
  <1>2. Asked /\ ValuesInv
    BY <1>1 DEF ConfigInv, AskedInv, Working
  <1>3. CASE Argument(p)
    <2>1. PICK o \in Options :
            /\ o.name \notin {"cwdevice", "help"} /\ given' = Append(given, o)
            /\ IF Accepted(o)
               THEN defaults' = Applied(o) /\ UNCHANGED exitVars
               ELSE Exit(p, "failure", MessageTo(p, LOG_ERR)) /\ UNCHANGED defaults
      BY <1>3, Zenon DEF Argument
    <2>2. CASE Accepted(o)
      <3>1. Reads(o)
        BY <1>2, <2>1 DEF Reads, ValuesInv
      <3>2. /\ Asked' /\ DOMAIN defaults' = DOMAIN ProgramDefaults
            /\ defaults'.threshold \in LOG_CRIT..LOG_DEBUG
        BY <1>2, <2>1, <2>2, <3>1, ReadAsked
      <3>3. place' = place
        BY <2>1, <2>2 DEF exitVars
      <3> QED
        BY <1>1, <2>1, <3>2, <3>3, ReadConfig
    <2>3. CASE ~Accepted(o)
      BY <1>1, <2>1, <2>3, RefusedConfig
    <2> QED
      BY <2>2, <2>3
  <1>4. CASE Help(p)
    <2>1. PICK o \in Options : given' = Append(given, o)
      BY <1>4 DEF Help
    <2> QED
      BY <1>1, <1>4, <2>1, RefusedConfig DEF Help
  <1>5. CASE ArgDevice(p)
    <2>1. PICK o \in Options : o.name = "cwdevice" /\ given' = Append(given, o)
      BY <1>5 DEF ArgDevice
    <2>2. defaults' = defaults
          /\ (Exit(p, "failure", MessageTo(p, LOG_ERR)) \/ place' = place)
      BY <1>5 DEF ArgDevice, exitVars
    <2>3. CASE place' = place
      <3>1. Reads(o) /\ o.name = "cwdevice"
        BY <1>2, <2>1 DEF Reads, ValuesInv
      <3>2. /\ \A name \in Plain \cup {"flags", "threshold"} :
                 LastOf(name)' = LastOf(name)
            /\ Verbosity' = Verbosity
        BY <1>2, <3>1, ReadOthers DEF Plain
      <3>3. Asked'
        BY <1>2, <2>2, <3>2 DEF Asked
      <3> QED
        BY <1>1, <1>2, <2>1, <2>2, <2>3, <3>3, ReadConfig DEF ValuesInv
    <2> QED
      BY <1>1, <2>1, <2>2, <2>3, RefusedConfig
  <1>6. CASE ArgsEnd(p)
    <2>1. UNCHANGED <<given, defaults, current, level, sigint>>
          /\ (Advance(p) \/ Exit(p, "failure", MessageTo(p, LOG_ERR)))
      BY <1>6 DEF ArgsEnd, argVars, logVars
    <2>2. Quiet(p)
      BY <1>1, <2>1 DEF Quiet, Advance, Exit, LifeInv, TypeInv
    <2> QED
      BY <2>2, QuietConfig
  <1> QED
    BY <1>3, <1>4, <1>5, <1>6 DEF Arguments

\* The defaults are put into force.
LEMMA ResetConfig ==
  ASSUME LifeInv, ConfigInv, NEW p \in Processes, ResetAlmostAll(p)
  PROVE  ConfigInv'
  <1> USE DEF ConfigInv
  <1>1. /\ place[p] = "output" /\ UNCHANGED <<given, defaults, level, sigint>>
        /\ current' = [current EXCEPT ![p] = Copied(defaults)]
        /\ Advance(p) \/ \E status, said : Exit(p, status, said)
    BY DEF ResetAlmostAll, argVars, logVars
  <1>2. /\ place'[p] \in {"callback", "exiting"}
        /\ \A q \in Processes \ {p} : place'[q] = place[q]
    BY <1>1, NextStageOf DEF Advance, Exit, LifeInv, TypeInv
  <1>3. /\ current'[p] = Copied(defaults)
        /\ \A q \in Processes \ {p} : current'[q] = current[q]
        /\ DOMAIN current' = Processes
    BY <1>1 DEF ValuesInv
  <1>4. ValuesInv'
    BY <1>1, <1>3 DEF ValuesInv, Copied
  <1>5. AskedInv'
    BY <1>1, AskedSame DEF AskedInv, Working
  <1>6. InForceInv'
    <2> SUFFICES ASSUME NEW q \in Processes
                 PROVE
           /\ place'[q] \in {"callback", "loop"} => current'[q] = Copied(defaults)
           /\ place'[q] \in (Working \ {"loop"}) \cup {"none"} => level[q] = None
           /\ place'[q] = "loop"
                => level[q] = IF defaults.flags = 0 THEN None
                              ELSE LibcwLevel(defaults.threshold)
      BY <1>1 DEF InForceInv, Copied, LibcwLevel
    <2>1. CASE q # p
      BY <1>2, <1>3, <2>1 DEF InForceInv
    <2>2. CASE q = p
      BY <1>1, <1>2, <1>3, <2>2 DEF InForceInv, Working
    <2> QED
      BY <2>1, <2>2
  <1> QED
    BY <1>4, <1>5, <1>6

\* libcw's debug level follows the daemon's own threshold.
LEMMA EnterLoopConfig ==
  ASSUME LifeInv, ConfigInv, NEW p \in Processes, EnterLoop(p)
  PROVE  ConfigInv'
  <1> USE DEF ConfigInv
  <1>1. /\ place[p] = "callback" /\ UNCHANGED <<given, defaults, current, sigint>>
        /\ Advance(p)
        /\ level' = [level EXCEPT ![p] =
                       IF defaults.flags = 0 THEN @
                       ELSE LibcwLevel(current[p].threshold)]
    BY DEF EnterLoop, argVars
  <1>2. place'[p] = "loop" /\ \A q \in Processes \ {p} : place'[q] = place[q]
    BY <1>1, NextStageOf DEF Advance, LifeInv, TypeInv
  <1>3. /\ current[p] = Copied(defaults) /\ level[p] = None
        /\ current[p].threshold = defaults.threshold
    BY <1>1 DEF InForceInv, Copied, CurrentNames, Working
  <1>4. LibcwLevel(defaults.threshold) \in Levels
    BY LibcwLevelType
  <1>5. /\ level' \in [Processes -> Levels]
        /\ level'[p] = IF defaults.flags = 0 THEN None
                       ELSE LibcwLevel(defaults.threshold)
        /\ \A q \in Processes \ {p} : level'[q] = level[q]
    BY <1>1, <1>3, <1>4 DEF ValuesInv
  <1>6. ValuesInv'
    BY <1>1, <1>5 DEF ValuesInv
  <1>7. AskedInv'
    BY <1>1, AskedSame DEF AskedInv, Working
  <1>8. InForceInv'
    <2> SUFFICES ASSUME NEW q \in Processes
                 PROVE
           /\ place'[q] \in {"callback", "loop"} => current[q] = Copied(defaults)
           /\ place'[q] \in (Working \ {"loop"}) \cup {"none"} => level'[q] = None
           /\ place'[q] = "loop"
                => level'[q] = IF defaults.flags = 0 THEN None
                               ELSE LibcwLevel(defaults.threshold)
      BY <1>1 DEF InForceInv, Copied, LibcwLevel
    <2>1. CASE q # p
      BY <1>2, <1>5, <2>1 DEF InForceInv
    <2>2. CASE q = p
      BY <1>2, <1>3, <1>5, <2>2 DEF Working
    <2> QED
      BY <2>1, <2>2
  <1> QED
    BY <1>6, <1>7, <1>8

\* The child starts with what the parent has read.
LEMMA ForkConfig ==
  ASSUME LifeInv, ConfigInv, Fork
  PROVE  ConfigInv'
  <1> USE DEF ConfigInv
  <1>1. /\ place["parent"] = "fork" /\ place["child"] = "none"
        /\ UNCHANGED <<given, defaults, current, level, sigint>>
        /\ Asked
    BY DEF Fork, LifeInv, ForkInv, argVars, AskedInv, Working, Processes
  <1>2. place'["parent"] = "exiting" /\ place'["child"] \in {"none", "detach"}
    <2>1. place' = [parent |-> "exiting", child |-> "detach"]
            \/ Exit("parent", "failure", "stdout")
      BY DEF Fork
    <2> QED
      BY <1>1, <2>1 DEF Exit, LifeInv, TypeInv, Processes
  <1>3. ValuesInv'
    BY <1>1 DEF ValuesInv
  <1>4. AskedInv'
    BY <1>1, AskedSame DEF AskedInv
  <1>5. level["child"] = None
    BY <1>1 DEF InForceInv, Processes
  <1>6. \A q \in Processes : /\ place'[q] \in {"exiting", "none", "detach"}
                             /\ place'[q] # "exiting" => level'[q] = None
    BY <1>1, <1>2, <1>5 DEF Processes
  <1>7. InForceInv'
    BY <1>6 DEF InForceInv, Working
  <1> QED
    BY <1>3, <1>4, <1>7

LEMMA StartConfig ==
  ASSUME LifeInv, ConfigInv, NEW p \in Processes, Start(p)
  PROVE  ConfigInv'
  <1>1. CASE \/ InitDevices(p) \/ Foreground(p) \/ Detach(p) \/ CreateSocket(p)
             \/ BindSocket(p) \/ SetPriority(p)
    <2>1. /\ UNCHANGED <<given, defaults, current, level>>
          /\ sigint' \in {sigint, "caught"}
          /\ place[p] \in {"devices", "foreground", "detach", "socket", "bind",
                           "priority"}
          /\ Advance(p) \/ \E status, said : Exit(p, status, said)
      BY <1>1 DEF InitDevices, Foreground, Detach, CreateSocket, BindSocket,
                  SetPriority, argVars, logVars
    <2>2. Quiet(p)
      BY <2>1 DEF Quiet, Advance, Exit, LifeInv, TypeInv
    <2> QED
      BY <2>2, QuietConfig
  <1>2. CASE DebugOpen(p)
    <2>1. /\ place[p] = "debug"
          /\ UNCHANGED <<given, defaults, current, level, sigint>>
      BY <1>2, Zenon DEF DebugOpen, argVars
    <2>2. Preserved(p) /\ (place'[p] = "exiting" \/ place'[p] = NextStage("debug"))
      BY <1>2, DebugOpenPreserves DEF LifeInv
    <2>3. Quiet(p)
      BY <2>1, <2>2 DEF Quiet, Preserved, Alone
    <2> QED
      BY <2>3, QuietConfig
  <1> QED
    BY <1>1, <1>2, ArgumentsConfig, ResetConfig, EnterLoopConfig DEF Start

LEMMA EndConfig ==
  ASSUME LifeInv, ConfigInv, NEW p \in Processes,
         Exiting(p) \/ LoopExit(p) \/ CatchSigint(p)
  PROVE  ConfigInv'
  <1>1. CASE BeginHandler(p) \/ EndHandler(p)
    BY <1>1, QuietConfig
    DEF BeginHandler, EndHandler, Quiet, argVars, logVars
  <1>2. CASE Gone(p)
    BY <1>2, QuietConfig DEF Gone, Quiet, argVars, logVars, LifeInv, TypeInv
  <1>3. CASE FailHandler(p) \/ LoopExit(p) \/ CatchSigint(p)
    <2>1. /\ UNCHANGED <<given, defaults, current, level>>
          /\ sigint' \in {sigint, "blocked"}
          /\ \E status, said : Exit(p, status, said)
      BY <1>3 DEF FailHandler, LoopExit, CatchSigint, argVars, logVars
    <2>2. Quiet(p)
      BY <2>1 DEF Quiet, Exit, LifeInv, TypeInv
    <2> QED
      BY <2>2, QuietConfig
  <1> QED
    BY <1>1, <1>2, <1>3 DEF Exiting

LEMMA StepConfig == LifeInv /\ ConfigInv /\ [Next]_vars => ConfigInv'
  <1> SUFFICES ASSUME LifeInv, ConfigInv, [Next]_vars PROVE ConfigInv'
    OBVIOUS
  <1>1. CASE Terminated \/ UNCHANGED vars
    <2>1. UNCHANGED <<given, defaults, current, level, place, sigint>>
      BY <1>1 DEF Terminated, vars, argVars, logVars, exitVars
    <2>2. Quiet("parent")
      BY <2>1 DEF Quiet
    <2> QED
      BY <2>2, QuietConfig DEF Processes
  <1>2. CASE Fork
    BY <1>2, ForkConfig
  <1>3. ASSUME NEW p \in Processes, Step(p) \/ LoopExit(p) \/ CatchSigint(p)
        PROVE  ConfigInv'
    BY <1>3, StartConfig, EndConfig DEF Step
  <1> QED
    BY <1>1, <1>2, <1>3 DEF Next

LEMMA ConfigInvariant == Spec => []ConfigInv
  BY LifeInvariant, ConfigInit, StepConfig, PTL DEF Spec

-----------------------------------------------------------------------------
\* Every variable has its type, for every command line: in particular the
\* threshold stays one of syslog's priorities, however often -i is given.
THEOREM TypeCorrect == Spec => []TypeOK
  <1>1. LifeInv /\ ConfigInv => TypeOK
    BY HandlersDomain
    DEF LifeInv, TypeInv, ConfigInv, ValuesInv, TypeOK, Levels, Logs, Said
  <1> QED
    BY <1>1, LifeInvariant, ConfigInvariant, PTL

\* A daemon that serves has the values its command line asks for: the last
\* option of a name, the sum of -y and -i up to the limit, all in range; and
\* libcw is debugged exactly if flags were asked for.
THEOREM IsConfigured == Spec => []Configured
  <1>1. ASSUME LifeInv, ConfigInv, NEW p \in Processes, place[p] = "loop"
        PROVE  /\ \A name \in CurrentNames \ {"threshold"} :
                    current[p][name] = LastOf(name)
               /\ current[p].threshold = Verbosity
               /\ current[p].pttdelay \in 0..50
               /\ current[p].wpm \in SpeedMin..SpeedMax
               /\ defaults.port = LastOf("port")
    <2>1. Asked /\ current[p] = Copied(defaults)
      BY <1>1 DEF ConfigInv, AskedInv, InForceInv, Working
    <2> QED
      BY <2>1 DEF Asked, Copied, CurrentNames, Plain
  <1>2. ASSUME LifeInv, ConfigInv, NEW p \in Processes, place[p] = "loop"
        PROVE  level[p] = IF LastOf("flags") % FlagsSize = 0 THEN None
                          ELSE LibcwLevel(Verbosity)
    <2>1. Asked
      BY <1>2 DEF ConfigInv, AskedInv, Working
    <2>2. level[p] = IF defaults.flags = 0 THEN None
                     ELSE LibcwLevel(defaults.threshold)
      BY <1>2 DEF ConfigInv, InForceInv
    <2> QED
      BY <2>1, <2>2 DEF Asked
  <1>3. \A t \in LOG_CRIT..LOG_DEBUG :
          LibcwLevel(t) = CASE t = LOG_CRIT -> "none"
                            [] t = LOG_ERR -> "error"
                            [] t \in {LOG_WARNING, LOG_NOTICE} -> "warning"
                            [] t = LOG_INFO -> "info"
                            [] t = LOG_DEBUG -> "debug"
    BY DEF LibcwLevel, LOG_CRIT, LOG_ERR, LOG_WARNING, LOG_NOTICE, LOG_INFO,
           LOG_DEBUG
  <1>4. ConfigInv /\ (\E p \in Processes : place[p] = "loop")
          => Verbosity \in LOG_CRIT..LOG_DEBUG
    BY VerbosityRange DEF ConfigInv, ValuesInv, AskedInv, Asked, Working
  <1>5. LifeInv /\ ConfigInv => Configured
    BY <1>1, <1>2, <1>3, <1>4 DEF Configured
  <1> QED
    BY <1>5, LifeInvariant, ConfigInvariant, PTL
=============================================================================
