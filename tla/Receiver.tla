------------------------------ MODULE Receiver ------------------------------
(***************************************************************************)
(* The main loop and the socket it watches: how long select() waits, what  *)
(* cwdaemon_recvfrom() makes of a datagram, and the footswitch, which is   *)
(* polled once in a round.  The generator's thread takes part with the     *)
(* keying events, which reset the counter that decides on the wait.        *)
(*                                                                         *)
(* A datagram is a sequence of bytes; what is done with a request is in    *)
(* Keyer, CwDevice and Sound.                                              *)
(***************************************************************************)
EXTENDS Integers, Sequences, FiniteSets, FiniteSetsExt

CONSTANTS
  Datagrams,  \* what clients send
  MaxSent,    \* bound: datagrams in one behaviour
  SizeMax,    \* CWDAEMON_REQUEST_SIZE_MAX
  IdleRounds, \* 30: rounds of a second without keying before a long wait
  KeyEvents   \* bound: keying events of one text

Bytes == {"a", "esc", "cr", "lf", "nul"}
Eol == {"cr", "lf"}

ASSUME DatagramsAssumption == Datagrams \subseteq Seq(Bytes)
ASSUME BoundsAssumption ==
  /\ MaxSent \in Nat /\ SizeMax \in Nat \ {0} /\ IdleRounds \in Nat \ {0}
  /\ KeyEvents \in Nat

VARIABLES
  inbox,      \* datagrams the socket holds
  pc,         \* main thread: place in the loop
  timeout,    \* how long select() waits: "second" or "day"
  inactivity, \* inactivity_seconds
  reg,        \* main thread: the value loaded for inactivity_seconds++
  buf, n,     \* request_buffer and recv_rc
  keys,       \* keying events libcw has still to make
  foot, pin,  \* the footswitch is pressed; the PTT pin
  sent, handled, \* history: datagrams, requests
  quiet,      \* history: rounds since the last keying event
  lost        \* history: the reset by that event is undone by a store

loopVars == <<pc, timeout, inactivity, reg>>
bufVars  == <<buf, n>>
pinVars  == <<foot, pin>>
history  == <<sent, handled, quiet, lost>>
vars == <<inbox, loopVars, bufVars, keys, pinVars, history>>

\* The counter starts as if the daemon had been idle for hours.
Forever == IdleRounds + 1
Empty == [i \in 1..SizeMax + 1 |-> "nul"]

Init ==
  /\ inbox = <<>> /\ pc = "arm" /\ timeout = "second"
  /\ inactivity = Forever /\ reg = 0
  /\ buf = Empty /\ n = 0 /\ keys = 0
  /\ foot = FALSE /\ pin = FALSE
  /\ sent = <<>> /\ handled = <<>> /\ quiet = IdleRounds /\ lost = FALSE

-----------------------------------------------------------------------------
(***************************************************************************)
(* The rest of the world: clients, the operator's foot, libcw's thread.    *)
(***************************************************************************)
Send ==
  /\ Len(sent) < MaxSent
  /\ \E d \in Datagrams : inbox' = Append(inbox, d) /\ sent' = Append(sent, d)
  /\ UNCHANGED <<loopVars, bufVars, keys, pinVars, handled, quiet, lost>>

Foot ==
  /\ foot' = ~foot
  /\ UNCHANGED <<inbox, loopVars, bufVars, keys, pin, history>>

\* Mutant: an event too many.
KeyingEventMore ==
  /\ keys > -1
  /\ keys' = keys - 1 /\ quiet' = 0 /\ lost' = (pc = "store")
  /\ inactivity' = 0
  /\ UNCHANGED <<inbox, pc, timeout, reg, bufVars, pinVars, sent, handled>>

\* An event comes at any moment, also within inactivity_seconds++.
KeyingEvent ==
  /\ keys > 0
  /\ keys' = keys - 1 /\ quiet' = 0 /\ lost' = (pc = "store")
  /\ inactivity' = 0
  /\ UNCHANGED <<inbox, pc, timeout, reg, bufVars, pinVars, sent, handled>>

-----------------------------------------------------------------------------
(***************************************************************************)
(* select().                                                               *)
(***************************************************************************)
\* Mutant: the wait gets long one round too early.
ArmEarly ==
  /\ pc = "arm"
  /\ IF inactivity < IdleRounds - 1
     THEN timeout' = "second" /\ pc' = "load"
     ELSE timeout' = "day" /\ pc' = "select"
  /\ UNCHANGED <<inbox, inactivity, reg, bufVars, keys, pinVars, history>>

Arm ==
  /\ pc = "arm"
  /\ IF inactivity < IdleRounds
     THEN timeout' = "second" /\ pc' = "load"
     ELSE timeout' = "day" /\ pc' = "select"
  /\ UNCHANGED <<inbox, inactivity, reg, bufVars, keys, pinVars, history>>

\* inactivity_seconds++ is a load and a store.
LoadInactivity ==
  /\ pc = "load"
  /\ reg' = inactivity /\ pc' = "store"
  /\ UNCHANGED <<inbox, timeout, inactivity, bufVars, keys, pinVars, history>>

StoreInactivity ==
  /\ pc = "store"
  /\ inactivity' = reg + 1 /\ pc' = "select"
  /\ quiet' = IF quiet < IdleRounds THEN quiet + 1 ELSE quiet
  /\ UNCHANGED <<inbox, timeout, reg, bufVars, keys, pinVars, sent, handled,
                 lost>>

\* Mutant: the socket is not watched in the long wait.
SelectReadyDeaf ==
  /\ pc = "select" /\ inbox # <<>> /\ timeout = "second"
  /\ pc' = "receive"
  /\ UNCHANGED <<inbox, timeout, inactivity, reg, bufVars, keys, pinVars,
                 history>>

SelectReady ==
  /\ pc = "select" /\ inbox # <<>>
  /\ pc' = "receive"
  /\ UNCHANGED <<inbox, timeout, inactivity, reg, bufVars, keys, pinVars,
                 history>>

\* The wait is over, or a signal has interrupted it.
SelectTimeout ==
  /\ pc = "select" /\ inbox = <<>>
  /\ pc' = "receive"
  /\ UNCHANGED <<inbox, timeout, inactivity, reg, bufVars, keys, pinVars,
                 history>>

\* Another error than EINTR is reported, and the loop goes on.
SelectFails ==
  /\ pc = "select"
  /\ pc' = "footswitch"
  /\ UNCHANGED <<inbox, timeout, inactivity, reg, bufVars, keys, pinVars,
                 history>>

-----------------------------------------------------------------------------
(***************************************************************************)
(* cwdaemon_receive() and cwdaemon_recvfrom().                             *)
(***************************************************************************)
\* Mutant: with no request the round ends without the footswitch.
NoDataNoPoll ==
  /\ pc = "receive" /\ inbox = <<>>
  /\ pc' = "arm"
  /\ UNCHANGED <<inbox, timeout, inactivity, reg, bufVars, keys, pinVars,
                 history>>

\* EAGAIN.
NoData ==
  /\ pc = "receive" /\ inbox = <<>>
  /\ pc' = "footswitch"
  /\ UNCHANGED <<inbox, timeout, inactivity, reg, bufVars, keys, pinVars,
                 history>>

\* Another error ends the daemon.
ReceiveFails ==
  /\ pc = "receive"
  /\ pc' = "exited"
  /\ UNCHANGED <<inbox, timeout, inactivity, reg, bufVars, keys, pinVars,
                 history>>

\* recvfrom() cuts what does not fit; a datagram of length zero is not a
\* request.  The buffer is a new one, filled with zeros.
ReceiveData ==
  /\ pc = "receive" /\ inbox # <<>>
  /\ inbox' = Tail(inbox)
  /\ n' = Min({Len(Head(inbox)), SizeMax})
  /\ buf' = [i \in 1..SizeMax + 1 |-> IF i <= n' THEN Head(inbox)[i] ELSE "nul"]
  /\ pc' = IF n' = 0 THEN "footswitch" ELSE "strip"
  /\ UNCHANGED <<timeout, inactivity, reg, keys, pinVars, history>>

\* Mutant: one line end is removed, not all of them.
StripOne ==
  /\ pc = "strip"
  /\ IF buf[n] \in Eol
     THEN buf' = [buf EXCEPT ![n] = "nul"] /\ n' = n - 1
     ELSE UNCHANGED bufVars
  /\ pc' = IF n' > 0 THEN "handle" ELSE "footswitch"
  /\ UNCHANGED <<inbox, timeout, inactivity, reg, keys, pinVars, history>>

\* Line ends are removed from the end; nothing but line ends is no data.
Strip ==
  /\ pc = "strip"
  /\ IF n > 0 /\ buf[n] \in Eol
     THEN buf' = [buf EXCEPT ![n] = "nul"] /\ n' = n - 1 /\ UNCHANGED pc
     ELSE pc' = (IF n > 0 THEN "handle" ELSE "footswitch") /\ UNCHANGED bufVars
  /\ UNCHANGED <<inbox, timeout, inactivity, reg, keys, pinVars, history>>

\* The buffer is used as a C string from here on, and ends at its first NUL.
CString(b) == SubSeq(b, 1, Min({i \in DOMAIN b : b[i] = "nul"}) - 1)

\* A text that has something to play makes keying events later.
Handle ==
  /\ pc = "handle"
  /\ buf[n + 1] = "nul"
  /\ handled' = Append(handled, CString(buf))
  /\ keys' = IF buf[1] # "esc" /\ \E i \in DOMAIN CString(buf) : buf[i] = "a"
             THEN KeyEvents ELSE keys
  /\ pc' = "footswitch"
  /\ UNCHANGED <<inbox, timeout, inactivity, reg, bufVars, pinVars, sent, quiet,
                 lost>>

\* The PTT pin follows the footswitch.
Footswitch ==
  /\ pc = "footswitch"
  /\ pin' = foot /\ pc' = "arm"
  /\ UNCHANGED <<inbox, timeout, inactivity, reg, bufVars, keys, foot, history>>

-----------------------------------------------------------------------------
Select == SelectReady \/ SelectTimeout \/ SelectFails
Receive == NoData \/ ReceiveFails \/ ReceiveData \/ Strip \/ Handle
Loop == Arm \/ LoadInactivity \/ StoreInactivity \/ Select \/ Receive \/ Footswitch
Environment == Send \/ Foot \/ KeyingEvent

Next == Loop \/ Environment
Spec == Init /\ [][Next]_vars

\* The main thread runs; select() does not fail for ever, and returns when
\* there is a request, and after a second if that is what it waits for.
\* Nobody waits for a day.
FairSpec ==
  /\ Spec
  /\ WF_vars(Arm \/ LoadInactivity \/ StoreInactivity \/ Receive \/ Footswitch)
  /\ SF_vars(SelectReady)
  /\ WF_vars(SelectTimeout /\ timeout = "second")

-----------------------------------------------------------------------------
\* Type invariant: every variable has its type.
TypeOK ==
  /\ inbox \in Seq(Datagrams) /\ sent \in Seq(Datagrams)
  /\ pc \in {"arm", "load", "store", "select", "receive", "strip", "handle",
             "footswitch", "exited"}
  /\ timeout \in {"second", "day"}
  /\ inactivity \in 0..Forever /\ reg \in 0..IdleRounds
  /\ buf \in [1..SizeMax + 1 -> Bytes] /\ n \in 0..SizeMax
  /\ keys \in 0..KeyEvents
  /\ foot \in BOOLEAN /\ pin \in BOOLEAN
  /\ handled \in Seq(Seq(Bytes)) /\ quiet \in 0..IdleRounds
  /\ lost \in BOOLEAN

\* Reference: what is left of a datagram, and the request it makes.
Kept(d) == Max({0} \cup {i \in 1..Min({Len(d), SizeMax}) : d[i] \notin Eol})
Request(d) ==
  LET nuls == {i \in 1..Kept(d) : d[i] = "nul"}
  IN  SubSeq(d, 1, IF nuls = {} THEN Kept(d) ELSE Min(nuls) - 1)

\* Every datagram that is not empty after its line ends are removed makes
\* one request, in the order of arrival, cut to the size of the buffer and
\* at its first NUL; no request is made of anything else.
OncePerDatagram ==
  pc \notin {"strip", "handle"} =>
    LET done == Len(sent) - Len(inbox)
        real == {i \in 1..done : Kept(sent[i]) > 0}
    IN  /\ inbox = SubSeq(sent, done + 1, Len(sent))
        /\ \E source \in [DOMAIN handled -> real] :
             /\ \A i, j \in DOMAIN handled : i < j => source[i] < source[j]
             /\ \A k \in real : \E i \in DOMAIN handled : source[i] = k
             /\ \A i \in DOMAIN handled : handled[i] = Request(sent[source[i]])

\* However the two threads interleave, the daemon stops looking at the
\* footswitch only if nothing has been keyed for IdleRounds rounds, or if
\* the last keying event fell between the load and the store of
\* inactivity_seconds++, which is the one place where the code loses it.
LongWaitMeansQuiet ==
  [][pc = "arm" /\ pc' = "select" => quiet = IdleRounds \/ lost]_vars

\* A footswitch that is pressed while the daemon waits for a second at most
\* switches PTT on, whatever requests arrive meanwhile.
Watching == /\ pc = "select" => timeout = "second"
            /\ inactivity < IdleRounds
FootswitchFollowed == Watching /\ foot ~> pin \/ ~foot \/ pc = "exited"

\* A datagram is received soon, even in the long wait.
DatagramsReceived == inbox # <<>> ~> inbox = <<>> \/ pc = "exited"

=============================================================================
