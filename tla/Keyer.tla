------------------------------- MODULE Keyer -------------------------------
(***************************************************************************)
(* The keyer: cwdaemon's main thread, which receives requests and queues   *)
(* tones in libcw, and libcw's generator thread, which plays the tones and *)
(* calls cwdaemon_tone_queue_low_callback() when the queue runs low.       *)
(*                                                                         *)
(* Both threads read and write, with no lock, the PTT flag, the PTT pin,   *)
(* the text queue and the reply.  A step of this module is one access of   *)
(* one thread to that shared state; "pc" and "cb" say where each thread    *)
(* is.  ptt_flag |= X and ptt_flag &= ~X are a load and a store.           *)
(*                                                                         *)
(* Requests that only set parameters of the sound are not in this module.  *)
(* A definition marked "Mutant" is a plausible bug in the definition that  *)
(* follows it and is used by no action: the properties must tell the two   *)
(* apart.                                                                  *)
(***************************************************************************)
EXTENDS Integers, Sequences, FiniteSets

CONSTANTS
  Clients,        \* addresses requests come from
  Requests,       \* requests a client may send, [kind, arg, text]
  DefaultDelay,   \* g_default_ptt_delay_ms, from -t/--pttdelay
  DelayMax,       \* CWDAEMON_PTT_DELAY_MAX
  QueueSizeMax,   \* CWDAEMON_REQUEST_QUEUE_SIZE_MAX - 1
  RequestSizeMax, \* CWDAEMON_REQUEST_SIZE_MAX
  Capacity,       \* tones libcw's queue can hold
  HasFootswitch,  \* the keying device has a footswitch input (lp only)
  Preemptive,     \* FALSE: a thread runs only while the other one blocks
  MaxRequests,    \* bound: requests received in one behaviour
  None, Torn      \* no value; a text that is half overwritten

Kinds == {"text", "reply", "ptt", "delay", "tune", "abort", "reset",
          "wordmode", "exit"}

(***************************************************************************)
(* "e" and "t" are characters libcw plays, "bad" is one it does not play:  *)
(* 0xff, which is skipped, or one that cw_send_character() rejects.  "h"   *)
(* is the code that stays in front of the text of an <ESC>h request.       *)
(***************************************************************************)
Chars == {"e", "t", "h", "bad", "+", "~", "^", "*"}
Flags == {"AUTO", "MANUAL", "ECHO"}

ASSUME RequestsAssumption ==
  Requests \subseteq [kind : Kinds, arg : Nat, text : Seq(Chars)]
ASSUME BoundsAssumption ==
  /\ DefaultDelay \in Nat /\ DelayMax \in Nat \ {0} /\ DefaultDelay <= DelayMax
  /\ QueueSizeMax \in Nat /\ Capacity \in Nat /\ MaxRequests \in Nat
\* recvfrom() cuts a request; <ESC> and "h" come before the text of <ESC>h.
ASSUME SizesAssumption ==
  /\ RequestSizeMax \in Nat \ {0}
  /\ \A r \in Requests :
       /\ Len(r.text) <= RequestSizeMax
       /\ r.kind = "reply" => Len(r.text) + 2 <= RequestSizeMax
ASSUME ModesAssumption == HasFootswitch \in BOOLEAN /\ Preemptive \in BOOLEAN
\* A tune is ten seconds at most, and libcw's queue has room for thousands of
\* tones: for those of the tune, the three of "e", and what the callback of the
\* text before may add after <ESC>c has emptied the queue.
ASSUME RoomAssumption ==
  \A r \in Requests : r.kind = "tune" => r.arg + 6 <= Capacity
ASSUME NoneAssumption ==
  None \notin Clients /\ None \notin [client : Clients, text : Seq(Chars)]

VARIABLES
  ptt_flag,       \* the bits PTT_ACTIVE_* that are set
  ptt_pin,        \* state of the PTT pin: TRUE is ON
  delay,          \* g_current_ptt_delay_ms
  wordmode,
  request_queue,  \* the text being played
  x,              \* cwdaemon_play_request()'s cursor into it, from 1
  gap,            \* cw_get_gap()
  tq, tone,       \* libcw's tone queue, and the tone being played
  reply_addr, reply_buffer,
  asked,          \* history: the reply a client waits for, or None
  pc, ret, reg,   \* main thread: place, place to return to, loaded flag
  req, from, received, \* the request being handled, its sender, a count
  cb, cbreg       \* generator thread: place, loaded flag

pttVars   == <<ptt_flag, ptt_pin>>
modeVars  == <<delay, wordmode>>
textVars  == <<request_queue, x, gap>>
toneVars  == <<tq, tone>>
replyVars == <<reply_addr, reply_buffer, asked>>
mainVars  == <<pc, ret, reg>>
reqVars   == <<req, from, received>>
genVars   == <<cb, cbreg>>
vars == <<pttVars, modeVars, textVars, toneVars, replyVars, mainVars,
          reqVars, genVars>>

\* Mutant: the callback is called one tone earlier.
WatermarkTwo == 2
tq_low_watermark == 1

(***************************************************************************)
(* What libcw queues for a character, and the queueing itself, which fails *)
(* with no effect (and with no check by cwdaemon) when the queue is full.  *)
(***************************************************************************)
Morse == <<"mark", "space", "space">>
Enqueue(q, tones) == IF Len(q) + Len(tones) <= Capacity THEN q \o tones ELSE q

(***************************************************************************)
(* Scheduling.  With Preemptive the steps of the threads interleave in any *)
(* way.  Without it the main thread runs only when no callback is running, *)
(* and the generator only while the main thread blocks: in select(), in    *)
(* millisleep_nonintr() and in cw_wait_for_tone_queue().                   *)
(***************************************************************************)
Blocking  == {"select", "sleep", "wait"}
Stopped   == pc \in {"exited", "aborted"}
MainAt(l) == pc = l /\ (Preemptive \/ cb = "play")
GenAt(l)  == cb = l /\ ~Stopped /\ (Preemptive \/ pc \in Blocking)

Init ==
  /\ ptt_flag = {} /\ ptt_pin = FALSE
  /\ delay = DefaultDelay /\ wordmode = FALSE
  /\ request_queue = <<>> /\ x = 1 /\ gap = 0
  /\ tq = <<>> /\ tone = "none"
  /\ reply_addr = None /\ reply_buffer = [text |-> <<>>, crlf |-> 0]
  /\ asked = None
  /\ pc = "select" /\ ret = "loop" /\ reg = None
  /\ req = None /\ from = None /\ received = 0
  /\ cb = "play" /\ cbreg = None

-----------------------------------------------------------------------------
(***************************************************************************)
(* The main loop: select(), cwdaemon_receive(), the footswitch.            *)
(***************************************************************************)
\* A text is appended to the queue and played from the queue's beginning.
Receive ==
  /\ MainAt("select") /\ received < MaxRequests
  /\ received' = received + 1
  /\ from' \in Clients
  /\ req' \in Requests
  /\ IF req'.kind = "text"
     THEN IF Len(request_queue) + Len(req'.text) <= QueueSizeMax
          THEN /\ request_queue' = request_queue \o req'.text
               /\ x' = 1 /\ pc' = "text"
          ELSE pc' = "loop" /\ UNCHANGED <<request_queue, x>>
     ELSE pc' = req'.kind /\ UNCHANGED <<request_queue, x>>
  /\ ret' = "loop"
  /\ UNCHANGED <<pttVars, modeVars, gap, toneVars, replyVars, reg, genVars>>

\* select() returns with no request after 1 s or a day.
SelectTimeout ==
  /\ MainAt("select")
  /\ pc' = IF HasFootswitch THEN "loop" ELSE "select"
  /\ UNCHANGED <<pttVars, modeVars, textVars, toneVars, replyVars, ret, reg,
                 reqVars, genVars>>

\* The PTT pin follows the footswitch, whatever the PTT flag says.
Footswitch ==
  /\ MainAt("loop")
  /\ pc' = "select"
  /\ ptt_pin' \in IF HasFootswitch THEN BOOLEAN ELSE {ptt_pin}
  /\ req' = None /\ from' = None /\ ret' = "loop"
  /\ UNCHANGED <<ptt_flag, modeVars, textVars, toneVars, replyVars, reg,
                 received, genVars>>

-----------------------------------------------------------------------------
(***************************************************************************)
(* ptt_flag |= X and ptt_flag &= ~X in the main thread: a load, a store.   *)
(***************************************************************************)
Updates == {"auto", "reply", "manual", "unmanual", "reauto"}

\* Mutant: "=" for "&=".
UpdatedUnmasked(l, f) ==
  CASE l \in {"auto", "reauto"} -> f \cup {"AUTO"}
    [] l = "reply"              -> f \cup {"ECHO"}
    [] l = "manual"             -> f \cup {"MANUAL"}
    [] OTHER                    -> {}

Updated(l, f) ==
  CASE l \in {"auto", "reauto"} -> f \cup {"AUTO"}
    [] l = "reply"              -> f \cup {"ECHO"}
    [] l = "manual"             -> f \cup {"MANUAL"}
    [] l = "unmanual"           -> f \ {"MANUAL"}
    [] OTHER                    -> f

AfterUpdate(l) ==
  CASE l = "auto"     -> ret
    [] l = "reply"    -> "addr"
    [] l = "unmanual" -> "release"
    [] OTHER          -> "loop"

LoadFlag ==
  /\ pc \in Updates /\ MainAt(pc) /\ reg = None
  /\ reg' = ptt_flag
  /\ UNCHANGED <<pttVars, modeVars, textVars, toneVars, replyVars, pc, ret,
                 reqVars, genVars>>

StoreFlag ==
  /\ pc \in Updates /\ MainAt(pc) /\ reg # None
  /\ ptt_flag' = Updated(pc, reg)
  /\ reg' = None
  /\ pc' = AfterUpdate(pc)
  /\ UNCHANGED <<ptt_pin, modeVars, textVars, toneVars, replyVars, ret,
                 reqVars, genVars>>

-----------------------------------------------------------------------------
(***************************************************************************)
(* cwdaemon_set_ptt_on() and cwdaemon_set_ptt_off(): called with "ret"     *)
(* set, they go back there.                                                *)
(***************************************************************************)
\* Mutant: any flag, not AUTO, keeps PTT from being switched on.
PttOnIfNoFlag ==
  /\ MainAt("ptt_on")
  /\ IF delay # 0 /\ ptt_flag = {}
     THEN ptt_pin' = TRUE /\ pc' = "sleep"
     ELSE pc' = ret /\ UNCHANGED ptt_pin
  /\ UNCHANGED <<ptt_flag, modeVars, textVars, toneVars, replyVars, ret, reg,
                 reqVars, genVars>>

PttOn ==
  /\ MainAt("ptt_on")
  /\ IF delay # 0 /\ "AUTO" \notin ptt_flag
     THEN ptt_pin' = TRUE /\ pc' = "sleep"
     ELSE pc' = ret /\ UNCHANGED ptt_pin
  /\ UNCHANGED <<ptt_flag, modeVars, textVars, toneVars, replyVars, ret, reg,
                 reqVars, genVars>>

PttSleep ==
  /\ MainAt("sleep")
  /\ pc' = "auto"
  /\ UNCHANGED <<pttVars, modeVars, textVars, toneVars, replyVars, ret, reg,
                 reqVars, genVars>>

PttOffPin ==
  /\ MainAt("off_pin")
  /\ ptt_pin' = FALSE /\ pc' = "off_flag"
  /\ UNCHANGED <<ptt_flag, modeVars, textVars, toneVars, replyVars, ret, reg,
                 reqVars, genVars>>

PttOffFlag ==
  /\ MainAt("off_flag")
  /\ ptt_flag' = {} /\ pc' = ret
  /\ UNCHANGED <<ptt_pin, modeVars, textVars, toneVars, replyVars, ret, reg,
                 reqVars, genVars>>

-----------------------------------------------------------------------------
(***************************************************************************)
(* cwdaemon_play_request(): one pass of the loop per step, two for a       *)
(* character that is played.                                               *)
(***************************************************************************)
AtText(c) == MainAt("text") /\ x <= Len(request_queue) /\ request_queue[x] = c

\* Mutant: the queue is rewound and not emptied.
EndOfTextKept ==
  /\ MainAt("text") /\ x > Len(request_queue)
  /\ x' = 1 /\ pc' = "loop"
  /\ UNCHANGED <<pttVars, modeVars, request_queue, gap, toneVars, replyVars,
                 ret, reg, reqVars, genVars>>

EndOfText ==
  /\ MainAt("text") /\ x > Len(request_queue)
  /\ request_queue' = <<>> /\ x' = 1 /\ pc' = "loop"
  /\ UNCHANGED <<pttVars, modeVars, gap, toneVars, replyVars, ret, reg,
                 reqVars, genVars>>

\* "+" and "-": the speed changes, which this module does not model.
Speed ==
  /\ AtText("+")
  /\ x' = x + 1
  /\ UNCHANGED <<pttVars, modeVars, request_queue, gap, toneVars, replyVars,
                 mainVars, reqVars, genVars>>

Tilde ==
  /\ AtText("~")
  /\ gap' = 2 /\ x' = x + 1
  /\ UNCHANGED <<pttVars, modeVars, request_queue, toneVars, replyVars,
                 mainVars, reqVars, genVars>>

\* Mutant: the caret is part of the reply.
CaretKept ==
  /\ AtText("^")
  /\ request_queue' = SubSeq(request_queue, 1, x)
  /\ pc' = "reply" /\ ret' = "text"
  /\ UNCHANGED <<pttVars, modeVars, x, gap, toneVars, replyVars, reg,
                 reqVars, genVars>>

\* The text up to the caret is the reply; what follows the caret is dropped.
Caret ==
  /\ AtText("^")
  /\ request_queue' = SubSeq(request_queue, 1, x - 1)
  /\ pc' = "reply" /\ ret' = "text"
  /\ UNCHANGED <<pttVars, modeVars, x, gap, toneVars, replyVars, reg,
                 reqVars, genVars>>

\* "*" is replaced in the text and then played like any other character.
Character ==
  /\ \E c \in Chars \ {"+", "~", "^"} :
       /\ AtText(c)
       /\ request_queue' = IF c = "*" THEN [request_queue EXCEPT ![x] = "+"]
                                      ELSE request_queue
  /\ pc' = "ptt_on" /\ ret' = "send"
  /\ UNCHANGED <<pttVars, modeVars, x, gap, toneVars, replyVars, reg,
                 reqVars, genVars>>

\* cw_send_character(); with the gap of "~" a following caret is skipped.
CaretIsNext == x < Len(request_queue) /\ request_queue[x + 1] = "^"
Send ==
  /\ MainAt("send")
  /\ tq' = IF request_queue[x] = "bad" THEN tq ELSE Enqueue(tq, Morse)
  /\ x' = IF gap = 2 /\ CaretIsNext THEN x + 2 ELSE x + 1
  /\ gap' = IF gap = 2 /\ ~CaretIsNext THEN 0 ELSE gap
  /\ pc' = "text"
  /\ UNCHANGED <<pttVars, modeVars, request_queue, tone, replyVars, ret, reg,
                 reqVars, genVars>>

-----------------------------------------------------------------------------
(***************************************************************************)
(* cwdaemon_prepare_reply(): the flag (LoadFlag and StoreFlag at "reply"), *)
(* then the address, then the text, which is not copied in one step.       *)
(***************************************************************************)
ReplySizeMax == RequestSizeMax + 1
ReplyText == IF req.kind = "reply" THEN <<"h">> \o req.text ELSE request_queue

\* Mutant: only the first client's address is kept.
ReplyAddrFirst ==
  /\ MainAt("addr")
  /\ reply_addr' = IF reply_addr = None THEN from ELSE reply_addr
  /\ asked' = [client |-> from, text |-> ReplyText]
  /\ pc' = "copy"
  /\ UNCHANGED <<pttVars, modeVars, textVars, toneVars, reply_buffer, ret, reg,
                 reqVars, genVars>>

ReplyAddr ==
  /\ MainAt("addr")
  /\ reply_addr' = from
  /\ asked' = [client |-> from, text |-> ReplyText]
  /\ pc' = "copy"
  /\ UNCHANGED <<pttVars, modeVars, textVars, toneVars, reply_buffer, ret, reg,
                 reqVars, genVars>>

ReplyCopy ==
  /\ MainAt("copy")
  /\ reply_buffer' = [reply_buffer EXCEPT !.text = Torn]
  /\ pc' = "copied"
  /\ UNCHANGED <<pttVars, modeVars, textVars, toneVars, reply_addr, asked, ret,
                 reg, reqVars, genVars>>

\* Mutant: the length is not reset to that of the new text.
ReplyCopiedLonger ==
  /\ MainAt("copied")
  /\ reply_buffer' = [reply_buffer EXCEPT !.text = ReplyText]
  /\ pc' = ret
  /\ UNCHANGED <<pttVars, modeVars, textVars, toneVars, reply_addr, asked, ret,
                 reg, reqVars, genVars>>

ReplyCopied ==
  /\ MainAt("copied")
  /\ reply_buffer' = [text |-> ReplyText, crlf |-> 0]
  /\ pc' = ret
  /\ UNCHANGED <<pttVars, modeVars, textVars, toneVars, reply_addr, asked, ret,
                 reg, reqVars, genVars>>

-----------------------------------------------------------------------------
(***************************************************************************)
(* Escape requests.                                                        *)
(***************************************************************************)
\* <ESC>a: PTT on request.
PttRequest ==
  /\ MainAt("ptt")
  /\ IF req.arg # 0
     THEN pc' = "ptt_on" /\ ret' = "manual"
     ELSE /\ pc' = IF "MANUAL" \in ptt_flag THEN "unmanual" ELSE "loop"
          /\ UNCHANGED ret
  /\ UNCHANGED <<pttVars, modeVars, textVars, toneVars, replyVars, reg,
                 reqVars, genVars>>

\* Mutant: PTT is switched off although tones are left.
PttReleaseNow ==
  /\ MainAt("release")
  /\ pc' = IF request_queue = <<>> THEN "off_pin" ELSE "reauto"
  /\ UNCHANGED <<pttVars, modeVars, textVars, toneVars, replyVars, ret, reg,
                 reqVars, genVars>>

\* The test of the other flags, !(ptt_flag & !PTT_ACTIVE_AUTO), is always true.
PttRelease ==
  /\ MainAt("release")
  /\ pc' = IF request_queue = <<>> /\ Len(tq) <= 1 THEN "off_pin" ELSE "reauto"
  /\ UNCHANGED <<pttVars, modeVars, textVars, toneVars, replyVars, ret, reg,
                 reqVars, genVars>>

\* Mutant: an unclipped PTT delay.
Unclipped(d) == d
Clipped(d) == IF d > DelayMax THEN DelayMax ELSE d

\* Mutant: zero does not switch PTT off.
SetDelayOnly ==
  /\ MainAt("delay")
  /\ delay' = Clipped(req.arg) /\ pc' = "loop"
  /\ UNCHANGED <<pttVars, wordmode, textVars, toneVars, replyVars, ret, reg,
                 reqVars, genVars>>

\* <ESC>d: values above the maximum are clipped, zero switches PTT off.
SetDelay ==
  /\ MainAt("delay")
  /\ delay' = Clipped(req.arg)
  /\ pc' = IF delay' = 0 THEN "off_pin" ELSE "loop"
  /\ UNCHANGED <<pttVars, wordmode, textVars, toneVars, replyVars, ret, reg,
                 reqVars, genVars>>

\* <ESC>c: what was queued is dropped, in word mode too.
Tune ==
  /\ MainAt("tune")
  /\ IF req.arg = 0
     THEN pc' = "loop" /\ UNCHANGED <<ret, tq>>
     ELSE tq' = <<>> /\ pc' = "ptt_on" /\ ret' = "tones"
  /\ UNCHANGED <<pttVars, modeVars, textVars, tone, replyVars, reg,
                 reqVars, genVars>>

\* A tone per second, then the character "e".
TuneTones ==
  /\ MainAt("tones")
  /\ tq' = Enqueue(Enqueue(tq, [i \in 1..req.arg |-> "mark"]), Morse)
  /\ pc' = "loop"
  /\ UNCHANGED <<pttVars, modeVars, textVars, tone, replyVars, ret, reg,
                 reqVars, genVars>>

\* <ESC>4: "break" is sent to the client that waits for a reply.
Abort ==
  /\ MainAt("abort")
  /\ pc' = IF wordmode THEN "loop" ELSE "flush"
  /\ asked' = IF ~wordmode /\ "ECHO" \in ptt_flag THEN None ELSE asked
  /\ UNCHANGED <<pttVars, modeVars, textVars, toneVars, reply_addr,
                 reply_buffer, ret, reg, reqVars, genVars>>

AbortFlush ==
  /\ MainAt("flush")
  /\ request_queue' = <<>> /\ tq' = <<>>
  /\ pc' = "wait"
  /\ UNCHANGED <<pttVars, modeVars, x, gap, tone, replyVars, ret, reg,
                 reqVars, genVars>>

\* Mutant: the tone being played is not waited for.
AbortNoWait ==
  /\ MainAt("wait")
  /\ pc' = IF ptt_flag # {} THEN "off_pin" ELSE "clear"
  /\ ret' = "clear"
  /\ UNCHANGED <<pttVars, modeVars, textVars, toneVars, replyVars, reg,
                 reqVars, genVars>>

AbortWait ==
  /\ MainAt("wait")
  /\ tq = <<>> /\ tone = "none"
  /\ pc' = IF ptt_flag # {} THEN "off_pin" ELSE "clear"
  /\ ret' = "clear"
  /\ UNCHANGED <<pttVars, modeVars, textVars, toneVars, replyVars, reg,
                 reqVars, genVars>>

AbortClear ==
  /\ MainAt("clear")
  /\ ptt_flag' = {} /\ pc' = "loop"
  /\ UNCHANGED <<ptt_pin, modeVars, textVars, toneVars, replyVars, ret, reg,
                 reqVars, genVars>>

\* <ESC>6
WordMode ==
  /\ MainAt("wordmode")
  /\ request_queue' = <<>> /\ wordmode' = TRUE /\ pc' = "loop"
  /\ UNCHANGED <<pttVars, delay, x, gap, toneVars, replyVars, ret, reg,
                 reqVars, genVars>>

\* <ESC>0: the parameters first, then the generator is stopped and replaced.
Reset ==
  /\ MainAt("reset")
  /\ request_queue' = <<>> /\ delay' = DefaultDelay
  /\ pc' = "reopen"
  /\ UNCHANGED <<pttVars, wordmode, x, gap, toneVars, replyVars, ret, reg,
                 reqVars, genVars>>

\* Stopping the generator waits for the callback to return; the new one has
\* nothing to play, so what follows in the handler is not interleaved.
ResetReopen ==
  /\ MainAt("reopen") /\ cb = "play"
  /\ tq' = <<>> /\ tone' = "none" /\ gap' = 0
  /\ wordmode' = FALSE
  /\ ptt_pin' = FALSE /\ ptt_flag' = {}
  /\ asked' = None
  /\ pc' = "loop"
  /\ UNCHANGED <<delay, request_queue, x, reply_addr, reply_buffer, ret, reg,
                 reqVars, genVars>>

\* <ESC>5: exit(), whose handlers stop the generator and reset the pins.
Exit ==
  /\ MainAt("exit") /\ cb = "play"
  /\ tq' = <<>> /\ tone' = "none" /\ ptt_pin' = FALSE
  /\ pc' = "exited"
  /\ UNCHANGED <<ptt_flag, modeVars, textVars, replyVars, ret, reg, reqVars,
                 genVars>>

-----------------------------------------------------------------------------
(***************************************************************************)
(* The generator thread.  The callback is called between taking a tone     *)
(* from the queue and playing it, when the queue's length has just fallen  *)
(* to the watermark.                                                       *)
(***************************************************************************)
NextTone ==
  /\ GenAt("play") /\ tq # <<>>
  /\ tone' = Head(tq) /\ tq' = Tail(tq)
  /\ cb' = IF Len(tq) = tq_low_watermark + 1 THEN "check" ELSE "play"
  /\ UNCHANGED <<pttVars, modeVars, textVars, replyVars, mainVars, reqVars,
                 cbreg>>

Silence ==
  /\ GenAt("play") /\ tq = <<>> /\ tone # "none"
  /\ tone' = "none"
  /\ UNCHANGED <<pttVars, modeVars, textVars, tq, replyVars, mainVars, reqVars,
                 genVars>>

\* Mutant: a pending reply does not keep branch 1 from being taken.
CbCheckAny ==
  /\ GenAt("check")
  /\ cb' = IF /\ "AUTO" \in ptt_flag /\ request_queue = <<>>
              /\ Len(tq) <= tq_low_watermark
           THEN "off_pin" ELSE "check_echo"
  /\ UNCHANGED <<pttVars, modeVars, textVars, toneVars, replyVars, mainVars,
                 reqVars, cbreg>>

\* Branch 1: only AUTO is set and nothing is left to play.
CbCheck ==
  /\ GenAt("check")
  /\ cb' = IF /\ ptt_flag = {"AUTO"} /\ request_queue = <<>>
              /\ Len(tq) <= tq_low_watermark
           THEN "off_pin" ELSE "check_echo"
  /\ UNCHANGED <<pttVars, modeVars, textVars, toneVars, replyVars, mainVars,
                 reqVars, cbreg>>

CbOffPin ==
  /\ GenAt("off_pin")
  /\ ptt_pin' = FALSE /\ cb' = "off_flag"
  /\ UNCHANGED <<ptt_flag, modeVars, textVars, toneVars, replyVars, mainVars,
                 reqVars, cbreg>>

CbOffFlag ==
  /\ GenAt("off_flag")
  /\ ptt_flag' = {} /\ cb' = "play"
  /\ UNCHANGED <<ptt_pin, modeVars, textVars, toneVars, replyVars, mainVars,
                 reqVars, cbreg>>

\* Mutant: a reply is due only if no other flag is set.
CbCheckEchoOnly ==
  /\ GenAt("check_echo")
  /\ cb' = IF ptt_flag = {"ECHO"} THEN "load" ELSE "play"
  /\ UNCHANGED <<pttVars, modeVars, textVars, toneVars, replyVars, mainVars,
                 reqVars, cbreg>>

\* Branch 2, a reply is due; otherwise branch 3, which does nothing.
CbCheckEcho ==
  /\ GenAt("check_echo")
  /\ cb' = IF "ECHO" \in ptt_flag THEN "load" ELSE "play"
  /\ UNCHANGED <<pttVars, modeVars, textVars, toneVars, replyVars, mainVars,
                 reqVars, cbreg>>

CbLoadFlag ==
  /\ GenAt("load")
  /\ cbreg' = ptt_flag /\ cb' = "store"
  /\ UNCHANGED <<pttVars, modeVars, textVars, toneVars, replyVars, mainVars,
                 reqVars>>

CbStoreFlag ==
  /\ GenAt("store")
  /\ ptt_flag' = cbreg \ {"ECHO"}
  /\ cbreg' = None /\ cb' = "crlf"
  /\ UNCHANGED <<ptt_pin, modeVars, textVars, toneVars, replyVars, mainVars,
                 reqVars>>

\* CRLF is appended to whatever the buffer holds; 2 stands for "two or more".
CbCrlf ==
  /\ GenAt("crlf")
  /\ reply_buffer' = [reply_buffer EXCEPT !.crlf = IF @ = 0 THEN 1 ELSE 2]
  /\ cb' = "send"
  /\ UNCHANGED <<pttVars, modeVars, textVars, toneVars, reply_addr, asked,
                 mainVars, reqVars, cbreg>>

\* cwdaemon_sendto() aborts the program if the reply does not end in CRLF.
CbSend ==
  /\ GenAt("send")
  /\ IF reply_buffer.crlf = 0
     THEN pc' = "aborted" /\ UNCHANGED <<asked, cb>>
     ELSE asked' = None /\ cb' = "requeue" /\ UNCHANGED pc
  /\ UNCHANGED <<pttVars, modeVars, textVars, toneVars, reply_addr,
                 reply_buffer, ret, reg, reqVars, cbreg>>

\* Mutant: the callback is not called again.
CbNoRequeue ==
  /\ GenAt("requeue")
  /\ cb' = "play"
  /\ UNCHANGED <<pttVars, modeVars, textVars, toneVars, replyVars, mainVars,
                 reqVars, cbreg>>

\* Two more tones, so that the callback is called again and ends the PTT.
CbRequeue ==
  /\ GenAt("requeue")
  /\ tq' = IF ptt_flag = {"AUTO"}
           THEN Enqueue(Enqueue(tq, <<"space">>), <<"space">>) ELSE tq
  /\ cb' = "play"
  /\ UNCHANGED <<pttVars, modeVars, textVars, tone, replyVars, mainVars,
                 reqVars, cbreg>>

-----------------------------------------------------------------------------
Terminated == Stopped /\ UNCHANGED vars

Text == \/ EndOfText \/ Speed \/ Tilde \/ Caret \/ Character \/ Send
Reply == \/ ReplyAddr \/ ReplyCopy \/ ReplyCopied
PttOnOff == \/ PttOn \/ PttSleep \/ PttOffPin \/ PttOffFlag
Escape == \/ PttRequest \/ PttRelease \/ SetDelay \/ Tune \/ TuneTones
          \/ Abort \/ AbortFlush \/ AbortWait \/ AbortClear \/ WordMode
          \/ Reset \/ ResetReopen \/ Exit

Handler == \/ Footswitch \/ LoadFlag \/ StoreFlag \/ PttOnOff \/ Text
           \/ Reply \/ Escape
Callback == \/ CbCheck \/ CbOffPin \/ CbOffFlag \/ CbCheckEcho
            \/ CbLoadFlag \/ CbStoreFlag \/ CbCrlf \/ CbSend \/ CbRequeue
Generator == NextTone \/ Silence \/ Callback

Next == Receive \/ SelectTimeout \/ Handler \/ Generator \/ Terminated

Spec == Init /\ [][Next]_vars

\* Each thread runs; no client has to send anything.  The generator's fairness
\* is strong as its thread has, without Preemptive, only the time the main
\* thread spends in select(), which with a footswitch is a second at a time.
FairSpec == Spec /\ WF_vars(Handler) /\ SF_vars(Generator)

-----------------------------------------------------------------------------
Labels == {"select", "loop", "text", "send", "addr", "copy", "copied",
           "ptt_on", "sleep", "off_pin", "off_flag", "ptt", "release",
           "delay", "tune", "tones", "abort", "flush", "wait", "clear",
           "wordmode", "reset", "reopen", "exit", "exited", "aborted"}
          \cup Updates
CbLabels == {"play", "check", "off_pin", "off_flag", "check_echo", "load",
             "store", "crlf", "send", "requeue"}

\* Type invariant: every variable has its type.
TypeOK ==
  /\ ptt_flag \in SUBSET Flags /\ ptt_pin \in BOOLEAN
  /\ delay \in 0..DelayMax /\ wordmode \in BOOLEAN
  /\ request_queue \in Seq(Chars) /\ x \in Nat \ {0} /\ gap \in {0, 2}
  /\ tq \in Seq({"mark", "space"}) /\ tone \in {"mark", "space", "none"}
  /\ reply_addr \in Clients \cup {None}
  /\ reply_buffer \in [text : Seq(Chars) \cup {Torn}, crlf : 0..2]
  /\ asked \in [client : Clients, text : Seq(Chars)]
               \cup {None}
  /\ pc \in Labels /\ ret \in {"loop", "text", "send", "manual", "tones",
                               "clear"}
  /\ reg \in (SUBSET Flags) \cup {None}
  /\ req \in Requests \cup {None} /\ from \in Clients \cup {None}
  /\ received \in 0..MaxRequests
  /\ cb \in CbLabels /\ cbreg \in (SUBSET Flags) \cup {None}

-----------------------------------------------------------------------------
(***************************************************************************)
(* Safety.  Names of properties are used by the configurations.            *)
(***************************************************************************)
Idle == pc \in {"select", "loop"}

\* Between requests the text queue is empty: cwdaemon_receive() always
\* appends to nothing, whatever the callback does in the meantime, so its
\* branch for a full queue is never taken for a request that fits in it.
RequestQueueIdle == Idle => request_queue = <<>>

\* With PTT delay zero the daemon never leaves PTT on between two requests:
\* <ESC>d0 and <ESC>0 switch off what an earlier, non-zero delay switched on,
\* and no interleaving with the callback switches it on again.
ZeroDelayNoPtt == ~HasFootswitch /\ Idle /\ delay = 0 => ~ptt_pin

\* The reply the callback sends is the one asked for last: its text, its
\* client, one CRLF.
ReplyCorrect ==
  cb = "send" => /\ asked # None
                 /\ reply_addr = asked.client
                 /\ reply_buffer = [text |-> asked.text, crlf |-> 1]

\* The longest reply and its CRLF fit in the reply buffer, which is one byte
\* larger than a request and into which nothing checks the copy.
ReplyFits ==
  reply_buffer.text # Torn => Len(reply_buffer.text) + 2 <= ReplySizeMax

\* A reply is sent after the last mark of the text has been keyed.
EchoAfterPlaying ==
  cb = "send" => tone # "mark" /\ \A i \in 1..Len(tq) : tq[i] # "mark"

\* When <ESC>4 has waited for the queue, no mark is played or left to play.
AbortSilences ==
  pc = "clear" => tone # "mark" /\ \A i \in 1..Len(tq) : tq[i] # "mark"

(***************************************************************************)
(* Liveness, with the fairness of FairSpec.                                *)
(***************************************************************************)
\* The ECHO flag does not outlive the tones that are in the queue.
EchoConsumed ==
  "ECHO" \in ptt_flag /\ Len(tq) > tq_low_watermark
    ~> "ECHO" \notin ptt_flag \/ Stopped

\* A client that asked for a reply to a text being keyed is answered.
ReplyDelivered ==
  asked # None /\ Len(tq) > tq_low_watermark ~> asked = None \/ Stopped

\* Automatic PTT is switched off after the text, unless PTT is now manual.
AutoPttReleased ==
  "AUTO" \in ptt_flag /\ Len(tq) > tq_low_watermark
    ~> ~ptt_pin \/ "MANUAL" \in ptt_flag \/ Stopped

=============================================================================
