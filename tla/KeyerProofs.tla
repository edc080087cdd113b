---------------------------- MODULE KeyerProofs ----------------------------
(***************************************************************************)
(* Invariants of Keyer, for every value of its constants: any number of    *)
(* clients and requests, any delay, both schedulings.                      *)
(***************************************************************************)
EXTENDS Keyer, TLAPS

\* One character's tones, and whatever of them the queue has room for.
LEMMA EnqueueType ==
  ASSUME NEW q \in Seq({"mark", "space"}), NEW t \in Seq({"mark", "space"})
  PROVE  Enqueue(q, t) \in Seq({"mark", "space"})
  BY DEF Enqueue

LEMMA MorseType == Morse \in Seq({"mark", "space"})
  BY DEF Morse

(***************************************************************************)
(* TypeOK is not inductive: a handler uses the request it was called with, *)
(* and the callback the flag it has loaded.                                *)
(***************************************************************************)
HasRequest ==
  pc \notin {"select", "loop", "aborted"} => req \in Requests /\ from \in Clients
HasLoaded  == cb = "store" => cbreg \in SUBSET Flags
TypeInv == TypeOK /\ HasRequest /\ HasLoaded

LEMMA ReplyTextType ==
  ASSUME TypeOK, req \in Requests
  PROVE  ReplyText \in Seq(Chars)
  <1>1. req.text \in Seq(Chars)
    BY RequestsAssumption DEF TypeOK
  <1>2. <<"h">> \in Seq(Chars)
    BY DEF Chars
  <1> QED
    BY <1>1, <1>2 DEF TypeOK, ReplyText

LEMMA InitTypeInv == Init => TypeInv
  <1> SUFFICES ASSUME Init PROVE TypeInv
    OBVIOUS
  <1>1. delay \in 0..DelayMax
    BY BoundsAssumption DEF Init
  <1>5. ptt_flag \in SUBSET Flags /\ ptt_pin \in BOOLEAN
    BY Zenon DEF Init
  <1>2. /\ request_queue \in Seq(Chars) /\ x \in Nat \ {0} /\ gap \in {0, 2}
        /\ tq \in Seq({"mark", "space"}) /\ tone = "none"
    BY DEF Init
  <1>3. reply_buffer \in [text : Seq(Chars) \cup {Torn}, crlf : 0..2]
    BY DEF Init
  <1>4. pc \in Labels /\ cb \in CbLabels /\ received \in 0..MaxRequests
    BY BoundsAssumption DEF Init, Labels, CbLabels
  <1> QED
    BY <1>1, <1>2, <1>3, <1>4, <1>5
    DEF Init, TypeInv, TypeOK, HasRequest, HasLoaded

LEMMA ReceiveTypeInv == TypeInv /\ Receive => TypeInv'
  <1> SUFFICES ASSUME TypeInv, Receive PROVE TypeInv'
    OBVIOUS
  <1>1. req' \in [kind : Kinds, arg : Nat, text : Seq(Chars)]
    BY RequestsAssumption DEF Receive
  <1>2. pc' \in Labels
    BY <1>1 DEF Receive, Kinds, Labels, Updates
  <1>3. request_queue' \in Seq(Chars) /\ x' \in Nat \ {0}
    <2>1. request_queue \in Seq(Chars) /\ x \in Nat \ {0}
      BY DEF TypeInv, TypeOK
    <2>2. request_queue \o req'.text \in Seq(Chars)
      BY <1>1, <2>1
    <2>3. /\ request_queue' \in {request_queue, request_queue \o req'.text}
          /\ x' \in {1, x}
      BY DEF Receive
    <2>4. request_queue' \in Seq(Chars)
      BY <2>1, <2>2, <2>3
    <2>5. x' \in Nat \ {0}
      BY <2>1, <2>3
    <2> QED
      BY <2>4, <2>5
  <1>4. asked' \in [client : Clients, text : Seq(Chars)] \cup {None}
    BY DEF Receive, replyVars, TypeInv, TypeOK
  <1>5. received' \in 0..MaxRequests
    BY BoundsAssumption DEF Receive, TypeInv, TypeOK
  <1>6. req' \in Requests /\ from' \in Clients /\ ret' = "loop"
    BY DEF Receive
  <1> QED
    BY <1>2, <1>3, <1>4, <1>5, <1>6
    DEF Receive, pttVars, modeVars, toneVars, replyVars, genVars, TypeInv,
        TypeOK, HasRequest, HasLoaded

LEMMA TextTypeInv == TypeInv /\ Text => TypeInv'
  <1> SUFFICES ASSUME TypeInv, Text PROVE TypeInv'
    OBVIOUS
  <1>1. CASE EndOfText
    BY <1>1 DEF EndOfText, MainAt, Labels, Updates, pttVars, modeVars,
       textVars, toneVars, replyVars, mainVars, reqVars, genVars, TypeInv,
       TypeOK, HasRequest, HasLoaded
  <1>2. CASE Speed
    BY <1>2 DEF Speed, MainAt, Labels, Updates, AtText, pttVars, modeVars,
       textVars, toneVars, replyVars, mainVars, reqVars, genVars, TypeInv,
       TypeOK, HasRequest, HasLoaded
  <1>3. CASE Tilde
    BY <1>3 DEF Tilde, MainAt, Labels, Updates, AtText, pttVars, modeVars,
       textVars, toneVars, replyVars, mainVars, reqVars, genVars, TypeInv,
       TypeOK, HasRequest, HasLoaded
  <1>4. CASE Caret
    BY <1>4 DEF Caret, MainAt, Labels, Updates, AtText, pttVars, modeVars,
       textVars, toneVars, replyVars, mainVars, reqVars, genVars, TypeInv,
       TypeOK, HasRequest, HasLoaded
  <1>5. CASE Character
    <2>1. request_queue' \in Seq(Chars)
      <3>1. request_queue \in Seq(Chars) /\ x \in Nat \ {0}
        BY DEF TypeInv, TypeOK
      <3>2. x <= Len(request_queue)
        BY <1>5 DEF Character, AtText
      <3>3. [request_queue EXCEPT ![x] = "+"] \in Seq(Chars)
        BY <3>1, <3>2 DEF Chars
      <3>4. request_queue' \in
              {request_queue, [request_queue EXCEPT ![x] = "+"]}
        BY <1>5 DEF Character
      <3> QED
        BY <3>1, <3>3, <3>4
    <2> QED
      BY <1>5, <2>1
      DEF Character, MainAt, Labels, Updates, AtText, pttVars, modeVars,
          textVars, toneVars, replyVars, mainVars, reqVars, genVars,
          TypeInv, TypeOK, HasRequest, HasLoaded
  <1>6. CASE Send
    <2>1. tq' \in Seq({"mark", "space"})
      BY EnqueueType, MorseType, <1>6 DEF Send, TypeInv, TypeOK
    <2>2. x' \in Nat \ {0}
      BY <1>6 DEF Send, TypeInv, TypeOK
    <2> QED
      BY <1>6, <2>1, <2>2
      DEF Send, MainAt, Labels, Updates, pttVars, modeVars,
          textVars, toneVars, replyVars, mainVars, reqVars, genVars,
          TypeInv, TypeOK, HasRequest, HasLoaded
  <1> QED
    BY <1>1, <1>2, <1>3, <1>4, <1>5, <1>6 DEF Text

LEMMA ReplyTypeInv == TypeInv /\ Reply => TypeInv'
  <1> SUFFICES ASSUME TypeInv, Reply PROVE TypeInv'
    OBVIOUS
  <1>1. CASE ReplyAddr
    <2>1. ReplyText \in Seq(Chars)
      BY ReplyTextType, <1>1 DEF ReplyAddr, MainAt, TypeInv, HasRequest
    <2>2. from \in Clients /\ (req.kind = "text") \in BOOLEAN
      BY <1>1 DEF ReplyAddr, MainAt, TypeInv, HasRequest
    <2> QED
      BY <1>1, <2>1, <2>2
      DEF ReplyAddr, MainAt, Labels, Updates, pttVars, modeVars,
          textVars, toneVars, replyVars, mainVars, reqVars, genVars,
          TypeInv, TypeOK, HasRequest, HasLoaded
  <1>2. CASE ReplyCopy
    BY <1>2 DEF ReplyCopy, MainAt, Labels, Updates, pttVars, modeVars,
       textVars, toneVars, replyVars, mainVars, reqVars, genVars, TypeInv,
       TypeOK, HasRequest, HasLoaded
  <1>3. CASE ReplyCopied
    <2>1. ReplyText \in Seq(Chars)
      BY ReplyTextType, <1>3 DEF ReplyCopied, MainAt, TypeInv, HasRequest
    <2> QED
      BY <1>3, <2>1
      DEF ReplyCopied, MainAt, Labels, Updates, pttVars, modeVars,
          textVars, toneVars, replyVars, mainVars, reqVars, genVars,
          TypeInv, TypeOK, HasRequest, HasLoaded
  <1> QED
    BY <1>1, <1>2, <1>3 DEF Reply

LEMMA PttOnOffTypeInv == TypeInv /\ PttOnOff => TypeInv'
  <1> SUFFICES ASSUME TypeInv, PttOnOff PROVE TypeInv'
    OBVIOUS
  <1>1. CASE PttOn
    <2>1. ptt_pin' \in BOOLEAN
      BY Zenon, <1>1 DEF PttOn, TypeInv, TypeOK
    <2> QED
      BY <1>1, <2>1
      DEF PttOn, MainAt, Labels, Updates, pttVars, modeVars,
          textVars, toneVars, replyVars, mainVars, reqVars, genVars,
          TypeInv, TypeOK, HasRequest, HasLoaded
  <1>2. CASE PttSleep
    BY <1>2 DEF PttSleep, MainAt, Labels, Updates, pttVars, modeVars,
       textVars, toneVars, replyVars, mainVars, reqVars, genVars, TypeInv,
       TypeOK, HasRequest, HasLoaded
  <1>3. CASE PttOffPin
    <2>1. ptt_pin' \in BOOLEAN
      BY Zenon, <1>3 DEF PttOffPin, TypeInv, TypeOK
    <2> QED
      BY <1>3, <2>1
      DEF PttOffPin, MainAt, Labels, Updates, pttVars, modeVars,
          textVars, toneVars, replyVars, mainVars, reqVars, genVars,
          TypeInv, TypeOK, HasRequest, HasLoaded
  <1>4. CASE PttOffFlag
    BY <1>4 DEF PttOffFlag, MainAt, Labels, Updates, pttVars, modeVars,
       textVars, toneVars, replyVars, mainVars, reqVars, genVars, TypeInv,
       TypeOK, HasRequest, HasLoaded
  <1> QED
    BY <1>1, <1>2, <1>3, <1>4 DEF PttOnOff

LEMMA EscapeTypeInv == TypeInv /\ Escape => TypeInv'
  <1> SUFFICES ASSUME TypeInv, Escape PROVE TypeInv'
    OBVIOUS
  <1>1. CASE PttRequest
    BY <1>1 DEF PttRequest, MainAt, Labels, Updates, pttVars, modeVars,
       textVars, toneVars, replyVars, mainVars, reqVars, genVars, TypeInv,
       TypeOK, HasRequest, HasLoaded
  <1>2. CASE PttRelease
    BY <1>2 DEF PttRelease, MainAt, Labels, Updates, pttVars, modeVars,
       textVars, toneVars, replyVars, mainVars, reqVars, genVars, TypeInv,
       TypeOK, HasRequest, HasLoaded
  <1>3. CASE SetDelay
    <2>1. delay' \in 0..DelayMax
      BY <1>3, BoundsAssumption, RequestsAssumption DEF SetDelay, Clipped, MainAt, TypeInv, TypeOK, HasRequest
    <2> QED
      BY <1>3, <2>1
      DEF SetDelay, MainAt, Labels, Updates, pttVars, modeVars,
          textVars, toneVars, replyVars, mainVars, reqVars, genVars,
          TypeInv, TypeOK, HasRequest, HasLoaded
  <1>4. CASE Tune
    <2>1. tq' \in Seq({"mark", "space"})
      <3>1. tq' \in {tq, <<>>}
        BY <1>4 DEF Tune
      <3>2. tq \in Seq({"mark", "space"}) /\ <<>> \in Seq({"mark", "space"})
        BY DEF TypeInv, TypeOK
      <3> QED
        BY <3>1, <3>2
    <2> QED
      BY <1>4, <2>1
      DEF Tune, MainAt, Labels, Updates, pttVars, modeVars,
          textVars, toneVars, replyVars, mainVars, reqVars, genVars,
          TypeInv, TypeOK, HasRequest, HasLoaded
  <1>5. CASE TuneTones
    <2>1. tq' \in Seq({"mark", "space"})
      <3>1. req.arg \in Nat
        BY <1>5, RequestsAssumption DEF TuneTones, MainAt, TypeInv, HasRequest
      <3>2. [i \in 1..req.arg |-> "mark"] \in Seq({"mark", "space"})
        BY <3>1
      <3>3. Enqueue(tq, [i \in 1..req.arg |-> "mark"]) \in Seq({"mark", "space"})
        BY <3>2, EnqueueType DEF TypeInv, TypeOK
      <3>4. Enqueue(Enqueue(tq, [i \in 1..req.arg |-> "mark"]), Morse)
              \in Seq({"mark", "space"})
        BY <3>3, MorseType, EnqueueType
      <3> QED
        BY <1>5, <3>4 DEF TuneTones
    <2> QED
      BY <1>5, <2>1
      DEF TuneTones, MainAt, Labels, Updates, pttVars, modeVars,
          textVars, toneVars, replyVars, mainVars, reqVars, genVars,
          TypeInv, TypeOK, HasRequest, HasLoaded
  <1>6. CASE Abort
    BY <1>6 DEF Abort, MainAt, Labels, Updates, pttVars, modeVars,
       textVars, toneVars, replyVars, mainVars, reqVars, genVars, TypeInv,
       TypeOK, HasRequest, HasLoaded
  <1>7. CASE AbortFlush
    BY <1>7 DEF AbortFlush, MainAt, Labels, Updates, pttVars, modeVars,
       textVars, toneVars, replyVars, mainVars, reqVars, genVars, TypeInv,
       TypeOK, HasRequest, HasLoaded
  <1>8. CASE AbortWait
    BY <1>8 DEF AbortWait, MainAt, Labels, Updates, pttVars, modeVars,
       textVars, toneVars, replyVars, mainVars, reqVars, genVars, TypeInv,
       TypeOK, HasRequest, HasLoaded
  <1>9. CASE AbortClear
    BY <1>9 DEF AbortClear, MainAt, Labels, Updates, pttVars, modeVars,
       textVars, toneVars, replyVars, mainVars, reqVars, genVars, TypeInv,
       TypeOK, HasRequest, HasLoaded
  <1>10. CASE WordMode
    BY <1>10 DEF WordMode, MainAt, Labels, Updates, pttVars, modeVars,
       textVars, toneVars, replyVars, mainVars, reqVars, genVars, TypeInv,
       TypeOK, HasRequest, HasLoaded
  <1>11. CASE Reset
    <2>1. delay' \in 0..DelayMax
      BY <1>11, BoundsAssumption DEF Reset
    <2> QED
      BY <1>11, <2>1
      DEF Reset, MainAt, Labels, Updates, pttVars, modeVars,
          textVars, toneVars, replyVars, mainVars, reqVars, genVars,
          TypeInv, TypeOK, HasRequest, HasLoaded
  <1>12. CASE ResetReopen
    <2>1. ptt_pin' \in BOOLEAN /\ wordmode' \in BOOLEAN
      BY Zenon, <1>12 DEF ResetReopen
    <2> QED
      BY <1>12, <2>1
      DEF ResetReopen, MainAt, Labels, Updates, pttVars, modeVars,
          textVars, toneVars, replyVars, mainVars, reqVars, genVars,
          TypeInv, TypeOK, HasRequest, HasLoaded
  <1>13. CASE Exit
    <2>1. ptt_pin' \in BOOLEAN
      BY Zenon, <1>13 DEF Exit
    <2> QED
      BY <1>13, <2>1
      DEF Exit, MainAt, Labels, Updates, pttVars, modeVars,
          textVars, toneVars, replyVars, mainVars, reqVars, genVars,
          TypeInv, TypeOK, HasRequest, HasLoaded
  <1> QED
    BY <1>1, <1>2, <1>3, <1>4, <1>5, <1>6, <1>7, <1>8, <1>9, <1>10, <1>11, <1>12, <1>13 DEF Escape

LEMMA GeneratorTypeInv == TypeInv /\ Generator => TypeInv'
  <1> SUFFICES ASSUME TypeInv, Generator PROVE TypeInv'
    OBVIOUS
  <1>1. CASE NextTone
    BY <1>1 DEF NextTone, GenAt, CbLabels, pttVars, modeVars,
       textVars, toneVars, replyVars, mainVars, reqVars, genVars, TypeInv,
       TypeOK, HasRequest, HasLoaded
  <1>2. CASE Silence
    BY <1>2 DEF Silence, GenAt, CbLabels, pttVars, modeVars,
       textVars, toneVars, replyVars, mainVars, reqVars, genVars, TypeInv,
       TypeOK, HasRequest, HasLoaded
  <1>3. CASE CbCheck
    BY <1>3 DEF CbCheck, GenAt, CbLabels, pttVars, modeVars,
       textVars, toneVars, replyVars, mainVars, reqVars, genVars, TypeInv,
       TypeOK, HasRequest, HasLoaded
  <1>4. CASE CbOffPin
    <2>1. ptt_pin' \in BOOLEAN
      BY Zenon, <1>4 DEF CbOffPin, TypeInv, TypeOK
    <2> QED
      BY <1>4, <2>1
      DEF CbOffPin, GenAt, CbLabels, pttVars, modeVars,
          textVars, toneVars, replyVars, mainVars, reqVars, genVars,
          TypeInv, TypeOK, HasRequest, HasLoaded
  <1>5. CASE CbOffFlag
    BY <1>5 DEF CbOffFlag, GenAt, CbLabels, pttVars, modeVars,
       textVars, toneVars, replyVars, mainVars, reqVars, genVars, TypeInv,
       TypeOK, HasRequest, HasLoaded
  <1>6. CASE CbCheckEcho
    BY <1>6 DEF CbCheckEcho, GenAt, CbLabels, pttVars, modeVars,
       textVars, toneVars, replyVars, mainVars, reqVars, genVars, TypeInv,
       TypeOK, HasRequest, HasLoaded
  <1>7. CASE CbLoadFlag
    BY <1>7 DEF CbLoadFlag, GenAt, CbLabels, pttVars, modeVars,
       textVars, toneVars, replyVars, mainVars, reqVars, genVars, TypeInv,
       TypeOK, HasRequest, HasLoaded
  <1>8. CASE CbStoreFlag
    BY <1>8 DEF CbStoreFlag, GenAt, CbLabels, pttVars, modeVars,
       textVars, toneVars, replyVars, mainVars, reqVars, genVars, TypeInv,
       TypeOK, HasRequest, HasLoaded
  <1>9. CASE CbCrlf
    <2>1. reply_buffer' \in [text : Seq(Chars) \cup {Torn}, crlf : 0..2]
      <3>1. \/ reply_buffer' = [reply_buffer EXCEPT !.crlf = 1]
            \/ reply_buffer' = [reply_buffer EXCEPT !.crlf = 2]
        BY <1>9, Zenon DEF CbCrlf
      <3> QED
        BY <3>1 DEF TypeInv, TypeOK
    <2> QED
      BY <1>9, <2>1 DEF CbCrlf, GenAt, CbLabels, pttVars, modeVars,
         textVars, toneVars, replyVars, mainVars, reqVars, genVars, TypeInv,
         TypeOK, HasRequest, HasLoaded
  <1>10. CASE CbSend
    <2>1. cb' \in CbLabels /\ pc' \in Labels
      BY <1>10 DEF CbSend, Labels, CbLabels, TypeInv, TypeOK
    <2> QED
      BY <1>10, <2>1
      DEF CbSend, GenAt, CbLabels, pttVars, modeVars,
          textVars, toneVars, replyVars, mainVars, reqVars, genVars,
          TypeInv, TypeOK, HasRequest, HasLoaded
  <1>11. CASE CbRequeue
    <2>1. tq' \in Seq({"mark", "space"})
      <3>1. <<"space">> \in Seq({"mark", "space"})
        OBVIOUS
      <3>2. tq \in Seq({"mark", "space"})
        BY DEF TypeInv, TypeOK
      <3>3. Enqueue(tq, <<"space">>) \in Seq({"mark", "space"})
        BY <3>1, <3>2, EnqueueType
      <3>4. Enqueue(Enqueue(tq, <<"space">>), <<"space">>)
              \in Seq({"mark", "space"})
        BY <3>1, <3>3, EnqueueType
      <3> QED
        BY <1>11, <3>2, <3>4 DEF CbRequeue
    <2> QED
      BY <1>11, <2>1
      DEF CbRequeue, GenAt, CbLabels, pttVars, modeVars,
          textVars, toneVars, replyVars, mainVars, reqVars, genVars,
          TypeInv, TypeOK, HasRequest, HasLoaded
  <1> QED
    BY <1>1, <1>2, <1>3, <1>4, <1>5, <1>6, <1>7, <1>8, <1>9, <1>10, <1>11 DEF Generator, Callback

LEMMA LoopTypeInv ==
  TypeInv /\ (SelectTimeout \/ Footswitch \/ LoadFlag \/ StoreFlag) => TypeInv'
  <1> SUFFICES ASSUME TypeInv,
                      SelectTimeout \/ Footswitch \/ LoadFlag \/ StoreFlag
               PROVE  TypeInv'
    OBVIOUS
  <1>1. CASE SelectTimeout
    <2>1. pc' \in Labels
      BY <1>1 DEF SelectTimeout, Labels
    <2> QED
      BY <1>1, <2>1
      DEF SelectTimeout, MainAt, pttVars, modeVars, textVars, toneVars,
          replyVars, reqVars, genVars, TypeInv, TypeOK, HasRequest, HasLoaded
  <1>2. CASE Footswitch
    <2>1. ptt_pin' \in BOOLEAN
      BY Zenon, <1>2 DEF Footswitch, TypeInv, TypeOK
    <2> QED
      BY <1>2, <2>1
      DEF Footswitch, Labels, modeVars, textVars, toneVars,
          replyVars, genVars, TypeInv, TypeOK, HasRequest, HasLoaded
  <1>3. CASE LoadFlag
    BY <1>3
    DEF LoadFlag, pttVars, modeVars, textVars, toneVars, replyVars, reqVars,
        genVars, TypeInv, TypeOK, HasRequest, HasLoaded
  <1>4. CASE StoreFlag
    <2>1. ptt_flag' \in SUBSET Flags
      BY <1>4 DEF StoreFlag, Updates, Updated, Flags, TypeInv, TypeOK
    <2>2. pc' \in Labels
      BY <1>4
      DEF StoreFlag, Updates, AfterUpdate, Labels, TypeInv, TypeOK
    <2>3. pc \notin {"select", "loop", "aborted"}
      BY <1>4 DEF StoreFlag, Updates
    <2> QED
      BY <1>4, <2>1, <2>2, <2>3
      DEF StoreFlag, modeVars, textVars, toneVars, replyVars, reqVars,
          genVars, TypeInv, TypeOK, HasRequest, HasLoaded
  <1> QED
    BY <1>1, <1>2, <1>3, <1>4

LEMMA StepTypeInv == TypeInv /\ [Next]_vars => TypeInv'
  <1> SUFFICES ASSUME TypeInv, [Next]_vars PROVE TypeInv'
    OBVIOUS
  <1>1. CASE UNCHANGED vars
    BY <1>1
    DEF vars, pttVars, modeVars, textVars, toneVars, replyVars, mainVars,
        reqVars, genVars, TypeInv, TypeOK, HasRequest, HasLoaded
  <1> QED
    BY <1>1, ReceiveTypeInv, LoopTypeInv, PttOnOffTypeInv, TextTypeInv,
       ReplyTypeInv, EscapeTypeInv, GeneratorTypeInv
    DEF Next, Handler, Terminated

\* Every variable keeps its type, in particular the PTT delay its maximum,
\* however requests and the two threads' steps follow each other.
THEOREM TypeCorrect == Spec => []TypeOK
  <1>1. Init => TypeInv
    BY InitTypeInv
  <1>2. TypeInv /\ [Next]_vars => TypeInv'
    BY StepTypeInv
  <1>3. TypeInv => TypeOK
    BY DEF TypeInv
  <1> QED
    BY <1>1, <1>2, <1>3, PTL DEF Spec

-----------------------------------------------------------------------------
(***************************************************************************)
(* The text queue.  RequestQueueIdle is not inductive: a text is played    *)
(* through handlers that are also called from elsewhere, so what the queue *)
(* may hold depends on where they return to.                               *)
(***************************************************************************)
Playing ==
  \/ pc \in {"text", "send", "aborted"}
  \/ pc \in {"ptt_on", "sleep", "auto"} /\ ret = "send"
  \/ pc \in {"reply", "addr", "copy", "copied"} /\ ret = "text"
QueueInv == request_queue # <<>> => Playing

LEMMA ReceiveQueueInv == QueueInv /\ Receive => QueueInv'
  <1> SUFFICES ASSUME QueueInv, Receive, request_queue' # <<>> PROVE Playing'
    BY DEF QueueInv
  <1>1. request_queue = <<>>
    BY DEF Receive, MainAt, QueueInv, Playing
  <1>2. pc' = "text"
    BY <1>1 DEF Receive
  <1> QED
    BY <1>2 DEF Playing

LEMMA StepQueueInv == QueueInv /\ [Next]_vars => QueueInv'
  <1> SUFFICES ASSUME QueueInv, [Next]_vars PROVE QueueInv'
    OBVIOUS
  <1>1. CASE UNCHANGED vars
    BY <1>1 DEF vars, textVars, mainVars, QueueInv, Playing
  <1>2. CASE Receive
    BY <1>2, ReceiveQueueInv
  <1>3. CASE SelectTimeout \/ Footswitch
    BY <1>3
    DEF SelectTimeout, Footswitch, MainAt, textVars, QueueInv, Playing
  <1>4. CASE LoadFlag \/ StoreFlag
    BY <1>4
    DEF LoadFlag, StoreFlag, Updates, AfterUpdate, textVars, QueueInv, Playing
  <1>5. CASE PttOnOff
    BY <1>5
    DEF PttOnOff, PttOn, PttSleep, PttOffPin, PttOffFlag, MainAt, textVars,
        QueueInv, Playing
  <1>6. CASE Text
    BY <1>6
    DEF Text, EndOfText, Speed, Tilde, Caret, Character, Send, AtText, MainAt,
        mainVars, QueueInv, Playing
  <1>7. CASE Reply
    BY <1>7
    DEF Reply, ReplyAddr, ReplyCopy, ReplyCopied, MainAt, textVars, QueueInv,
        Playing
  <1>8. CASE Escape
    BY <1>8
    DEF Escape, PttRequest, PttRelease, SetDelay, Tune, TuneTones, Abort,
        AbortFlush, AbortWait, AbortClear, WordMode, Reset, ResetReopen, Exit,
        MainAt, textVars, QueueInv, Playing
  <1>9. CASE Generator
    BY <1>9
    DEF Generator, NextTone, Silence, Callback, CbCheck, CbOffPin, CbOffFlag,
        CbCheckEcho, CbLoadFlag, CbStoreFlag, CbCrlf, CbSend, CbRequeue,
        mainVars, textVars, QueueInv, Playing
  <1> QED
    BY <1>1, <1>2, <1>3, <1>4, <1>5, <1>6, <1>7, <1>8, <1>9
    DEF Next, Handler, Terminated

\* The text queue is empty whenever a request is received, for every text,
\* every set of requests and every interleaving with the callback.
THEOREM RequestQueueCorrect == Spec => []RequestQueueIdle
  <1>1. Init => QueueInv
    BY DEF Init, QueueInv
  <1>2. QueueInv /\ [Next]_vars => QueueInv'
    BY StepQueueInv
  <1>3. QueueInv => RequestQueueIdle
    BY DEF QueueInv, Playing, RequestQueueIdle, Idle
  <1> QED
    BY <1>1, <1>2, <1>3, PTL DEF Spec

-----------------------------------------------------------------------------
(***************************************************************************)
(* PTT delay zero.  The only places where PTT may still be on are those    *)
(* on the way to switch it off.                                            *)
(***************************************************************************)
PinInv == ~HasFootswitch /\ ptt_pin /\ delay = 0 =>
            pc \in {"off_pin", "reopen", "aborted"}

LEMMA StepPinInv == PinInv /\ [Next]_vars => PinInv'
  <1> SUFFICES ASSUME PinInv, [Next]_vars PROVE PinInv'
    OBVIOUS
  <1>1. CASE UNCHANGED vars
    BY <1>1 DEF vars, pttVars, modeVars, mainVars, PinInv
  <1>2. CASE Receive
    BY <1>2 DEF Receive, MainAt, pttVars, modeVars, PinInv
  <1>3. CASE SelectTimeout
    BY <1>3 DEF SelectTimeout, MainAt, pttVars, modeVars, PinInv
  <1>4. CASE Footswitch
    <2>1. ~HasFootswitch => ptt_pin' = ptt_pin
      BY <1>4 DEF Footswitch
    <2>2. pc = "loop" /\ delay' = delay
      BY <1>4 DEF Footswitch, MainAt, modeVars
    <2> QED
      BY <2>1, <2>2 DEF PinInv
  <1>5. CASE LoadFlag \/ StoreFlag
    BY <1>5 DEF LoadFlag, StoreFlag, Updates, pttVars, modeVars, PinInv
  <1>6. CASE PttOn
    <2>1. delay' = delay /\ pc = "ptt_on"
      BY <1>6 DEF PttOn, MainAt, modeVars
    <2>2. delay = 0 => ptt_pin' = ptt_pin
      BY <1>6 DEF PttOn
    <2> QED
      BY <2>1, <2>2 DEF PinInv
  <1>7. CASE PttSleep \/ PttOffFlag
    BY <1>7 DEF PttSleep, PttOffFlag, MainAt, pttVars, modeVars, PinInv
  <1>8. CASE PttOffPin
    BY <1>8 DEF PttOffPin, PinInv
  <1>9. CASE Text
    BY <1>9
    DEF Text, EndOfText, Speed, Tilde, Caret, Character, Send, AtText, MainAt,
        pttVars, modeVars, PinInv
  <1>10. CASE Reply
    BY <1>10
    DEF Reply, ReplyAddr, ReplyCopy, ReplyCopied, MainAt, pttVars, modeVars,
        PinInv
  <1>11. CASE Escape
    BY <1>11
    DEF Escape, PttRequest, PttRelease, SetDelay, Tune, TuneTones, Abort,
        AbortFlush, AbortWait, AbortClear, WordMode, Reset, ResetReopen, Exit,
        MainAt, pttVars, modeVars, PinInv
  <1>12. CASE Generator
    <2>1. CASE CbOffPin
      BY <2>1 DEF CbOffPin, PinInv
    <2>2. CASE CbSend
      BY <2>2 DEF CbSend, pttVars, modeVars, PinInv
    <2>3. CASE Generator /\ ~CbOffPin /\ ~CbSend
      BY <2>3
      DEF Generator, NextTone, Silence, Callback, CbCheck, CbOffFlag,
          CbCheckEcho, CbLoadFlag, CbStoreFlag, CbCrlf, CbRequeue,
          pttVars, modeVars, mainVars, PinInv
    <2> QED
      BY <1>12, <2>1, <2>2, <2>3
  <1> QED
    BY <1>1, <1>2, <1>3, <1>4, <1>5, <1>6, <1>7, <1>8, <1>9, <1>10, <1>11,
       <1>12
    DEF Next, Handler, PttOnOff, Terminated

\* With no footswitch and PTT delay zero the daemon leaves PTT off between
\* two requests, whichever delays were set before and whatever the callback
\* did in between.
THEOREM ZeroDelayCorrect == Spec => []ZeroDelayNoPtt
  <1>1. Init => PinInv
    BY DEF Init, PinInv
  <1>2. PinInv /\ [Next]_vars => PinInv'
    BY StepPinInv
  <1>3. PinInv => ZeroDelayNoPtt
    BY DEF PinInv, ZeroDelayNoPtt, Idle
  <1> QED
    BY <1>1, <1>2, <1>3, PTL DEF Spec

-----------------------------------------------------------------------------
(***************************************************************************)
(* The size of a reply.  A text is received into an empty queue, so the    *)
(* queue is never longer than a request, and the caret that asks for the   *)
(* reply is not copied: together they leave room for CRLF.                 *)
(***************************************************************************)
Preparing == pc \in {"reply", "addr", "copy", "copied"}
FitInv ==
  /\ Len(request_queue) <= RequestSizeMax
  /\ Preparing /\ req.kind # "reply" => Len(request_queue) < RequestSizeMax
  /\ ReplyFits

LEMMA ReceiveFitInv == TypeInv /\ QueueInv /\ FitInv /\ Receive => FitInv'
  <1> SUFFICES ASSUME TypeInv, QueueInv, FitInv, Receive PROVE FitInv'
    OBVIOUS
  <1>1. request_queue = <<>>
    BY DEF Receive, MainAt, QueueInv, Playing
  <1>2. /\ req' \in Requests /\ req'.text \in Seq(Chars)
        /\ Len(req'.text) <= RequestSizeMax
    <2>1. req' \in Requests
      BY DEF Receive
    <2> QED
      BY <2>1, RequestsAssumption, SizesAssumption
  <1>3. request_queue' \in {<<>>, req'.text}
    <2>1. request_queue \o req'.text = req'.text
      BY <1>1, <1>2
    <2>2. request_queue' \in {request_queue, request_queue \o req'.text}
      BY DEF Receive
    <2> QED
      BY <1>1, <2>1, <2>2
  <1>4. Preparing' => req'.kind = "reply"
    BY <1>2, RequestsAssumption DEF Receive, Preparing, Kinds
  <1> QED
    BY <1>2, <1>3, <1>4, SizesAssumption
    DEF Receive, FitInv, ReplyFits, replyVars

LEMMA ReplyFitInv == TypeInv /\ FitInv /\ Reply => FitInv'
  <1> SUFFICES ASSUME TypeInv, FitInv, Reply PROVE FitInv'
    OBVIOUS
  <1>1. CASE ReplyAddr
    BY <1>1
    DEF ReplyAddr, MainAt, textVars, reqVars, FitInv, Preparing, ReplyFits
  <1>2. CASE ReplyCopy
    BY <1>2
    DEF ReplyCopy, MainAt, textVars, reqVars, FitInv, Preparing, ReplyFits,
        TypeInv, TypeOK
  <1>3. CASE ReplyCopied
    <2>1. Preparing /\ req \in Requests
      BY <1>3 DEF ReplyCopied, MainAt, Preparing, TypeInv, HasRequest
    <2>2. req.text \in Seq(Chars)
      BY <2>1, RequestsAssumption
    <2>3. Len(ReplyText) < RequestSizeMax
      <3>1. CASE req.kind = "reply"
        <4>1. Len(req.text) <= RequestSizeMax - 2
          BY <2>1, <3>1, SizesAssumption
        <4>2. Len(ReplyText) = 1 + Len(req.text)
          BY <2>2, <3>1 DEF ReplyText
        <4> QED
          BY <2>2, <4>1, <4>2, SizesAssumption
      <3>2. CASE req.kind # "reply"
        BY <2>1, <3>2 DEF FitInv, ReplyText
      <3> QED
        BY <3>1, <3>2
    <2>4. ReplyText \in Seq(Chars)
      BY <2>1, ReplyTextType DEF TypeInv
    <2>5. ReplyFits'
      BY <1>3, <2>3, <2>4, SizesAssumption
      DEF ReplyCopied, ReplyFits, ReplySizeMax
    <2>6. ret \notin {"reply", "addr", "copy", "copied"}
      BY DEF TypeInv, TypeOK
    <2> QED
      BY <1>3, <2>5, <2>6
      DEF ReplyCopied, textVars, reqVars, FitInv, Preparing
  <1> QED
    BY <1>1, <1>2, <1>3 DEF Reply

LEMMA TextFitInv == TypeInv /\ FitInv /\ Text => FitInv'
  <1> SUFFICES ASSUME TypeInv, FitInv, Text PROVE FitInv'
    OBVIOUS
  <1> USE DEF FitInv, Preparing, ReplyFits
  <1>1. /\ request_queue \in Seq(Chars) /\ x \in Nat \ {0}
        /\ RequestSizeMax \in Nat \ {0}
    BY SizesAssumption DEF TypeInv, TypeOK
  <1>2. CASE EndOfText
    BY <1>1, <1>2 DEF EndOfText, replyVars, reqVars
  <1>3. CASE Speed \/ Tilde \/ Send
    BY <1>3
    DEF Speed, Tilde, Send, AtText, MainAt, replyVars, reqVars, mainVars
  <1>4. CASE Caret
    <2>1. Len(request_queue') = x - 1 /\ x <= Len(request_queue)
      BY <1>1, <1>4 DEF Caret, AtText
    <2> QED
      BY <1>1, <1>4, <2>1 DEF Caret, replyVars, reqVars
  <1>5. CASE Character
    BY <1>1, <1>5 DEF Character, replyVars, reqVars
  <1> QED
    BY <1>2, <1>3, <1>4, <1>5 DEF Text

LEMMA OtherFitInv ==
  ASSUME FitInv, TypeInv,
         SelectTimeout \/ Footswitch \/ LoadFlag \/ StoreFlag \/ PttOnOff
         \/ Escape \/ Generator \/ UNCHANGED vars
  PROVE  FitInv'
  <1> USE DEF FitInv, Preparing, ReplyFits
  <1>1. Len(<<>>) = 0 /\ RequestSizeMax \in Nat \ {0}
    BY SizesAssumption
  <1>2. CASE UNCHANGED vars
    BY <1>2 DEF vars, textVars, replyVars, mainVars, reqVars
  <1>3. CASE SelectTimeout \/ Footswitch
    BY <1>3
    DEF SelectTimeout, Footswitch, MainAt, textVars, replyVars, reqVars
  <1>4. CASE LoadFlag \/ StoreFlag
    BY <1>4
    DEF LoadFlag, StoreFlag, Updates, AfterUpdate, textVars, replyVars, reqVars,
        TypeInv, TypeOK
  <1>5. CASE PttOnOff
    BY <1>5
    DEF PttOnOff, PttOn, PttSleep, PttOffPin, PttOffFlag, textVars, replyVars,
        reqVars, TypeInv, TypeOK
  <1>6. CASE Escape
    BY <1>1, <1>6
    DEF Escape, PttRequest, PttRelease, SetDelay, Tune, TuneTones, Abort,
        AbortFlush, AbortWait, AbortClear, WordMode, Reset, ResetReopen, Exit,
        textVars, replyVars, reqVars
  <1>7. CASE Generator
    BY <1>7
    DEF Generator, NextTone, Silence, Callback, CbCheck, CbOffPin, CbOffFlag,
        CbCheckEcho, CbLoadFlag, CbStoreFlag, CbCrlf, CbSend, CbRequeue,
        mainVars, textVars, replyVars, reqVars, TypeInv, TypeOK
  <1> QED
    BY <1>2, <1>3, <1>4, <1>5, <1>6, <1>7

\* No reply is longer than the buffer it is copied into, whatever was received
\* before and however the callback interleaves with the copy.
THEOREM ReplyFitsCorrect == Spec => []ReplyFits
  <1> DEFINE I == TypeInv /\ QueueInv /\ FitInv
  <1>1. Init => I
    BY InitTypeInv, SizesAssumption
    DEF Init, QueueInv, FitInv, Preparing, ReplyFits, ReplySizeMax
  <1>2. I /\ [Next]_vars => I'
    <2> SUFFICES ASSUME I, [Next]_vars PROVE FitInv'
      BY StepTypeInv, StepQueueInv
    <2> QED
      BY ReceiveFitInv, ReplyFitInv, TextFitInv, OtherFitInv
      DEF Next, Handler, Terminated
  <1>3. I => ReplyFits
    BY DEF FitInv
  <1> QED
    BY <1>1, <1>2, <1>3, PTL DEF Spec

-----------------------------------------------------------------------------
(***************************************************************************)
(* Aborting.  After the wait for the queue only spaces can be queued, by a *)
(* callback that was running already; that is kept until the flag is       *)
(* cleared.  "ret" tells this use of cwdaemon_set_ptt_off() from others.   *)
(***************************************************************************)
Silent    == tone \in {"space", "none"} /\ tq \in Seq({"space"})
Aborting  == pc \in {"off_pin", "off_flag", "clear"}
SilentInv == /\ ret = "clear" => Aborting \/ pc \in {"loop", "aborted"}
             /\ pc = "clear" => ret = "clear"
             /\ ret = "clear" /\ Aborting => Silent

LEMMA MainSilentInv ==
  ASSUME TypeInv, SilentInv,
         Receive \/ SelectTimeout \/ Handler \/ UNCHANGED vars
  PROVE  SilentInv'
  <1> USE DEF SilentInv, Aborting, Silent
  <1>1. CASE UNCHANGED vars
    BY <1>1 DEF vars, toneVars, mainVars
  <1>2. CASE Receive
    <2>1. req' \in Requests /\ req'.kind \in Kinds /\ ret' = "loop"
      BY <1>2, RequestsAssumption DEF Receive
    <2>2. pc' # "clear"
      BY <1>2, <2>1 DEF Receive, Kinds
    <2> QED
      BY <2>1, <2>2
  <1>3. CASE SelectTimeout \/ Footswitch
    BY <1>3 DEF SelectTimeout, Footswitch, MainAt
  <1>4. CASE LoadFlag \/ StoreFlag
    BY <1>4 DEF LoadFlag, StoreFlag, Updates, AfterUpdate
  <1>5. CASE PttOnOff
    BY <1>5
    DEF PttOnOff, PttOn, PttSleep, PttOffPin, PttOffFlag, MainAt, toneVars,
        TypeInv, TypeOK
  <1>6. CASE Text
    BY <1>6
    DEF Text, EndOfText, Speed, Tilde, Caret, Character, Send, AtText, MainAt,
        mainVars, toneVars
  <1>7. CASE Reply
    BY <1>7 DEF Reply, ReplyAddr, ReplyCopy, ReplyCopied, MainAt
  <1>8. CASE AbortWait
    <2>1. <<>> \in Seq({"space"})
      OBVIOUS
    <2> QED
      BY <1>8, <2>1 DEF AbortWait, MainAt, toneVars
  <1>9. CASE Escape /\ ~AbortWait
    BY <1>9
    DEF Escape, PttRequest, PttRelease, SetDelay, Tune, TuneTones, Abort,
        AbortFlush, AbortClear, WordMode, Reset, ResetReopen, Exit, MainAt,
        toneVars
  <1> QED
    BY <1>1, <1>2, <1>3, <1>4, <1>5, <1>6, <1>7, <1>8, <1>9 DEF Handler

LEMMA GeneratorSilentInv == TypeInv /\ SilentInv /\ Generator => SilentInv'
  <1> SUFFICES ASSUME TypeInv, SilentInv, Generator PROVE SilentInv'
    OBVIOUS
  <1> USE DEF SilentInv, Aborting, Silent
  <1>1. CASE NextTone
    <2>1. ASSUME Silent PROVE Silent'
      BY <1>1, <2>1 DEF NextTone
    <2> QED
      BY <1>1, <2>1 DEF NextTone, mainVars
  <1>2. CASE Silence
    BY <1>2 DEF Silence, mainVars
  <1>3. CASE CbRequeue
    <2>1. ASSUME NEW q \in Seq({"space"})
          PROVE  Enqueue(q, <<"space">>) \in Seq({"space"})
      <3>1. <<"space">> \in Seq({"space"})
        OBVIOUS
      <3>2. q \o <<"space">> \in Seq({"space"})
        BY <3>1
      <3> QED
        BY <3>2 DEF Enqueue
    <2>2. ASSUME Silent PROVE Silent'
      BY <1>3, <2>1, <2>2 DEF CbRequeue
    <2> QED
      BY <1>3, <2>2 DEF CbRequeue, mainVars
  <1>4. CASE CbSend
    BY <1>4 DEF CbSend, toneVars
  <1>5. CASE CbCheck \/ CbOffPin \/ CbOffFlag \/ CbCheckEcho \/ CbLoadFlag
             \/ CbStoreFlag \/ CbCrlf
    BY <1>5
    DEF CbCheck, CbOffPin, CbOffFlag, CbCheckEcho, CbLoadFlag, CbStoreFlag,
        CbCrlf, mainVars, toneVars
  <1> QED
    BY <1>1, <1>2, <1>3, <1>4, <1>5 DEF Generator, Callback

\* <ESC>4 does not clear the flag before the last mark has been played, for
\* every interleaving with a callback that was already running.
THEOREM AbortSilencesCorrect == Spec => []AbortSilences
  <1> DEFINE I == TypeInv /\ SilentInv
  <1>1. Init => I
    BY InitTypeInv DEF Init, SilentInv, Aborting
  <1>2. I /\ [Next]_vars => I'
    BY StepTypeInv, MainSilentInv, GeneratorSilentInv DEF Next, Terminated
  <1>3. I => AbortSilences
    BY DEF SilentInv, Aborting, Silent, AbortSilences
  <1> QED
    BY <1>1, <1>2, <1>3, PTL DEF Spec
=============================================================================
