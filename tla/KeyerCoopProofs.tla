-------------------------- MODULE KeyerCoopProofs --------------------------
(***************************************************************************)
(* What holds of the keyer when a thread runs only while the other one     *)
(* blocks (~Preemptive), for every value of the other constants: replies,  *)
(* and their order with the tones, and that ReplyService is implemented.   *)
(***************************************************************************)
EXTENDS KeyerProofs, KeyerRefinement, KeyerClaims, SequenceTheorems

(***************************************************************************)
(* Where the handlers return to.                                           *)
(***************************************************************************)
RetInv ==
  /\ pc \in {"ptt_on", "sleep", "auto"} => ret \in {"send", "manual", "tones"}
  /\ Preparing => ret \in {"loop", "text"}
  /\ pc \in {"ptt", "delay", "tune", "abort", "reset", "wordmode", "exit",
             "unmanual", "release"} => ret = "loop"
  /\ pc \in {"off_pin", "off_flag"} => ret \in {"loop", "clear"}
  /\ pc = "tones" => ret = "tones"
  /\ pc = "clear" => ret = "clear"

(***************************************************************************)
(* Turns: the callback finds the main thread in a blocking call (CoopInv), *)
(* and a flag that is loaded is still the flag (LoadedInv).                *)
(***************************************************************************)
CoopInv   == cb # "play" => pc \in Blocking
LoadedInv == /\ pc \in Updates /\ reg # None => reg = ptt_flag
             /\ pc \notin Updates => reg = None
             /\ cb = "store" => cbreg = ptt_flag
TurnInv == CoopInv /\ LoadedInv

(***************************************************************************)
(* Tones.  libcw ends each character with spaces, so that the callback,    *)
(* which is called for the last tone but one, never finds a mark.  A queue *)
(* that was flushed may be empty while a mark is still being played; until *)
(* the main thread has filled it again, or has waited, no callback runs.   *)
(***************************************************************************)
MarksFollowed(q) == \A i \in 1..Len(q) : q[i] = "mark" => i + 2 <= Len(q)
Tuning == ret = "tones" /\ pc \in {"ptt_on", "sleep", "auto", "tones"}
ToneInv ==
  /\ MarksFollowed(tq)
  /\ tone = "mark" => Len(tq) >= 2 \/ Tuning \/ pc = "wait"
  /\ cb # "play" => Len(tq) = 1 /\ tone # "mark"
  /\ pc = "wait" => tq = <<>>
  /\ Tuning => tq = <<>>
  /\ Tuning \/ pc = "tune" => req.kind = "tune"

(***************************************************************************)
(* Replies.  While the ECHO flag is set the reply is ready, except when it *)
(* is being prepared, or when <ESC>4 has sent its "break" and has not yet  *)
(* cleared the flag.                                                       *)
(***************************************************************************)
ReplyReady(crlf) ==
  /\ asked # None /\ reply_addr = asked.client
  /\ reply_buffer = [text |-> asked.text, crlf |-> crlf]
BeingPrepared == pc \in {"addr", "copy", "copied"}
BeingAborted == \/ pc \in {"flush", "wait", "clear"}
                \/ pc \in {"off_pin", "off_flag"} /\ ret = "clear"
EchoInv ==
  /\ "ECHO" \in ptt_flag => BeingPrepared \/ BeingAborted \/ ReplyReady(0)
  /\ pc \in {"copy", "copied"} =>
       asked = [client |-> from, text |-> ReplyText] /\ reply_addr = from
  /\ cb \in {"load", "store"} => "ECHO" \in ptt_flag
  /\ cb \in {"crlf", "send"} => "ECHO" \notin ptt_flag
  /\ cb = "crlf" => ReplyReady(0)
  /\ cb = "send" => ReplyReady(1)

ReplyServiceInv ==
  TypeInv /\ RetInv /\ TurnInv /\ ToneInv /\ SilentInv /\ EchoInv

-----------------------------------------------------------------------------
\* The callback does nothing while the main thread makes a step.
LEMMA MainAlone ==
  ASSUME ~Preemptive, Receive \/ SelectTimeout \/ Handler
  PROVE  cb = "play" /\ cb' = "play" /\ cbreg' = cbreg
  <1>1. CASE Receive \/ SelectTimeout \/ Footswitch
    BY <1>1 DEF Receive, SelectTimeout, Footswitch, MainAt, genVars
  <1>2. CASE LoadFlag \/ StoreFlag
    BY <1>2 DEF LoadFlag, StoreFlag, MainAt, genVars
  <1>3. CASE PttOnOff
    BY <1>3
    DEF PttOnOff, PttOn, PttSleep, PttOffPin, PttOffFlag, MainAt, genVars
  <1>4. CASE Text
    BY <1>4
    DEF Text, EndOfText, Speed, Tilde, Caret, Character, Send, AtText, MainAt,
        genVars
  <1>5. CASE Reply
    BY <1>5 DEF Reply, ReplyAddr, ReplyCopy, ReplyCopied, MainAt, genVars
  <1>6. CASE Escape
    BY <1>6
    DEF Escape, PttRequest, PttRelease, SetDelay, Tune, TuneTones, Abort,
        AbortFlush, AbortWait, AbortClear, WordMode, Reset, ResetReopen, Exit,
        MainAt, genVars
  <1> QED
    BY <1>1, <1>2, <1>3, <1>4, <1>5, <1>6 DEF Handler

LEMMA MainRetInv ==
  ASSUME TypeInv, RetInv, Receive \/ SelectTimeout \/ Handler
  PROVE  RetInv'
  <1> USE DEF RetInv, Preparing
  <1>1. CASE Receive
    <2>1. req'.kind \in Kinds
      BY <1>1, RequestsAssumption DEF Receive
    <2> QED
      BY <1>1, <2>1 DEF Receive, Kinds
  <1>2. CASE SelectTimeout \/ Footswitch
    BY <1>2 DEF SelectTimeout, Footswitch, MainAt
  <1>3. CASE LoadFlag
    BY <1>3 DEF LoadFlag
  <1>4. CASE StoreFlag
    BY <1>4 DEF StoreFlag, AfterUpdate, Updates
  <1>5. CASE PttOnOff
    BY <1>5 DEF PttOnOff, PttOn, PttSleep, PttOffPin, PttOffFlag, MainAt
  <1>6. CASE Text
    BY <1>6
    DEF Text, EndOfText, Speed, Tilde, Caret, Character, Send, AtText, MainAt,
        mainVars
  <1>7. CASE Reply
    BY <1>7 DEF Reply, ReplyAddr, ReplyCopy, ReplyCopied, MainAt
  <1>8. CASE Escape
    BY <1>8
    DEF Escape, PttRequest, PttRelease, SetDelay, Tune, TuneTones, Abort,
        AbortFlush, AbortWait, AbortClear, WordMode, Reset, ResetReopen, Exit,
        MainAt
  <1> QED
    BY <1>1, <1>2, <1>3, <1>4, <1>5, <1>6, <1>7, <1>8 DEF Handler

\* What the generator's thread leaves alone.
LEMMA GeneratorFrame ==
  ASSUME Generator
  PROVE  /\ pc' \in {pc, "aborted"} /\ ret' = ret /\ reg' = reg
         /\ req' = req /\ from' = from
         /\ reply_addr' = reply_addr /\ request_queue' = request_queue
         /\ delay' = delay
  BY DEF Generator, NextTone, Silence, Callback, CbCheck, CbOffPin, CbOffFlag,
         CbCheckEcho, CbLoadFlag, CbStoreFlag, CbCrlf, CbSend, CbRequeue,
         mainVars, reqVars, replyVars, textVars, modeVars

LEMMA StepRetInv ==
  ASSUME TypeInv, RetInv, [Next]_vars
  PROVE  RetInv'
  <1>1. CASE Terminated \/ UNCHANGED vars
    BY <1>1 DEF Terminated, vars, mainVars, RetInv, Preparing
  <1>2. CASE Generator
    BY <1>2, GeneratorFrame DEF RetInv, Preparing
  <1> QED
    BY <1>1, <1>2, MainRetInv DEF Next

-----------------------------------------------------------------------------
LEMMA MainTurnInv ==
  ASSUME ~Preemptive, TypeInv, RetInv, TurnInv,
         Receive \/ SelectTimeout \/ Handler
  PROVE  TurnInv'
  <1>1. cb = "play" /\ cb' = "play" /\ cbreg' = cbreg
    BY MainAlone
  <1> USE DEF TurnInv, CoopInv, LoadedInv
  <1>2. CASE Receive
    <2>1. req'.kind \in Kinds
      BY <1>2, RequestsAssumption DEF Receive
    <2>2. reg = None /\ reg' = None
      BY <1>2 DEF Receive, MainAt, Updates
    <2> QED
      BY <1>1, <2>2
  <1>3. CASE LoadFlag
    BY <1>1, <1>3 DEF LoadFlag, pttVars
  <1>4. CASE StoreFlag
    BY <1>1, <1>4 DEF StoreFlag
  <1>5. CASE SelectTimeout \/ Footswitch \/ PttOnOff \/ Text \/ Reply \/ Escape
    <2>1. pc \notin Updates /\ reg' = reg
      BY <1>5
      DEF SelectTimeout, Footswitch, PttOnOff, PttOn, PttSleep, PttOffPin,
          PttOffFlag, Text, EndOfText, Speed, Tilde, Caret, Character, Send,
          AtText, Reply, ReplyAddr, ReplyCopy, ReplyCopied, Escape, PttRequest,
          PttRelease, SetDelay, Tune, TuneTones, Abort, AbortFlush, AbortWait,
          AbortClear, WordMode, Reset, ResetReopen, Exit, MainAt, mainVars,
          Updates
    <2> QED
      BY <1>1, <2>1
  <1> QED
    BY <1>2, <1>3, <1>4, <1>5 DEF Handler

LEMMA GeneratorTurnInv ==
  ASSUME ~Preemptive, TypeInv, TurnInv, EchoInv, Generator
  PROVE  TurnInv' /\ pc \in Blocking /\ pc' = pc
  <1>1. pc \in Blocking
    BY DEF Generator, NextTone, Silence, Callback, CbCheck, CbOffPin,
       CbOffFlag, CbCheckEcho, CbLoadFlag, CbStoreFlag, CbCrlf, CbSend,
       CbRequeue, GenAt
  <1>2. pc' = pc
    <2>1. CASE CbSend
      <3>1. reply_buffer.crlf = 1
        BY <2>1 DEF CbSend, GenAt, EchoInv, ReplyReady
      <3> QED
        BY <2>1, <3>1 DEF CbSend
    <2>2. CASE ~CbSend
      BY <2>2
      DEF Generator, NextTone, Silence, Callback, CbCheck, CbOffPin,
          CbOffFlag, CbCheckEcho, CbLoadFlag, CbStoreFlag, CbCrlf, CbRequeue,
          mainVars
    <2> QED
      BY <2>1, <2>2
  <1>3. pc \notin Updates
    BY <1>1 DEF Blocking, Updates
  <1>4. cb' = "store" => cbreg' = ptt_flag'
    BY DEF Generator, NextTone, Silence, Callback, CbCheck, CbOffPin,
       CbOffFlag, CbCheckEcho, CbLoadFlag, CbStoreFlag, CbCrlf, CbSend,
       CbRequeue, GenAt, pttVars, genVars, TurnInv, LoadedInv
  <1> QED
    BY <1>1, <1>2, <1>3, <1>4, GeneratorFrame DEF TurnInv, CoopInv, LoadedInv

-----------------------------------------------------------------------------
Tones == {"mark", "space"}

LEMMA ConcatTones ==
  \A p, q \in Seq(Tones) :
    /\ Len(p \o q) = Len(p) + Len(q)
    /\ \A i \in 1..Len(p) + Len(q) :
         (p \o q)[i] = IF i <= Len(p) THEN p[i] ELSE q[i - Len(p)]
  BY ConcatProperties, Zenon

\* A character ends with two spaces, whatever was queued before it.
LEMMA MorseFollowed ==
  ASSUME NEW q \in Seq(Tones)
  PROVE  MarksFollowed(q \o Morse) /\ Len(q \o Morse) = Len(q) + 3
  <1>1. Morse \in Seq(Tones) /\ Len(Morse) = 3
    BY DEF Morse, Tones
  <1>2. Len(q \o Morse) = Len(q) + 3
    BY <1>1, ConcatTones
  <1> SUFFICES ASSUME NEW i \in 1..Len(q) + 3, (q \o Morse)[i] = "mark"
               PROVE  i + 2 <= Len(q) + 3
    BY <1>2 DEF MarksFollowed
  <1>3. CASE i <= Len(q) + 1
    BY <1>3
  <1>4. CASE i > Len(q) + 1
    <2>1. (q \o Morse)[i] = Morse[i - Len(q)] /\ i - Len(q) \in {2, 3}
      <3>1. i \in 1..Len(q) + Len(Morse) /\ ~(i <= Len(q))
        BY <1>1, <1>4
      <3>2. (q \o Morse)[i] = Morse[i - Len(q)]
        BY <1>1, <3>1, ConcatTones, Zenon
      <3>3. i - Len(q) \in {2, 3}
        BY <1>1, <1>4, <3>1
      <3> QED
        BY <3>2, <3>3, Zenon
    <2>2. Morse[2] = "space" /\ Morse[3] = "space"
      BY DEF Morse
    <2> QED
      BY <2>1, <2>2
  <1> QED
    BY <1>3, <1>4

\* A character is queued whole, or not at all.
LEMMA EnqueueMorse ==
  ASSUME NEW q \in Seq(Tones), MarksFollowed(q)
  PROVE  /\ MarksFollowed(Enqueue(q, Morse))
         /\ Len(Enqueue(q, Morse)) \in {Len(q), Len(q) + 3}
  BY MorseFollowed DEF Enqueue

LEMMA EnqueueSpace ==
  ASSUME NEW q \in Seq(Tones), MarksFollowed(q)
  PROVE  /\ Enqueue(q, <<"space">>) \in Seq(Tones)
         /\ MarksFollowed(Enqueue(q, <<"space">>))
         /\ (\E i \in 1..Len(Enqueue(q, <<"space">>)) :
               Enqueue(q, <<"space">>)[i] = "mark")
            => \E i \in 1..Len(q) : q[i] = "mark"
  <1> DEFINE r == q \o <<"space">>
  <1>1. <<"space">> \in Seq(Tones) /\ Len(<<"space">>) = 1
    BY DEF Tones
  <1>2. r \in Seq(Tones) /\ Len(r) = Len(q) + 1
    BY <1>1
  <1>3. ASSUME NEW i \in 1..Len(r), r[i] = "mark"
        PROVE  i \in 1..Len(q) /\ q[i] = "mark"
    <2>1. CASE i <= Len(q)
      BY <1>1, <1>2, <1>3, <2>1
    <2>2. CASE i > Len(q)
      <3>1. i = Len(q) + 1 /\ r[i] = "space"
        BY <1>1, <1>2, <2>2
      <3> QED
        BY <1>3, <3>1
    <2> QED
      BY <2>1, <2>2
  <1>4. MarksFollowed(r)
    BY <1>2, <1>3 DEF MarksFollowed
  <1> HIDE DEF r
  <1>5. Enqueue(q, <<"space">>) \in {q, r}
    BY DEF Enqueue, r
  <1> QED
    BY <1>2, <1>3, <1>4, <1>5

\* <ESC>c fills a queue that has room for all of it.
LEMMA EnqueueTune ==
  ASSUME NEW q \in Seq(Tones), NEW n \in Nat, Len(q) + n + 3 <= Capacity
  PROVE  LET r == Enqueue(Enqueue(q, [i \in 1..n |-> "mark"]), Morse)
         IN  MarksFollowed(r) /\ Len(r) = Len(q) + n + 3
  <1> DEFINE s == [i \in 1..n |-> "mark"]
             t == q \o s
  <1>1. s \in Seq(Tones) /\ Len(s) = n
    BY DEF Tones
  <1>2. Morse \in Seq(Tones) /\ Len(Morse) = 3
    BY DEF Morse, Tones
  <1>3. Capacity \in Nat
    BY BoundsAssumption
  <1> HIDE DEF s
  <1>4. t \in Seq(Tones) /\ Len(t) = Len(q) + n
    <2>1. Len(q \o s) = Len(q) + Len(s)
      BY <1>1, ConcatTones
    <2> QED
      BY <1>1, <2>1
  <1>5. Enqueue(q, s) = t
    BY <1>1, <1>3 DEF Enqueue
  <1> HIDE DEF t
  <1>6. Enqueue(t, Morse) = t \o Morse
    BY <1>2, <1>3, <1>4 DEF Enqueue
  <1>7. MarksFollowed(t \o Morse) /\ Len(t \o Morse) = Len(t) + 3
    BY <1>4, MorseFollowed
  <1>8. LET r == Enqueue(Enqueue(q, s), Morse)
        IN  MarksFollowed(r) /\ Len(r) = Len(q) + n + 3
    BY <1>4, <1>5, <1>6, <1>7
  <1> QED
    BY <1>8 DEF s

LEMMA TailMarks ==
  ASSUME NEW q \in Seq(Tones), q # <<>>, MarksFollowed(q)
  PROVE  /\ MarksFollowed(Tail(q)) /\ Len(Tail(q)) = Len(q) - 1
         /\ Head(q) = "mark" => Len(q) >= 3
         /\ (\E i \in 1..Len(Tail(q)) : Tail(q)[i] = "mark")
            => \E i \in 1..Len(q) : q[i] = "mark"
  <1>1. Len(q) \in Nat \ {0} /\ Len(Tail(q)) = Len(q) - 1
    OBVIOUS
  <1>2. \A i \in 1..Len(Tail(q)) : Tail(q)[i] = q[i + 1] /\ i + 1 \in 1..Len(q)
    BY <1>1
  <1>3. Head(q) = q[1] /\ 1 \in 1..Len(q)
    BY <1>1
  <1>4. Head(q) = "mark" => Len(q) >= 3
    BY <1>1, <1>3 DEF MarksFollowed
  <1>5. MarksFollowed(Tail(q))
    <2> SUFFICES ASSUME NEW i \in 1..Len(Tail(q)), Tail(q)[i] = "mark"
                 PROVE  i + 2 <= Len(Tail(q))
      BY DEF MarksFollowed
    <2>1. q[i + 1] = "mark" /\ i + 1 \in 1..Len(q)
      BY <1>2
    <2>2. (i + 1) + 2 <= Len(q)
      BY <2>1 DEF MarksFollowed
    <2> QED
      BY <1>1, <2>2
  <1> QED
    BY <1>1, <1>2, <1>4, <1>5

-----------------------------------------------------------------------------
LEMMA MainToneInv ==
  ASSUME ~Preemptive, TypeInv, RetInv, TurnInv, ToneInv,
         Receive \/ SelectTimeout \/ Handler
  PROVE  ToneInv'
  <1> USE DEF ToneInv, Tuning
  <1>1. cb = "play" /\ cb' = "play"
    BY MainAlone
  <1>2. tq \in Seq(Tones) /\ Len(tq) \in Nat
    BY DEF TypeInv, TypeOK, Tones
  <1>3. MarksFollowed(<<>>) /\ Len(<<>>) = 0
    BY DEF MarksFollowed
  <1>4. CASE Receive
    <2>1. req'.kind \in Kinds /\ toneVars' = toneVars /\ pc = "select"
      BY <1>4, RequestsAssumption DEF Receive, MainAt
    <2>2. /\ ret' = "loop" /\ pc' \in {"text", "loop", req'.kind}
      BY <1>4 DEF Receive
    <2> QED
      BY <1>1, <2>1, <2>2 DEF toneVars, Kinds
  <1>5. CASE SelectTimeout \/ Footswitch
    BY <1>1, <1>5 DEF SelectTimeout, Footswitch, MainAt, toneVars
  <1>6. CASE LoadFlag
    BY <1>1, <1>6 DEF LoadFlag, Updates, toneVars, reqVars
  <1>7. CASE StoreFlag
    BY <1>1, <1>7
    DEF StoreFlag, Updates, AfterUpdate, toneVars, reqVars, RetInv
  <1>8. CASE PttOnOff
    BY <1>1, <1>8
    DEF PttOnOff, PttOn, PttSleep, PttOffPin, PttOffFlag, MainAt, toneVars,
        reqVars, RetInv
  <1>9. CASE EndOfText \/ Speed \/ Tilde \/ Caret \/ Character
    BY <1>1, <1>9
    DEF EndOfText, Speed, Tilde, Caret, Character, AtText, MainAt, mainVars,
        toneVars, reqVars
  <1>10. CASE Send
    <2>1. tq' \in {tq, Enqueue(tq, Morse)}
      BY <1>10 DEF Send
    <2>2. MarksFollowed(tq') /\ Len(tq') \in {Len(tq), Len(tq) + 3}
      BY <1>2, <2>1, EnqueueMorse
    <2> QED
      BY <1>1, <1>2, <1>10, <2>2 DEF Send, MainAt
  <1>11. CASE Reply
    BY <1>1, <1>11
    DEF Reply, ReplyAddr, ReplyCopy, ReplyCopied, MainAt, toneVars, reqVars,
        RetInv, Preparing
  <1>12. CASE Tune
    BY <1>1, <1>3, <1>12 DEF Tune, MainAt, reqVars
  <1>13. CASE TuneTones
    <2>1. tq = <<>> /\ req.kind = "tune" /\ req \in Requests
      BY <1>13 DEF TuneTones, MainAt, RetInv, TypeInv, HasRequest
    <2>2. req.arg \in Nat /\ req.arg + 6 <= Capacity /\ Capacity \in Nat
      BY <2>1, RequestsAssumption, RoomAssumption, BoundsAssumption
    <2>3. tq' = Enqueue(Enqueue(<<>>, [i \in 1..req.arg |-> "mark"]), Morse)
      BY <1>13, <2>1 DEF TuneTones
    <2>4. MarksFollowed(tq') /\ Len(tq') = req.arg + 3
      <3>1. <<>> \in Seq(Tones) /\ Len(<<>>) + req.arg + 3 <= Capacity
        BY <2>2
      <3>2. MarksFollowed(tq') /\ Len(tq') = Len(<<>>) + req.arg + 3
        BY <2>2, <2>3, <3>1, EnqueueTune, Zenon
      <3> QED
        BY <2>2, <3>2
    <2> QED
      BY <1>1, <1>13, <2>2, <2>4 DEF TuneTones, MainAt
  <1>14. CASE AbortFlush \/ ResetReopen \/ Exit
    BY <1>1, <1>3, <1>14 DEF AbortFlush, ResetReopen, Exit, MainAt, RetInv
  <1>15. CASE PttRequest \/ PttRelease \/ SetDelay \/ Abort \/ AbortWait
              \/ AbortClear \/ WordMode \/ Reset
    BY <1>1, <1>2, <1>15
    DEF PttRequest, PttRelease, SetDelay, Abort, AbortWait, AbortClear,
        WordMode, Reset, MainAt, toneVars, reqVars, RetInv
  <1> QED
    BY <1>4, <1>5, <1>6, <1>7, <1>8, <1>9, <1>10, <1>11, <1>12, <1>13, <1>14,
       <1>15
    DEF Handler, Text, Escape

LEMMA GeneratorToneInv ==
  ASSUME ~Preemptive, TypeInv, RetInv, TurnInv, ToneInv, EchoInv, Generator
  PROVE  ToneInv'
  <1> USE DEF ToneInv, Tuning
  <1>1. tq \in Seq(Tones) /\ Len(tq) \in Nat
    BY DEF TypeInv, TypeOK, Tones
  <1>2. pc' = pc /\ ret' = ret /\ req' = req
    BY GeneratorTurnInv, GeneratorFrame
  <1>3. CASE NextTone
    <2>1. /\ tq # <<>> /\ tq' = Tail(tq) /\ tone' = Head(tq)
          /\ cb = "play" /\ cb' = IF Len(tq) = 2 THEN "check" ELSE "play"
      BY <1>3 DEF NextTone, GenAt, tq_low_watermark
    <2>2. /\ MarksFollowed(tq') /\ Len(tq') = Len(tq) - 1
          /\ tone' = "mark" => Len(tq) >= 3
      BY <1>1, <2>1, TailMarks
    <2> QED
      BY <1>1, <1>2, <2>1, <2>2
  <1>4. CASE Silence
    BY <1>2, <1>4 DEF Silence, GenAt, genVars
  <1>5. CASE CbRequeue
    <2>1. cb' = "play" /\ tone' = tone /\ tone # "mark" /\ Len(tq) = 1
      BY <1>5 DEF CbRequeue, GenAt, toneVars
    <2>2. MarksFollowed(tq')
      BY <1>1, <1>5, EnqueueSpace DEF CbRequeue
    <2>3. pc # "wait" /\ ~Tuning
      BY <2>1
    <2> QED
      BY <1>2, <2>1, <2>2, <2>3
  <1>6. CASE CbCheck \/ CbOffPin \/ CbOffFlag \/ CbCheckEcho \/ CbLoadFlag
             \/ CbStoreFlag \/ CbCrlf \/ CbSend
    <2>1. tq' = tq /\ tone' = tone /\ cb # "play"
      BY <1>6
      DEF CbCheck, CbOffPin, CbOffFlag, CbCheckEcho, CbLoadFlag, CbStoreFlag,
          CbCrlf, CbSend, GenAt, toneVars
    <2> QED
      BY <1>2, <2>1
  <1> QED
    BY <1>3, <1>4, <1>5, <1>6 DEF Generator, Callback

-----------------------------------------------------------------------------
LEMMA MainEchoInv ==
  ASSUME ~Preemptive, TypeInv, RetInv, TurnInv, EchoInv, SilentInv,
         Receive \/ SelectTimeout \/ Handler
  PROVE  EchoInv'
  <1> USE DEF EchoInv, ReplyReady, BeingPrepared, BeingAborted
  <1>1. cb = "play" /\ cb' = "play"
    BY MainAlone
  <1>2. CASE Receive
    <2>1. /\ req'.kind \in Kinds /\ pc = "select" /\ replyVars' = replyVars
          /\ ptt_flag' = ptt_flag
      BY <1>2, RequestsAssumption DEF Receive, MainAt, pttVars
    <2>2. /\ ret' = "loop" /\ pc' \in {"text", "loop", req'.kind}
      BY <1>2 DEF Receive
    <2> QED
      BY <1>1, <2>1, <2>2 DEF replyVars, Kinds
  <1>3. CASE SelectTimeout \/ Footswitch
    BY <1>1, <1>3
    DEF SelectTimeout, Footswitch, MainAt, replyVars, pttVars
  <1>4. CASE LoadFlag
    BY <1>1, <1>4 DEF LoadFlag, Updates, replyVars, pttVars
  <1>5. CASE StoreFlag
    <2>1. /\ ptt_flag' = Updated(pc, ptt_flag) /\ pc' = AfterUpdate(pc)
          /\ replyVars' = replyVars /\ pc \in Updates /\ ret' = ret
      BY <1>5 DEF StoreFlag, TurnInv, LoadedInv
    <2>2. "ECHO" \in ptt_flag' => pc = "reply" \/ "ECHO" \in ptt_flag
      BY <2>1 DEF Updated, Updates
    <2>3. pc = "reply" => pc' = "addr"
      BY <2>1 DEF AfterUpdate
    <2>4. pc' \notin {"copy", "copied"}
      BY <2>1 DEF AfterUpdate, Updates, RetInv
    <2> QED
      BY <1>1, <2>1, <2>2, <2>3, <2>4 DEF replyVars, Updates
  <1>6. CASE PttOnOff
    <2>1. CASE PttOffFlag
      BY <1>1, <2>1 DEF PttOffFlag, MainAt, RetInv
    <2>2. CASE PttOn \/ PttSleep \/ PttOffPin
      BY <1>1, <2>2
      DEF PttOn, PttSleep, PttOffPin, MainAt, replyVars, pttVars, RetInv
    <2> QED
      BY <1>6, <2>1, <2>2 DEF PttOnOff
  <1>7. CASE Text
    <2>1. /\ pc \in {"text", "send"} /\ replyVars' = replyVars
          /\ pc' \notin {"copy", "copied"} /\ ptt_flag' = ptt_flag
      BY <1>7
      DEF Text, EndOfText, Speed, Tilde, Caret, Character, Send, AtText,
          MainAt, mainVars, pttVars
    <2> QED
      BY <1>1, <2>1 DEF replyVars
  <1>8. CASE ReplyAddr
    <2>1. /\ from \in Clients /\ ReplyText \in Seq(Chars)
      BY <1>8, ReplyTextType DEF ReplyAddr, MainAt, TypeInv, HasRequest
    <2>2. ReplyText' = ReplyText
      BY <1>8 DEF ReplyAddr, ReplyText, reqVars, textVars
    <2> QED
      BY <1>1, <1>8, <2>1, <2>2 DEF ReplyAddr, reqVars
  <1>9. CASE ReplyCopy
    <2>1. ReplyText' = ReplyText
      BY <1>9 DEF ReplyCopy, ReplyText, reqVars, textVars
    <2> QED
      BY <1>1, <1>9, <2>1 DEF ReplyCopy, MainAt, reqVars
  <1>10. CASE ReplyCopied
    <2>1. /\ asked' = asked /\ reply_addr' = reply_addr
          /\ asked = [client |-> from, text |-> ReplyText] /\ reply_addr = from
          /\ reply_buffer' = [text |-> ReplyText, crlf |-> 0]
      BY <1>10 DEF ReplyCopied, MainAt
    <2>2. from \in Clients /\ ReplyText \in Seq(Chars)
      BY <1>10, ReplyTextType DEF ReplyCopied, MainAt, TypeInv, HasRequest
    <2>3. asked # None
      BY <2>1, <2>2, NoneAssumption
    <2>4. pc' \notin {"copy", "copied"}
      BY <1>10 DEF ReplyCopied, MainAt, RetInv, Preparing
    <2> QED
      BY <1>1, <2>1, <2>3, <2>4
  <1>11. CASE Abort
    BY <1>1, <1>11 DEF Abort, MainAt, pttVars
  <1>12. CASE AbortClear \/ ResetReopen
    BY <1>1, <1>12 DEF AbortClear, ResetReopen
  <1>13. CASE AbortFlush \/ AbortWait
    BY <1>1, <1>13 DEF AbortFlush, AbortWait, MainAt, pttVars
  <1>14. CASE PttRequest \/ PttRelease \/ SetDelay \/ Tune \/ TuneTones
              \/ WordMode \/ Reset \/ Exit
    <2>1. /\ replyVars' = replyVars /\ ptt_flag' = ptt_flag
          /\ pc' \notin {"copy", "copied"} /\ ~BeingPrepared
      BY <1>14
      DEF PttRequest, PttRelease, SetDelay, Tune, TuneTones, WordMode, Reset,
          Exit, MainAt, pttVars
    <2>2. ~BeingAborted
      BY <1>14
      DEF PttRequest, PttRelease, SetDelay, Tune, TuneTones, WordMode, Reset,
          Exit, MainAt
    <2> QED
      BY <1>1, <2>1, <2>2 DEF replyVars
  <1> QED
    BY <1>2, <1>3, <1>4, <1>5, <1>6, <1>7, <1>8, <1>9, <1>10, <1>11, <1>12,
       <1>13, <1>14
    DEF Handler, Reply, Escape

LEMMA GeneratorEchoInv ==
  ASSUME ~Preemptive, TypeInv, RetInv, TurnInv, ToneInv, EchoInv, Generator
  PROVE  EchoInv'
  <1> USE DEF EchoInv, ReplyReady, BeingPrepared, BeingAborted
  <1>1. /\ pc' = pc /\ ret' = ret /\ req' = req /\ from' = from
        /\ reply_addr' = reply_addr /\ request_queue' = request_queue
        /\ pc \in Blocking
    BY GeneratorTurnInv, GeneratorFrame
  <1>2. ~BeingPrepared /\ pc \notin {"copy", "copied"}
    BY <1>1 DEF Blocking
  <1>3. BeingAborted => cb = "play" /\ tq = <<>>
    BY <1>1 DEF Blocking, ToneInv
  <1>4. CASE NextTone \/ Silence
    <2>1. /\ ptt_flag' = ptt_flag /\ replyVars' = replyVars
          /\ cb' \in {"play", "check"}
      BY <1>4 DEF NextTone, Silence, GenAt, pttVars, genVars
    <2> QED
      BY <1>1, <1>2, <2>1 DEF replyVars
  <1>5. CASE CbCheck \/ CbOffPin \/ CbRequeue
    <2>1. /\ ptt_flag' = ptt_flag /\ replyVars' = replyVars
          /\ cb' \in {"play", "check_echo", "off_pin", "off_flag"}
      BY <1>5 DEF CbCheck, CbOffPin, CbRequeue, pttVars
    <2> QED
      BY <1>1, <1>2, <2>1 DEF replyVars
  <1>6. CASE CbOffFlag
    BY <1>1, <1>2, <1>6 DEF CbOffFlag
  <1>7. CASE CbCheckEcho \/ CbLoadFlag
    <2>1. /\ ptt_flag' = ptt_flag /\ replyVars' = replyVars
          /\ cb' \in {"play", "load", "store"}
          /\ cb' # "play" => "ECHO" \in ptt_flag
      BY <1>7 DEF CbCheckEcho, CbLoadFlag, GenAt, pttVars
    <2> QED
      BY <1>1, <1>2, <2>1 DEF replyVars
  <1>8. CASE CbStoreFlag
    <2>1. /\ replyVars' = replyVars /\ cb = "store" /\ cb' = "crlf"
          /\ "ECHO" \notin ptt_flag'
      BY <1>8 DEF CbStoreFlag, GenAt
    <2> QED
      BY <1>1, <1>2, <1>3, <2>1 DEF replyVars
  <1>9. CASE CbCrlf
    <2>1. /\ cb = "crlf" /\ cb' = "send" /\ asked' = asked
          /\ ptt_flag' = ptt_flag
      BY <1>9 DEF CbCrlf, GenAt, pttVars
    <2>2. reply_buffer' = [text |-> asked.text, crlf |-> 1]
      BY <1>9, <2>1 DEF CbCrlf
    <2>3. "ECHO" \notin ptt_flag
      BY <2>1
    <2> QED
      BY <1>1, <1>2, <2>1, <2>2, <2>3
  <1>10. CASE CbSend
    <2>1. "ECHO" \notin ptt_flag
      BY <1>10 DEF CbSend, GenAt
    <2> QED
      BY <1>1, <1>2, <1>10, <2>1 DEF CbSend, GenAt, pttVars
  <1> QED
    BY <1>4, <1>5, <1>6, <1>7, <1>8, <1>9, <1>10 DEF Generator, Callback

-----------------------------------------------------------------------------
LEMMA InitReplyServiceInv == Init => ReplyServiceInv
  <1> SUFFICES ASSUME Init PROVE ReplyServiceInv
    OBVIOUS
  <1>1. TypeInv
    BY InitTypeInv
  <1>2. RetInv /\ TurnInv /\ SilentInv
    BY DEF Init, RetInv, Preparing, TurnInv, CoopInv, LoadedInv, Updates,
           SilentInv, Aborting
  <1>3. ToneInv
    BY DEF Init, ToneInv, MarksFollowed, Tuning
  <1>4. EchoInv
    BY DEF Init, EchoInv
  <1> QED
    BY <1>1, <1>2, <1>3, <1>4 DEF ReplyServiceInv

LEMMA StepReplyServiceInv ==
  ASSUME ~Preemptive, ReplyServiceInv, [Next]_vars
  PROVE  ReplyServiceInv'
  <1> USE DEF ReplyServiceInv
  <1>1. TypeInv' /\ RetInv' /\ SilentInv'
    BY StepTypeInv, StepRetInv, MainSilentInv, GeneratorSilentInv
    DEF Next, Terminated
  <1>2. CASE Terminated \/ UNCHANGED vars
    <2>1. UNCHANGED vars
      BY <1>2 DEF Terminated
    <2>2. ReplyText' = ReplyText
      BY <2>1 DEF vars, reqVars, textVars, ReplyText
    <2> QED
      BY <1>1, <2>1, <2>2
      DEF vars, pttVars, toneVars, replyVars, mainVars, reqVars, genVars,
          TurnInv, CoopInv, LoadedInv, ToneInv, MarksFollowed, Tuning, EchoInv,
          ReplyReady, BeingPrepared, BeingAborted
  <1>3. CASE Receive \/ SelectTimeout \/ Handler
    BY <1>1, <1>3, MainTurnInv, MainToneInv, MainEchoInv
  <1>4. CASE Generator
    BY <1>1, <1>4, GeneratorTurnInv, GeneratorToneInv, GeneratorEchoInv
  <1> QED
    BY <1>2, <1>3, <1>4 DEF Next

LEMMA ReplyServiceInvariant ==
  ASSUME ~Preemptive PROVE Spec => []ReplyServiceInv
  <1>1. Init => ReplyServiceInv
    BY InitReplyServiceInv
  <1>2. ReplyServiceInv /\ [Next]_vars => ReplyServiceInv'
    BY StepReplyServiceInv
  <1> QED
    BY <1>1, <1>2, PTL DEF Spec

\* When the threads overlap only while one of them blocks, the reply that is
\* sent is the one asked for last: its text, its client, one CRLF.  The flag,
\* the address and the text are written and read at different places of two
\* threads; EchoInv says how they belong together in between.
THEOREM ReplyIsCorrect ==
  ASSUME ~Preemptive PROVE Spec => []ReplyCorrect
  <1>1. ReplyServiceInv => ReplyCorrect
    BY DEF ReplyServiceInv, EchoInv, ReplyReady, ReplyCorrect
  <1>2. Spec => []ReplyServiceInv
    BY ReplyServiceInvariant
  <1> QED
    BY <1>1, <1>2, PTL

\* No mark is left when a callback runs.
LEMMA CallbackSilent ==
  ASSUME TypeInv, ToneInv, cb # "play"
  PROVE  ~Keying
  <1>1. tone # "mark" /\ Len(tq) = 1
    BY DEF ToneInv
  <1>2. ASSUME NEW i \in 1..Len(tq) PROVE tq[i] # "mark"
    BY <1>1, <1>2 DEF ToneInv, MarksFollowed
  <1> QED
    BY <1>1, <1>2 DEF Keying

\* The callback replies when the last mark has been keyed, whatever texts,
\* tunes and aborts came before: a mark is followed by two tones, and the
\* callback is called for the last tone but one.
THEOREM EchoIsAfterPlaying ==
  ASSUME ~Preemptive PROVE Spec => []EchoAfterPlaying
  <1>1. ReplyServiceInv => EchoAfterPlaying
    BY CallbackSilent DEF ReplyServiceInv, EchoAfterPlaying, Keying
  <1>2. Spec => []ReplyServiceInv
    BY ReplyServiceInvariant
  <1> QED
    BY <1>1, <1>2, PTL

-----------------------------------------------------------------------------
(***************************************************************************)
(* The keyer implements ReplyService: a step asks, answers, breaks off or  *)
(* forgets, or does nothing that a waiting client could notice.            *)
(***************************************************************************)
LEMMA KeyingType == Keying \in BOOLEAN /\ Keying' \in BOOLEAN
  BY DEF Keying

\* A step that leaves the reply alone and sends nothing.
LEMMA QuietStep ==
  ASSUME asked' = asked, SentNow' = SentNow
  PROVE  Service!Key
  BY KeyingType DEF Service!Key

LEMMA MainReplyService ==
  ASSUME ~Preemptive, ReplyServiceInv, Receive \/ SelectTimeout \/ Handler
  PROVE  Service!Next
  <1>1. cb = "play" /\ cb' = "play"
    BY MainAlone
  <1>2. pc # "flush" => SentNow = None
    BY <1>1 DEF SentNow
  <1>3. pc' # "flush" => SentNow' = None
    BY <1>1 DEF SentNow
  <1>4. CASE ReplyAddr
    <2>1. from \in Clients /\ ReplyText \in Seq(Chars)
      BY <1>4, ReplyTextType
      DEF ReplyAddr, MainAt, ReplyServiceInv, TypeInv, HasRequest
    <2>2. asked' \in [client : Clients, text : Seq(Chars)]
      BY <1>4, <2>1 DEF ReplyAddr
    <2>3. SentNow = None /\ SentNow' = None
      BY <1>2, <1>3, <1>4 DEF ReplyAddr, MainAt
    <2>4. Keying' = Keying
      BY <1>4 DEF ReplyAddr, toneVars, Keying
    <2> QED
      BY <2>2, <2>3, <2>4 DEF Service!Next, Service!Ask
  <1>5. CASE Abort
    <2>1. CASE ~wordmode /\ "ECHO" \in ptt_flag
      <3>1. asked # None /\ reply_addr = asked.client
        BY <1>5, <2>1
        DEF Abort, MainAt, ReplyServiceInv, EchoInv, ReplyReady,
            BeingPrepared, BeingAborted
      <3>2. /\ asked' = None /\ pc' = "flush" /\ reply_addr' = reply_addr
            /\ ptt_flag' = ptt_flag /\ pc = "abort"
        BY <1>5, <2>1 DEF Abort, MainAt, pttVars
      <3>3. SentNow = None /\ SentNow' = [client |-> asked.client, kind |-> "break"]
        BY <1>1, <1>2, <2>1, <3>1, <3>2 DEF SentNow, SentBreak
      <3>4. Keying' = Keying
        BY <1>5 DEF Abort, toneVars, Keying
      <3> QED
        BY <3>1, <3>2, <3>3, <3>4 DEF Service!Next, Service!Break
    <2>2. CASE ~(~wordmode /\ "ECHO" \in ptt_flag)
      <3>1. /\ asked' = asked /\ pc = "abort" /\ ptt_flag' = ptt_flag
            /\ pc' = "flush" => "ECHO" \notin ptt_flag
        BY <1>5, <2>2 DEF Abort, MainAt, pttVars
      <3>2. SentNow = None /\ SentNow' = None
        BY <1>1, <3>1 DEF SentNow
      <3> QED
        BY <3>1, <3>2, QuietStep DEF Service!Next
    <2> QED
      BY <2>1, <2>2
  <1>6. CASE AbortFlush
    <2>1. asked' = asked /\ SentNow' = None
      BY <1>3, <1>6 DEF AbortFlush, replyVars
    <2> QED
      BY <2>1, KeyingType DEF Service!Next, Service!Sent
  <1>7. CASE ResetReopen
    <2>1. asked' = None /\ SentNow = None /\ SentNow' = None
      BY <1>2, <1>3, <1>7 DEF ResetReopen, MainAt
    <2>2. Keying' = FALSE
      BY <1>7 DEF ResetReopen, Keying
    <2> QED
      BY <2>1, <2>2 DEF Service!Next, Service!Forget
  <1>8. CASE \/ Receive \/ SelectTimeout \/ Footswitch \/ LoadFlag \/ StoreFlag
             \/ PttOnOff \/ Text
    <2>1. asked' = asked /\ pc # "flush"
      BY <1>8
      DEF Receive, SelectTimeout, Footswitch, LoadFlag, StoreFlag, Updates,
          PttOnOff, PttOn, PttSleep, PttOffPin, PttOffFlag, Text, EndOfText,
          Speed, Tilde, Caret, Character, Send, AtText, MainAt, replyVars
    <2>2. pc' # "flush"
      <3>1. CASE Receive
        <4>1. req'.kind \in Kinds
          BY <3>1, RequestsAssumption DEF Receive
        <4> QED
          BY <3>1, <4>1 DEF Receive, Kinds
      <3>2. CASE ~Receive
        BY <1>8, <3>2
        DEF SelectTimeout, Footswitch, LoadFlag, StoreFlag, Updates,
            AfterUpdate, PttOnOff, PttOn, PttSleep, PttOffPin, PttOffFlag,
            Text, EndOfText, Speed, Tilde, Caret, Character, Send, AtText,
            MainAt, mainVars, ReplyServiceInv, RetInv
      <3> QED
        BY <3>1, <3>2
    <2> QED
      BY <1>2, <1>3, <2>1, <2>2, QuietStep DEF Service!Next
  <1>9. CASE \/ ReplyCopy \/ ReplyCopied \/ PttRequest \/ PttRelease
             \/ SetDelay \/ Tune \/ TuneTones \/ AbortWait \/ AbortClear
             \/ WordMode \/ Reset \/ Exit
    <2>1. asked' = asked /\ pc # "flush" /\ pc' # "flush"
      BY <1>9
      DEF ReplyCopy, ReplyCopied, PttRequest, PttRelease, SetDelay, Tune,
          TuneTones, AbortWait, AbortClear, WordMode, Reset, Exit, MainAt,
          replyVars, ReplyServiceInv, RetInv, Preparing
    <2> QED
      BY <1>2, <1>3, <2>1, QuietStep DEF Service!Next
  <1> QED
    BY <1>4, <1>5, <1>6, <1>7, <1>8, <1>9 DEF Handler, Reply, Escape

LEMMA GeneratorReplyService ==
  ASSUME ~Preemptive, ReplyServiceInv, Generator
  PROVE  Service!Next
  <1> USE DEF ReplyServiceInv
  <1>1. /\ pc \in Blocking /\ pc' = pc /\ reply_addr' = reply_addr
    BY GeneratorTurnInv, GeneratorFrame
  <1>2. pc # "flush"
    BY <1>1 DEF Blocking
  <1>3. /\ cb # "requeue" => SentNow = None
        /\ cb' # "requeue" => SentNow' = None
    BY <1>1, <1>2 DEF SentNow
  <1>4. CASE CbSend
    <2>1. /\ asked # None /\ reply_addr = asked.client
          /\ reply_buffer = [text |-> asked.text, crlf |-> 1] /\ cb = "send"
      BY <1>4 DEF CbSend, GenAt, EchoInv, ReplyReady
    <2>2. asked' = None /\ cb' = "requeue" /\ reply_buffer' = reply_buffer
      BY <1>4, <2>1 DEF CbSend
    <2>3. SentNow' = [client |-> asked.client, kind |-> "reply",
                      text |-> asked.text]
      BY <1>1, <2>1, <2>2 DEF SentNow, SentReply
    <2>4. ~Keying /\ Keying' = Keying
      BY <1>4, <2>1, CallbackSilent DEF CbSend, toneVars, Keying
    <2> QED
      BY <1>3, <2>1, <2>2, <2>3, <2>4 DEF Service!Next, Service!Answer
  <1>5. CASE CbRequeue
    <2>1. asked' = asked /\ SentNow' = None
      BY <1>3, <1>5 DEF CbRequeue, replyVars
    <2> QED
      BY <2>1, KeyingType DEF Service!Next, Service!Sent
  <1>6. CASE \/ NextTone \/ Silence \/ CbCheck \/ CbOffPin \/ CbOffFlag
             \/ CbCheckEcho \/ CbLoadFlag \/ CbStoreFlag \/ CbCrlf
    <2>1. asked' = asked /\ cb # "requeue" /\ cb' # "requeue"
      BY <1>6
      DEF NextTone, Silence, CbCheck, CbOffPin, CbOffFlag, CbCheckEcho,
          CbLoadFlag, CbStoreFlag, CbCrlf, GenAt, replyVars, genVars
    <2> QED
      BY <1>3, <2>1, QuietStep DEF Service!Next
  <1> QED
    BY <1>4, <1>5, <1>6 DEF Generator, Callback

\* The keyer keeps what ReplyService promises: the client that asked last is
\* answered with its own text when nothing is left to key, or is sent the
\* break; nobody else is sent anything, and nothing is sent twice.
THEOREM RefinesReplyService ==
  ASSUME ~Preemptive PROVE Spec => ImplementsReplyService
  <1>1. Init => Service!Init
    <2> SUFFICES ASSUME Init PROVE Service!Init
      OBVIOUS
    <2>1. asked = None /\ SentNow = None
      BY DEF Init, SentNow
    <2>2. Keying = FALSE
      BY DEF Init, Keying
    <2> QED
      BY <2>1, <2>2 DEF Service!Init
  <1>2. ReplyServiceInv /\ [Next]_vars => [Service!Next]_Service!vars
    <2>1. CASE Terminated \/ UNCHANGED vars
      <3>1. asked' = asked /\ SentNow' = SentNow /\ Keying' = Keying
        BY <2>1
        DEF Terminated, vars, replyVars, genVars, mainVars, pttVars, toneVars,
            SentNow, SentReply, SentBreak, Keying
      <3> QED
        BY <3>1 DEF Service!vars
    <2> QED
      BY <2>1, MainReplyService, GeneratorReplyService DEF Next
  <1>3. Spec => []ReplyServiceInv
    BY ReplyServiceInvariant
  <1> QED
    BY <1>1, <1>2, <1>3, PTL DEF Spec, ImplementsReplyService, Service!Spec
=============================================================================
