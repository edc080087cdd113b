--------------------------- MODULE KeyerPttProofs ---------------------------
(***************************************************************************)
(* PTT and keying when the threads interleave in any way, for every PTT    *)
(* delay and with a footswitch: nothing is keyed with PTT off, PTT is not  *)
(* on without its flag, and PttService is implemented, except after one of *)
(* the causes that KeyerRaces names, and then only until the keyer is      *)
(* quiet.                                                                  *)
(***************************************************************************)
EXTENDS KeyerCoopProofs, KeyerRaces

(***************************************************************************)
(* What holds in any case.  The tones: a callback never finds a mark being *)
(* played, nor libcw idle; <ESC>c, once it has emptied the queue, finds in *)
(* it at most what one callback has added; and when <ESC>4 has waited for  *)
(* the queue, no callback is running any more.                             *)
(***************************************************************************)
RegInv == pc \notin Updates \cup {"aborted"} => reg = None
NoMark(q) == \A i \in 1..Len(q) : q[i] # "mark"
SomeTones ==
  /\ MarksFollowed(tq)
  /\ tone = "mark" => Len(tq) >= 2 \/ Tuning \/ pc = "wait"
  /\ cb # "play" => tone = "space"
  /\ Tuning => NoMark(tq) /\ Len(tq) <= 3 /\ (cb # "play" => Len(tq) <= 1)
  /\ Tuning \/ pc = "tune" => req.kind = "tune"
  /\ Aborting /\ ret = "clear" => tq = <<>> /\ tone = "none" /\ cb = "play"
AnyInv == TypeInv /\ RetInv /\ RegInv /\ SomeTones

(***************************************************************************)
(* What holds as long as nothing has disturbed the keyer.  A character is  *)
(* queued after AUTO has been found or set, so AUTO must mean that the pin *)
(* is on; the callback clears both in two steps, and decides on it by AUTO *)
(* being the only flag.  A flag that a thread has loaded is still the flag *)
(* when it stores it back.                                                 *)
(***************************************************************************)
Loaded ==
  /\ pc \in Updates /\ reg # None => reg = ptt_flag
  /\ cb = "store" => cbreg = ptt_flag
AutoInv ==
  /\ "AUTO" \in ptt_flag => \/ ptt_pin \/ cb = "off_flag"
                            \/ pc \in {"off_flag", "exited", "aborted"}
  /\ pc \in {"sleep", "auto"} => ptt_pin
FlagUseInv ==
  /\ "MANUAL" \in ptt_flag => "AUTO" \in ptt_flag
  /\ pc \in {"send", "tones", "manual", "unmanual", "release", "reauto"}
       => "AUTO" \in ptt_flag
  /\ cb \in {"off_pin", "off_flag"} => ptt_flag = {"AUTO"}
PinInverse ==
  /\ ptt_pin => "AUTO" \in ptt_flag \/ pc \in {"sleep", "auto", "aborted"}
  /\ cb = "off_flag" \/ pc \in {"off_flag", "clear"} => ~ptt_pin
KeyingInv ==
  /\ Keying => ptt_pin
  /\ pc \in {"off_pin", "off_flag"} \/ cb \in {"off_pin", "off_flag"}
       => ~Keying
CalmInv == Loaded /\ AutoInv /\ FlagUseInv /\ PinInverse /\ KeyingInv

Undisturbed == ~Overlap /\ (delay # 0 \/ Quiet) /\ CalmInv
PttInv == AnyInv /\ (disturbed = {} => Undisturbed)

-----------------------------------------------------------------------------
\* The main thread leaves the generator's thread where it is.
LEMMA MainFrame ==
  ASSUME Receive \/ SelectTimeout \/ Handler
  PROVE  cb' = cb /\ cbreg' = cbreg
  <1>1. CASE Receive \/ SelectTimeout \/ Footswitch \/ LoadFlag \/ StoreFlag
    BY <1>1
    DEF Receive, SelectTimeout, Footswitch, LoadFlag, StoreFlag, genVars
  <1>2. CASE PttOnOff \/ Text \/ Reply
    BY <1>2
    DEF PttOnOff, PttOn, PttSleep, PttOffPin, PttOffFlag, Text, EndOfText,
        Speed, Tilde, Caret, Character, Send, Reply, ReplyAddr, ReplyCopy,
        ReplyCopied, genVars
  <1>3. CASE Escape
    BY <1>3
    DEF Escape, PttRequest, PttRelease, SetDelay, Tune, TuneTones, Abort,
        AbortFlush, AbortWait, AbortClear, WordMode, Reset, ResetReopen, Exit,
        genVars
  <1> QED
    BY <1>1, <1>2, <1>3 DEF Handler

LEMMA StepRegInv ==
  ASSUME TypeInv, RegInv, [Next]_vars
  PROVE  RegInv'
  <1> USE DEF RegInv
  <1>1. CASE Receive
    BY <1>1 DEF Receive, MainAt, Updates
  <1>2. CASE LoadFlag
    BY <1>2 DEF LoadFlag
  <1>3. CASE StoreFlag
    BY <1>3 DEF StoreFlag
  <1>4. CASE SelectTimeout \/ Footswitch \/ PttOnOff \/ Text \/ Reply \/ Escape
    <2>1. pc \notin Updates \cup {"aborted"} /\ reg' = reg
      BY <1>4
      DEF SelectTimeout, Footswitch, PttOnOff, PttOn, PttSleep, PttOffPin,
          PttOffFlag, Text, EndOfText, Speed, Tilde, Caret, Character, Send,
          AtText, Reply, ReplyAddr, ReplyCopy, ReplyCopied, Escape, PttRequest,
          PttRelease, SetDelay, Tune, TuneTones, Abort, AbortFlush, AbortWait,
          AbortClear, WordMode, Reset, ResetReopen, Exit, MainAt, mainVars,
          Updates
    <2> QED
      BY <2>1
  <1>5. CASE Generator
    BY <1>5, GeneratorFrame
  <1>6. CASE Terminated \/ UNCHANGED vars
    BY <1>6 DEF Terminated, vars, mainVars
  <1> QED
    BY <1>1, <1>2, <1>3, <1>4, <1>5, <1>6 DEF Next, Handler

-----------------------------------------------------------------------------
LEMMA MainSomeTones ==
  ASSUME TypeInv, RetInv, SomeTones, Receive \/ SelectTimeout \/ Handler
  PROVE  SomeTones'
  <1> USE DEF SomeTones, Tuning, Aborting
  <1>1. cb' = cb
    BY MainFrame
  <1>2. tq \in Seq(Tones) /\ Len(tq) \in Nat
    BY DEF TypeInv, TypeOK, Tones
  <1>3. MarksFollowed(<<>>) /\ Len(<<>>) = 0 /\ NoMark(<<>>)
    BY DEF MarksFollowed, NoMark
  <1>4. CASE Receive
    <2>1. req'.kind \in Kinds /\ toneVars' = toneVars /\ pc = "select"
      BY <1>4, RequestsAssumption DEF Receive, MainAt
    <2>2. ret' = "loop" /\ pc' \in {"text", "loop", req'.kind}
      BY <1>4 DEF Receive
    <2> QED
      BY <1>1, <2>1, <2>2 DEF toneVars, Kinds
  <1>5. CASE SelectTimeout \/ Footswitch
    BY <1>1, <1>5 DEF SelectTimeout, Footswitch, MainAt, toneVars
  <1>6. CASE LoadFlag
    BY <1>1, <1>6 DEF LoadFlag, Updates, toneVars, reqVars
  <1>7. CASE StoreFlag
    BY <1>1, <1>7
    DEF StoreFlag, Updates, AfterUpdate, toneVars, reqVars, RetInv
  <1>8. CASE PttOnOff
    BY <1>1, <1>8
    DEF PttOnOff, PttOn, PttSleep, PttOffPin, PttOffFlag, MainAt, toneVars,
        reqVars, RetInv
  <1>9. CASE EndOfText \/ Speed \/ Tilde \/ Caret \/ Character
    BY <1>1, <1>9
    DEF EndOfText, Speed, Tilde, Caret, Character, AtText, MainAt, mainVars,
        toneVars, reqVars
  <1>10. CASE Send
    <2>1. tq' \in {tq, Enqueue(tq, Morse)}
      BY <1>10 DEF Send
    <2>2. MarksFollowed(tq') /\ Len(tq') \in {Len(tq), Len(tq) + 3}
      BY <1>2, <2>1, EnqueueMorse
    <2> QED
      BY <1>1, <1>2, <1>10, <2>2 DEF Send, MainAt
  <1>11. CASE Reply
    BY <1>1, <1>11
    DEF Reply, ReplyAddr, ReplyCopy, ReplyCopied, MainAt, toneVars, reqVars,
        RetInv, Preparing
  <1>12. CASE Tune
    BY <1>1, <1>3, <1>12 DEF Tune, MainAt, reqVars
  <1>13. CASE TuneTones
    <2>1. Len(tq) <= 3 /\ req.kind = "tune" /\ req \in Requests
      BY <1>13 DEF TuneTones, MainAt, RetInv, TypeInv, HasRequest
    <2>2. req.arg \in Nat /\ req.arg + 6 <= Capacity /\ Capacity \in Nat
      BY <2>1, RequestsAssumption, RoomAssumption, BoundsAssumption
    <2>3. tq' = Enqueue(Enqueue(tq, [i \in 1..req.arg |-> "mark"]), Morse)
      BY <1>13 DEF TuneTones
    <2>4. Len(tq) + req.arg + 3 <= Capacity
      BY <1>2, <2>1, <2>2
    <2>5. MarksFollowed(tq') /\ Len(tq') = Len(tq) + req.arg + 3
      BY <1>2, <2>2, <2>3, <2>4, EnqueueTune, Zenon
    <2> QED
      BY <1>1, <1>2, <1>13, <2>2, <2>5 DEF TuneTones, MainAt
  <1>14. CASE AbortFlush \/ ResetReopen \/ Exit
    BY <1>1, <1>3, <1>14 DEF AbortFlush, ResetReopen, Exit, MainAt, RetInv
  <1>15. CASE AbortWait
    BY <1>1, <1>15 DEF AbortWait, MainAt, toneVars, reqVars
  <1>16. CASE PttRequest \/ PttRelease \/ SetDelay \/ Abort
              \/ AbortClear \/ WordMode \/ Reset
    BY <1>1, <1>2, <1>16
    DEF PttRequest, PttRelease, SetDelay, Abort, AbortClear,
        WordMode, Reset, MainAt, toneVars, reqVars, RetInv
  <1> QED
    BY <1>4, <1>5, <1>6, <1>7, <1>8, <1>9, <1>10, <1>11, <1>12, <1>13, <1>14,
       <1>15, <1>16
    DEF Handler, Text, Escape

LEMMA EnqueueTwoSpaces ==
  ASSUME NEW q \in Seq(Tones), MarksFollowed(q)
  PROVE  LET r == Enqueue(Enqueue(q, <<"space">>), <<"space">>)
         IN  /\ MarksFollowed(r) /\ Len(r) \in Len(q)..Len(q) + 2
             /\ NoMark(q) => NoMark(r)
  <1> DEFINE p == Enqueue(q, <<"space">>)
             r == Enqueue(p, <<"space">>)
  <1>1. ASSUME NEW s \in Seq(Tones)
        PROVE  Len(Enqueue(s, <<"space">>)) \in {Len(s), Len(s) + 1}
    BY DEF Enqueue, Tones
  <1>2. /\ p \in Seq(Tones) /\ MarksFollowed(p)
        /\ (\E i \in 1..Len(p) : p[i] = "mark")
           => \E i \in 1..Len(q) : q[i] = "mark"
    BY EnqueueSpace
  <1>3. Len(p) \in {Len(q), Len(q) + 1}
    BY <1>1
  <1> HIDE DEF p
  <1>4. /\ MarksFollowed(r)
        /\ (\E i \in 1..Len(r) : r[i] = "mark")
           => \E i \in 1..Len(p) : p[i] = "mark"
    BY <1>2, EnqueueSpace
  <1>5. Len(r) \in {Len(p), Len(p) + 1}
    BY <1>1, <1>2
  <1>6. NoMark(q) => NoMark(r)
    BY <1>2, <1>4 DEF NoMark
  <1>7. Len(r) \in Len(q)..Len(q) + 2
    BY <1>3, <1>5
  <1> QED
    BY <1>4, <1>6, <1>7 DEF p

LEMMA GeneratorSomeTones ==
  ASSUME TypeInv, RetInv, SomeTones, Generator
  PROVE  SomeTones'
  <1> USE DEF SomeTones, Tuning, Aborting
  <1>1. tq \in Seq(Tones) /\ Len(tq) \in Nat
    BY DEF TypeInv, TypeOK, Tones
  <1>2. pc' \in {pc, "aborted"} /\ ret' = ret /\ req' = req
    BY GeneratorFrame
  <1>3. CASE NextTone
    <2>1. /\ tq # <<>> /\ tq' = Tail(tq) /\ tone' = Head(tq)
          /\ cb = "play" /\ cb' = IF Len(tq) = 2 THEN "check" ELSE "play"
          /\ pc' = pc
      BY <1>3 DEF NextTone, GenAt, tq_low_watermark, mainVars
    <2>2. /\ MarksFollowed(tq') /\ Len(tq') = Len(tq) - 1
          /\ tone' = "mark" => Len(tq) >= 3
      BY <1>1, <2>1, TailMarks
    <2>3. NoMark(tq) => NoMark(tq')
      BY <1>1, <2>1, TailMarks DEF NoMark
    <2>4. tone' \in {"mark", "space"}
      BY <1>1, <2>1 DEF Tones
    <2>5. Len(tq') <= 3 \/ ~Tuning
      BY <1>1, <2>2
    <2> QED
      BY <1>1, <1>2, <2>1, <2>2, <2>3, <2>4, <2>5
  <1>4. CASE Silence
    BY <1>2, <1>4 DEF Silence, GenAt, genVars, mainVars
  <1>5. CASE CbRequeue
    <2>1. cb' = "play" /\ cb = "requeue" /\ tone' = tone /\ tone = "space"
          /\ pc' = pc
      BY <1>5 DEF CbRequeue, GenAt, toneVars, mainVars
    <2>2. /\ MarksFollowed(tq') /\ Len(tq') \in Len(tq)..Len(tq) + 2
          /\ NoMark(tq) => NoMark(tq')
      <3>1. CASE tq' = tq
        BY <1>1, <3>1
      <3>2. CASE tq' = Enqueue(Enqueue(tq, <<"space">>), <<"space">>)
        BY <1>1, <3>2, EnqueueTwoSpaces
      <3> QED
        BY <1>5, <3>1, <3>2 DEF CbRequeue
    <2> QED
      BY <1>1, <1>2, <2>1, <2>2
  <1>6. CASE CbCheck \/ CbOffPin \/ CbOffFlag \/ CbCheckEcho \/ CbLoadFlag
             \/ CbStoreFlag \/ CbCrlf \/ CbSend
    <2>1. tq' = tq /\ tone' = tone /\ cb # "play"
      BY <1>6
      DEF CbCheck, CbOffPin, CbOffFlag, CbCheckEcho, CbLoadFlag, CbStoreFlag,
          CbCrlf, CbSend, GenAt, toneVars
    <2> QED
      BY <1>2, <2>1
  <1> QED
    BY <1>3, <1>4, <1>5, <1>6 DEF Generator, Callback

LEMMA StepAnyInv ==
  ASSUME AnyInv, [Next]_vars
  PROVE  AnyInv'
  <1> USE DEF AnyInv
  <1>1. TypeInv' /\ RetInv' /\ RegInv'
    BY StepTypeInv, StepRetInv, StepRegInv
  <1>2. CASE Terminated \/ UNCHANGED vars
    BY <1>1, <1>2
    DEF Terminated, vars, toneVars, mainVars, reqVars, genVars, SomeTones,
        MarksFollowed, NoMark, Tuning, Aborting
  <1> QED
    BY <1>1, <1>2, MainSomeTones, GeneratorSomeTones DEF Next

LEMMA InitAnyInv == Init => AnyInv
  <1> SUFFICES ASSUME Init PROVE AnyInv
    OBVIOUS
  <1>1. TypeInv
    BY InitTypeInv
  <1>2. RetInv /\ RegInv
    BY DEF Init, RetInv, Preparing, RegInv, Updates
  <1>3. SomeTones
    BY DEF Init, SomeTones, MarksFollowed, Tuning, Aborting
  <1> QED
    BY <1>1, <1>2, <1>3 DEF AnyInv

-----------------------------------------------------------------------------
\* When no cause comes, a step of the main thread keeps the flag and the pin
\* together.
Smooth == ~Overlap /\ ~Overlap' /\ ~DelayZero /\ ~FootswitchMoved

LEMMA MainFlagUse ==
  ASSUME AnyInv, CalmInv, Smooth, Receive \/ SelectTimeout \/ Handler
  PROVE  Loaded' /\ AutoInv' /\ FlagUseInv' /\ PinInverse'
  <1> USE DEF AnyInv, CalmInv, Loaded, AutoInv, FlagUseInv, PinInverse
  <1>1. cb' = cb /\ cbreg' = cbreg
    BY MainFrame
  <1>2. /\ pc \in {"ptt_on", "sleep", "send", "tones", "release", "off_flag"}
                 \cup Updates => cb \notin {"off_pin", "off_flag", "store"}
        /\ pc' \in {"ptt_on", "sleep", "send", "tones", "release", "off_flag"}
                  \cup Updates => cb' \notin {"off_pin", "off_flag", "store"}
    BY DEF Smooth, Overlap
  <1>3. CASE Receive
    <2>1. /\ req'.kind \in Kinds /\ pc = "select" /\ pttVars' = pttVars
          /\ pc' \in {"text", "loop", req'.kind} /\ reg' = None
      BY <1>3, RequestsAssumption DEF Receive, MainAt, RegInv, Updates
    <2> QED
      BY <1>1, <2>1 DEF Kinds, pttVars, Updates
  <1>4. CASE SelectTimeout \/ Footswitch
    <2>1. /\ pttVars' = pttVars /\ pc \in {"select", "loop"}
          /\ pc' \in {"select", "loop"}
      <3>1. Footswitch => ptt_pin' = ptt_pin
        BY DEF Smooth, FootswitchMoved
      <3> QED
        BY <1>4, <3>1 DEF SelectTimeout, Footswitch, MainAt, pttVars
    <2> QED
      BY <1>1, <2>1 DEF pttVars, Updates
  <1>5. CASE LoadFlag
    <2>1. pc' = pc /\ pc \in Updates /\ reg' = ptt_flag /\ pttVars' = pttVars
      BY <1>5 DEF LoadFlag
    <2> QED
      BY <1>1, <1>2, <2>1 DEF pttVars, Updates
  <1>6. CASE StoreFlag
    <2>1. /\ ptt_flag' = Updated(pc, ptt_flag) /\ pc' = AfterUpdate(pc)
          /\ ptt_pin' = ptt_pin /\ pc \in Updates /\ reg' = None
      BY <1>6 DEF StoreFlag
    <2>2. pc = "auto" => pc' \in {"send", "manual", "tones"}
      BY <2>1 DEF AfterUpdate, RetInv
    <2> QED
      BY <1>1, <1>2, <2>1, <2>2 DEF Updates, Updated, AfterUpdate
  <1>7. CASE PttOn
    <2>1. /\ ret \in {"send", "manual", "tones"} /\ delay # 0
          /\ pc = "ptt_on" /\ ptt_flag' = ptt_flag /\ reg' = None
      BY <1>7
      DEF PttOn, MainAt, RetInv, RegInv, Smooth, DelayZero, Updates
    <2>2. \/ "AUTO" \notin ptt_flag /\ ptt_pin' = TRUE /\ pc' = "sleep"
          \/ "AUTO" \in ptt_flag /\ ptt_pin' = ptt_pin /\ pc' = ret
      BY <1>7, <2>1 DEF PttOn
    <2> QED
      BY <1>1, <1>2, <2>1, <2>2 DEF Updates
  <1>8. CASE PttSleep
    <2>1. /\ pc = "sleep" /\ pc' = "auto" /\ pttVars' = pttVars /\ reg' = None
      BY <1>8 DEF PttSleep, MainAt, RegInv, Updates
    <2> QED
      BY <1>1, <1>2, <2>1 DEF pttVars, Updates
  <1>9. CASE PttOffPin
    <2>1. /\ pc = "off_pin" /\ pc' = "off_flag" /\ ptt_pin' = FALSE
          /\ ptt_flag' = ptt_flag /\ reg' = None
      BY <1>9 DEF PttOffPin, MainAt, RegInv, Updates
    <2> QED
      BY <1>1, <1>2, <2>1 DEF Updates
  <1>10. CASE PttOffFlag \/ AbortClear \/ ResetReopen
    <2>1. /\ ptt_flag' = {} /\ ~ptt_pin' /\ pc' \in {"loop", "clear"}
          /\ cb \notin {"off_pin", "off_flag", "store"}
      BY <1>2, <1>10
      DEF PttOffFlag, AbortClear, ResetReopen, MainAt, RetInv, SomeTones,
          Aborting
    <2> QED
      BY <1>1, <2>1 DEF Updates
  <1>11. CASE EndOfText \/ Speed \/ Tilde \/ Caret \/ Character \/ Send
    <2>1. /\ pttVars' = pttVars /\ pc \in {"text", "send"} /\ reg' = None
          /\ pc' \in {"text", "loop", "reply", "ptt_on"}
      BY <1>11
      DEF EndOfText, Speed, Tilde, Caret, Character, Send, AtText, MainAt,
          mainVars, RegInv, Updates
    <2> QED
      BY <1>1, <2>1 DEF pttVars, Updates
  <1>12. CASE Reply
    <2>1. /\ pttVars' = pttVars /\ pc \in {"addr", "copy", "copied"}
          /\ reg' = None /\ pc' \in {"copy", "copied", "loop", "text"}
      BY <1>12
      DEF Reply, ReplyAddr, ReplyCopy, ReplyCopied, MainAt, RetInv, Preparing,
          RegInv, Updates
    <2> QED
      BY <1>1, <2>1 DEF pttVars, Updates
  <1>13. CASE PttRequest \/ PttRelease
    <2>1. /\ pttVars' = pttVars /\ pc \in {"ptt", "release"} /\ reg' = None
          /\ pc' \in {"ptt_on", "unmanual", "loop", "off_pin", "reauto"}
          /\ pc' = "unmanual" => "MANUAL" \in ptt_flag
          /\ pc' = "reauto" => "AUTO" \in ptt_flag
      BY <1>13
      DEF PttRequest, PttRelease, MainAt, RegInv, Updates
    <2> QED
      BY <1>1, <2>1 DEF pttVars, Updates
  <1>14. CASE SetDelay \/ Tune \/ TuneTones \/ Abort \/ AbortFlush
              \/ WordMode \/ Reset
    <2>1. /\ pttVars' = pttVars /\ reg' = None
          /\ pc \in {"delay", "tune", "tones", "abort", "flush", "wordmode",
                     "reset"}
          /\ pc' \in {"off_pin", "loop", "ptt_on", "flush", "wait", "reopen"}
      BY <1>14
      DEF SetDelay, Tune, TuneTones, Abort, AbortFlush, WordMode, Reset,
          MainAt, RegInv, Updates
    <2> QED
      BY <1>1, <2>1 DEF pttVars, Updates
  <1>15. CASE AbortWait
    <2>1. /\ pttVars' = pttVars /\ pc = "wait" /\ reg' = None
          /\ pc' \in {"off_pin", "clear"}
          /\ pc' = "clear" => ptt_flag = {}
      BY <1>15 DEF AbortWait, MainAt, RegInv, Updates
    <2> QED
      BY <1>1, <2>1 DEF pttVars, Updates
  <1>16. CASE Exit
    <2>1. /\ ptt_flag' = ptt_flag /\ ptt_pin' = FALSE /\ pc' = "exited"
          /\ cb = "play"
      BY <1>16 DEF Exit
    <2> QED
      BY <1>1, <2>1 DEF Updates
  <1> QED
    BY <1>3, <1>4, <1>5, <1>6, <1>7, <1>8, <1>9, <1>10, <1>11, <1>12, <1>13,
       <1>14, <1>15, <1>16
    DEF Handler, PttOnOff, Text, Escape

LEMMA MainKeying ==
  ASSUME AnyInv, CalmInv, Smooth, Receive \/ SelectTimeout \/ Handler
  PROVE  KeyingInv' /\ (ptt_pin' # ptt_pin /\ ptt_pin' => Keying' = Keying)
  <1> USE DEF AnyInv, CalmInv, KeyingInv
  <1>1. cb' = cb
    BY MainFrame
  <1>2. tq \in Seq(Tones) /\ Len(tq) \in Nat
    BY DEF TypeInv, TypeOK, Tones
  <1>3. ASSUME toneVars' = toneVars PROVE Keying' = Keying
    BY <1>3 DEF toneVars, Keying
  <1>4. ASSUME tq' = <<>> PROVE Keying' => tone' = "mark"
    BY <1>4 DEF Keying
  <1>5. tone = "mark" => Keying
    BY DEF Keying
  <1>6. CASE Receive
    <2>1. /\ req'.kind \in Kinds /\ pttVars' = pttVars /\ toneVars' = toneVars
          /\ pc' \in {"text", "loop", req'.kind}
      BY <1>6, RequestsAssumption DEF Receive
    <2> QED
      BY <1>1, <1>3, <2>1 DEF Kinds, pttVars
  <1>7. CASE SelectTimeout \/ Footswitch \/ LoadFlag \/ StoreFlag
    <2>1. /\ ptt_pin' = ptt_pin /\ toneVars' = toneVars
          /\ pc' \notin {"off_pin", "off_flag"}
      <3>1. Footswitch => ptt_pin' = ptt_pin
        BY DEF Smooth, FootswitchMoved
      <3> QED
        BY <1>7, <3>1
        DEF SelectTimeout, Footswitch, LoadFlag, StoreFlag, Updates,
            AfterUpdate, pttVars, RetInv
    <2> QED
      BY <1>1, <1>3, <2>1
  <1>8. CASE PttOn
    <2>1. /\ toneVars' = toneVars /\ (ptt_pin' = ptt_pin \/ ptt_pin' = TRUE)
          /\ pc' \notin {"off_pin", "off_flag"}
      BY <1>8 DEF PttOn, MainAt, RetInv
    <2> QED
      BY <1>1, <1>3, <2>1
  <1>9. CASE PttSleep \/ PttOffPin
    BY <1>1, <1>3, <1>9 DEF PttSleep, PttOffPin, MainAt, pttVars
  <1>10. CASE PttOffFlag
    BY <1>1, <1>3, <1>10 DEF PttOffFlag, MainAt, RetInv
  <1>11. CASE Send \/ TuneTones
    <2>1. /\ pc \in {"send", "tones"} /\ ptt_pin' = ptt_pin
          /\ pc' \in {"text", "loop"}
      BY <1>11 DEF Send, TuneTones, MainAt, pttVars
    <2>2. cb \notin {"off_pin", "off_flag"}
      BY <2>1 DEF Smooth, Overlap
    <2>3. ptt_pin
      BY <2>1, <2>2 DEF FlagUseInv, AutoInv
    <2> QED
      BY <1>1, <2>1, <2>2, <2>3
  <1>12. CASE EndOfText \/ Speed \/ Tilde \/ Caret \/ Character
    <2>1. /\ ptt_pin' = ptt_pin /\ toneVars' = toneVars
          /\ pc' \notin {"off_pin", "off_flag"}
      BY <1>12
      DEF EndOfText, Speed, Tilde, Caret, Character, AtText, MainAt, mainVars,
          pttVars
    <2> QED
      BY <1>1, <1>3, <2>1
  <1>13. CASE Reply
    <2>1. /\ ptt_pin' = ptt_pin /\ toneVars' = toneVars
          /\ pc' \notin {"off_pin", "off_flag"}
      BY <1>13
      DEF Reply, ReplyAddr, ReplyCopy, ReplyCopied, MainAt, pttVars, RetInv,
          Preparing
    <2> QED
      BY <1>1, <1>3, <2>1
  <1>14. CASE Tune \/ AbortFlush
    <2>1. /\ ptt_pin' = ptt_pin /\ tone' = tone /\ tq' \in {tq, <<>>}
          /\ pc' \notin {"off_pin", "off_flag"}
      BY <1>14 DEF Tune, AbortFlush, pttVars
    <2>2. Keying' => Keying
      BY <1>3, <1>4, <1>5, <2>1 DEF toneVars
    <2> QED
      BY <1>1, <2>1, <2>2
  <1>15. CASE ResetReopen \/ Exit
    <2>1. ~Keying' /\ ~ptt_pin'
      BY <1>15 DEF ResetReopen, Exit, Keying
    <2> QED
      BY <2>1
  <1>16. CASE AbortWait
    <2>1. ~Keying
      BY <1>16 DEF AbortWait, Keying
    <2> QED
      BY <1>3, <1>16, <2>1 DEF AbortWait, pttVars
  <1>17. CASE PttRelease
    <2>1. Len(tq) <= 1 => ~Keying
      <3> SUFFICES ASSUME Len(tq) <= 1 PROVE ~Keying
        OBVIOUS
      <3>1. tone # "mark"
        BY <1>2, <1>17 DEF PttRelease, MainAt, SomeTones, Tuning
      <3>2. ASSUME NEW i \in 1..Len(tq) PROVE tq[i] # "mark"
        BY <1>2, <3>2 DEF SomeTones, MarksFollowed
      <3> QED
        BY <3>1, <3>2 DEF Keying
    <2>2. /\ ptt_pin' = ptt_pin /\ toneVars' = toneVars
          /\ pc' # "off_flag"
          /\ pc' = "off_pin" => Len(tq) <= 1
      BY <1>17 DEF PttRelease, pttVars
    <2> QED
      BY <1>1, <1>3, <2>1, <2>2
  <1>18. CASE PttRequest \/ SetDelay \/ Abort \/ AbortClear \/ WordMode
              \/ Reset
    <2>1. /\ ptt_pin' = ptt_pin /\ toneVars' = toneVars
          /\ pc' \notin {"off_pin", "off_flag"}
      BY <1>18
      DEF PttRequest, SetDelay, Abort, AbortClear, WordMode, Reset, MainAt,
          pttVars, Smooth, DelayZero
    <2> QED
      BY <1>1, <1>3, <2>1
  <1> QED
    BY <1>6, <1>7, <1>8, <1>9, <1>10, <1>11, <1>12, <1>13, <1>14, <1>15,
       <1>16, <1>17, <1>18
    DEF Handler, PttOnOff, Text, Escape

-----------------------------------------------------------------------------
\* The generator's thread never switches PTT on, nor queues a mark.
LEMMA GeneratorKeying ==
  ASSUME TypeInv, MarksFollowed(tq), Generator
  PROVE  /\ ptt_pin' = ptt_pin \/ ptt_pin' = FALSE
         /\ Keying' => Keying
         /\ Keying' # Keying => ptt_pin' = ptt_pin
  <1>1. tq \in Seq(Tones)
    BY DEF TypeInv, TypeOK, Tones
  <1>2. CASE NextTone
    <2>1. /\ tq # <<>> /\ tone' = Head(tq) /\ tq' = Tail(tq)
          /\ ptt_pin' = ptt_pin
      BY <1>2 DEF NextTone, pttVars
    <2>2. (\E i \in 1..Len(tq') : tq'[i] = "mark")
          => \E i \in 1..Len(tq) : tq[i] = "mark"
      BY <1>1, <2>1, TailMarks
    <2>3. Head(tq) = tq[1] /\ 1 \in 1..Len(tq)
      BY <1>1, <2>1
    <2> QED
      BY <2>1, <2>2, <2>3 DEF Keying
  <1>3. CASE CbRequeue
    <2>1. /\ NoMark(tq) => NoMark(tq')
          /\ tone' = tone /\ ptt_pin' = ptt_pin
      <3>1. CASE tq' = tq
        BY <1>3, <3>1 DEF CbRequeue, pttVars
      <3>2. CASE tq' = Enqueue(Enqueue(tq, <<"space">>), <<"space">>)
        BY <1>1, <1>3, <3>2, EnqueueTwoSpaces DEF CbRequeue, pttVars
      <3> QED
        BY <1>3, <3>1, <3>2 DEF CbRequeue
    <2> QED
      BY <2>1 DEF Keying, NoMark
  <1>4. CASE CbOffPin
    BY <1>4 DEF CbOffPin, toneVars, Keying
  <1>5. CASE Silence
    BY <1>5 DEF Silence, pttVars, Keying
  <1>6. CASE CbCheck \/ CbOffFlag \/ CbCheckEcho \/ CbLoadFlag \/ CbStoreFlag
             \/ CbCrlf \/ CbSend
    <2>1. ptt_pin' = ptt_pin /\ toneVars' = toneVars
      BY <1>6
      DEF CbCheck, CbOffFlag, CbCheckEcho, CbLoadFlag, CbStoreFlag, CbCrlf,
          CbSend, pttVars
    <2> QED
      BY <2>1 DEF toneVars, Keying
  <1> QED
    BY <1>2, <1>3, <1>4, <1>5, <1>6 DEF Generator, Callback

LEMMA GeneratorCalm ==
  ASSUME AnyInv, CalmInv, Smooth, Generator
  PROVE  CalmInv'
  <1> USE DEF AnyInv, CalmInv, Loaded, AutoInv, FlagUseInv, PinInverse,
              KeyingInv
  <1>1. /\ pc' = pc \/ (CbSend /\ pc' = "aborted" /\ cb' = cb)
        /\ reg' = reg /\ pc \notin {"exited", "aborted"}
    BY DEF Generator, NextTone, Silence, Callback, CbCheck, CbOffPin,
       CbOffFlag, CbCheckEcho, CbLoadFlag, CbStoreFlag, CbCrlf, CbSend,
       CbRequeue, GenAt, mainVars, Stopped
  <1>2. /\ ptt_pin' = ptt_pin \/ ptt_pin' = FALSE
        /\ Keying' => Keying
        /\ Keying' # Keying => ptt_pin' = ptt_pin
    BY GeneratorKeying DEF SomeTones
  <1>3. /\ pc \in {"ptt_on", "sleep", "send", "tones", "release", "off_flag"}
                 \cup Updates => cb \notin {"off_pin", "off_flag", "store"}
        /\ pc' \in {"ptt_on", "sleep", "send", "tones", "release", "off_flag"}
                  \cup Updates => cb' \notin {"off_pin", "off_flag", "store"}
    BY DEF Smooth, Overlap
  <1>4. CASE CbOffPin
    <2>1. /\ ptt_flag' = ptt_flag /\ cb = "off_pin" /\ cb' = "off_flag"
          /\ ptt_pin' = FALSE /\ pc' = pc
      BY <1>4 DEF CbOffPin, GenAt, mainVars
    <2> QED
      BY <1>1, <1>2, <1>3, <2>1 DEF Updates
  <1>5. CASE CbOffFlag
    <2>1. /\ ptt_flag' = {} /\ cb = "off_flag" /\ cb' = "play"
          /\ ptt_pin' = ptt_pin /\ pc' = pc
      BY <1>5 DEF CbOffFlag, GenAt, mainVars
    <2> QED
      BY <1>1, <1>2, <1>3, <2>1 DEF Updates
  <1>6. CASE CbStoreFlag
    <2>1. /\ ptt_flag' = ptt_flag \ {"ECHO"} /\ cb = "store" /\ cb' = "crlf"
          /\ ptt_pin' = ptt_pin /\ pc' = pc
      BY <1>6 DEF CbStoreFlag, GenAt, mainVars
    <2> QED
      BY <1>1, <1>2, <1>3, <2>1 DEF Updates
  <1>7. CASE CbCheck
    <2>1. /\ pttVars' = pttVars /\ cb = "check" /\ toneVars' = toneVars
          /\ cb' \in {"off_pin", "check_echo"} /\ pc' = pc
          /\ cb' = "off_pin" => ptt_flag = {"AUTO"} /\ Len(tq) <= 1
      BY <1>7 DEF CbCheck, GenAt, mainVars, tq_low_watermark
    <2>2. Len(tq) <= 1 => ~Keying
      <3> SUFFICES ASSUME Len(tq) <= 1 PROVE ~Keying
        OBVIOUS
      <3>1. tq \in Seq(Tones) /\ Len(tq) \in Nat /\ tone # "mark"
        BY <2>1 DEF TypeInv, TypeOK, Tones, SomeTones
      <3>2. ASSUME NEW i \in 1..Len(tq) PROVE tq[i] # "mark"
        BY <3>1, <3>2 DEF SomeTones, MarksFollowed
      <3> QED
        BY <3>1, <3>2 DEF Keying
    <2> QED
      BY <1>1, <1>2, <1>3, <2>1, <2>2 DEF pttVars, Updates
  <1>8. CASE NextTone \/ Silence \/ CbCheckEcho \/ CbCrlf \/ CbRequeue
    <2>1. /\ pttVars' = pttVars /\ cb \notin {"off_pin", "off_flag", "store"}
          /\ cb' \notin {"off_pin", "off_flag", "store"} /\ pc' = pc
      BY <1>8
      DEF NextTone, Silence, CbCheckEcho, CbCrlf, CbRequeue, GenAt, genVars,
          mainVars
    <2> QED
      BY <1>1, <1>2, <2>1 DEF pttVars, Updates
  <1>9. CASE CbLoadFlag
    <2>1. /\ pttVars' = pttVars /\ cb = "load" /\ cb' = "store"
          /\ cbreg' = ptt_flag /\ pc' = pc
      BY <1>9 DEF CbLoadFlag, GenAt, mainVars
    <2> QED
      BY <1>1, <1>2, <2>1 DEF pttVars, Updates
  <1>10. CASE CbSend
    <2>1. /\ pttVars' = pttVars /\ cb = "send" /\ cb' \in {"send", "requeue"}
          /\ pc' \in {pc, "aborted"}
      BY <1>10 DEF CbSend, GenAt
    <2> QED
      BY <1>1, <1>2, <2>1 DEF pttVars, Updates
  <1> QED
    BY <1>4, <1>5, <1>6, <1>7, <1>8, <1>9, <1>10 DEF Generator, Callback

-----------------------------------------------------------------------------
\* In a quiet state there is nothing to keep together.
LEMMA QuietIsCalm ==
  ASSUME AnyInv', Quiet' PROVE ~Overlap' /\ CalmInv'
  BY DEF AnyInv, RegInv, Quiet, Overlap, Updates, CalmInv, Loaded, AutoInv,
         FlagUseInv, PinInverse, KeyingInv

\* A step that adds no cause to none.
LEMMA NoCause ==
  ASSUME Causes = {}
  PROVE  ~Overlap' /\ ~DelayZero /\ ~FootswitchMoved
  BY DEF Causes

LEMMA StepPttInv ==
  ASSUME PttInv, [RaceNext]_raceVars
  PROVE  PttInv'
  <1> USE DEF PttInv
  <1>1. [Next]_vars
    BY DEF RaceNext, raceVars
  <1>2. AnyInv'
    BY <1>1, StepAnyInv
  <1>3. CASE UNCHANGED raceVars
    <2>1. UNCHANGED vars /\ disturbed' = disturbed
      BY <1>3 DEF raceVars
    <2> QED
      BY <1>2, <2>1
      DEF vars, pttVars, modeVars, toneVars, mainVars, genVars, Undisturbed,
          Overlap, Quiet, Keying, CalmInv, Loaded, AutoInv, FlagUseInv,
          PinInverse, KeyingInv
  <1>4. CASE RaceNext
    <2> SUFFICES ASSUME disturbed' = {} PROVE Undisturbed'
      BY <1>2
    <2>1. CASE Quiet'
      BY <1>2, <2>1, QuietIsCalm DEF Undisturbed
    <2>2. CASE ~Quiet'
      <3>1. disturbed = {} /\ Causes = {}
        BY <1>4, <2>2 DEF RaceNext
      <3>2. Smooth /\ delay' # 0 /\ CalmInv
        BY <3>1, NoCause DEF Undisturbed, Smooth, DelayZero
      <3>3. CalmInv'
        <4>1. CASE Receive \/ SelectTimeout \/ Handler
          BY <3>2, <4>1, MainFlagUse, MainKeying DEF CalmInv
        <4>2. CASE Generator
          BY <3>2, <4>2, GeneratorCalm
        <4>3. CASE Terminated
          BY <3>2, <4>3
          DEF Terminated, vars, pttVars, toneVars, mainVars, genVars, Keying,
              CalmInv, Loaded, AutoInv, FlagUseInv, PinInverse, KeyingInv
        <4> QED
          BY <1>4, <4>1, <4>2, <4>3 DEF RaceNext, Next
      <3> QED
        BY <3>2, <3>3 DEF Undisturbed, Smooth
    <2> QED
      BY <2>1, <2>2
  <1> QED
    BY <1>3, <1>4

LEMMA InitPttInv == RaceInit => PttInv
  <1> SUFFICES ASSUME RaceInit PROVE PttInv
    OBVIOUS
  <1>1. AnyInv
    BY InitAnyInv DEF RaceInit
  <1>2. Quiet
    BY DEF RaceInit, Init, Quiet, Keying
  <1>3. Undisturbed
    BY <1>1, <1>2
    DEF Undisturbed, AnyInv, RegInv, Quiet, Overlap, Updates, CalmInv, Loaded,
        AutoInv, FlagUseInv, PinInverse, KeyingInv
  <1> QED
    BY <1>1, <1>3 DEF PttInv

LEMMA PttInvariant == RaceSpec => []PttInv
  <1>1. PttInv /\ [RaceNext]_raceVars => PttInv'
    BY StepPttInv
  <1> QED
    BY <1>1, InitPttInv, PTL DEF RaceSpec

(***************************************************************************)
(* Nothing is keyed with PTT off, for every interleaving of the threads,   *)
(* every PTT delay and with a footswitch, unless the threads have raced    *)
(* for the flag or the pin, the footswitch has moved the pin or the PTT    *)
(* delay is zero: these three are all that can go wrong, and what they do  *)
(* is over when the keyer is quiet again.                                  *)
(***************************************************************************)
THEOREM PttIsHeld == RaceSpec => []PttHeld
  <1>1. PttInv => PttHeld
    BY DEF PttInv, Undisturbed, CalmInv, KeyingInv, PttHeld
  <1> QED
    BY <1>1, PttInvariant, PTL

(***************************************************************************)
(* PTT is not on without the flag on which the callback switches it off,   *)
(* but for the same three causes, or while PTT is being switched on.       *)
(***************************************************************************)
THEOREM PinHasFlag == RaceSpec => []PinMeansFlag
  <1>1. PttInv => PinMeansFlag
    BY DEF PttInv, Undisturbed, CalmInv, PinInverse, PinMeansFlag
  <1> QED
    BY <1>1, PttInvariant, PTL

\* A step that switches PTT on does nothing else that can be heard.
LEMMA SwitchingOn ==
  ASSUME AnyInv, CalmInv, Smooth, [Next]_vars
  PROVE  ptt_pin' # ptt_pin /\ ptt_pin' => Keying' = Keying
  <1>1. CASE Receive \/ SelectTimeout \/ Handler
    BY <1>1, MainKeying
  <1>2. CASE Generator
    <2>1. ptt_pin' = ptt_pin \/ ptt_pin' = FALSE
      BY <1>2, GeneratorKeying DEF AnyInv, SomeTones
    <2> QED
      BY <2>1
  <1>3. CASE Terminated \/ UNCHANGED vars
    BY <1>3 DEF Terminated, vars, pttVars
  <1> QED
    BY <1>1, <1>2, <1>3 DEF Next

\* What a step does to the pin and to the keys, as the transmitter sees it.
LEMMA StepTransmitter ==
  ASSUME PttInv, PttInv', [RaceNext]_raceVars
  PROVE  [Transmitter!Next]_Transmitter!vars
  <1> USE DEF Transmitter!Next, Transmitter!vars, Transmitter!Regular,
              Transmitter!Accident, Transmitter!Recover
  <1>1. ptt_pin \in BOOLEAN /\ ptt_pin' \in BOOLEAN
    BY DEF PttInv, AnyInv, TypeInv, TypeOK
  <1>2. Keying \in BOOLEAN /\ Keying' \in BOOLEAN
    BY Zenon DEF Keying
  <1>3. CASE UNCHANGED raceVars
    <2>1. ptt_pin' = ptt_pin /\ Keying' = Keying /\ disturbed' = disturbed
      BY <1>3 DEF raceVars, vars, pttVars, toneVars, Keying
    <2> QED
      BY <2>1
  <1>4. CASE RaceNext
    <2>1. CASE disturbed' # {}
      BY <1>1, <1>2, <2>1
    <2>2. CASE disturbed' = {} /\ disturbed # {}
      <3>1. Quiet'
        BY <1>4, <2>2 DEF RaceNext
      <3>2. ~ptt_pin' /\ ~Keying'
        BY <3>1 DEF Quiet
      <3> QED
        BY <2>2, <3>2
    <2>3. CASE disturbed' = {} /\ disturbed = {}
      <3>1. (Keying => ptt_pin) /\ (Keying' => ptt_pin')
        BY <2>3 DEF PttInv, Undisturbed, CalmInv, KeyingInv
      <3>2. ptt_pin' # ptt_pin /\ ptt_pin' => Keying' = Keying
        <4>1. CASE Quiet'
          BY <4>1 DEF Quiet
        <4>2. CASE ~Quiet'
          <5>1. Causes = {}
            BY <1>4, <2>3, <4>2 DEF RaceNext
          <5>2. AnyInv /\ CalmInv /\ Smooth
            BY <2>3, <5>1, NoCause DEF PttInv, Undisturbed, Smooth
          <5> QED
            BY <1>4, <5>2, SwitchingOn DEF RaceNext
        <4> QED
          BY <4>1, <4>2
      <3> QED
        BY <1>1, <1>2, <2>3, <3>1, <3>2
        DEF Transmitter!SwitchOn, Transmitter!Queue, Transmitter!Finish,
            Transmitter!SwitchOff, Transmitter!Reset
    <2> QED
      BY <2>1, <2>2, <2>3
  <1> QED
    BY <1>3, <1>4

(***************************************************************************)
(* The keyer implements PttService with no assumption on its schedule: a   *)
(* key is queued with PTT on only, and PTT is switched off with no key     *)
(* left, or together with them by a reset; where it breaks that, one of    *)
(* the three causes has come, and it keeps it again from the next quiet    *)
(* state on.                                                               *)
(***************************************************************************)
THEOREM RefinesPttService == RaceSpec => ImplementsPttService
  <1>1. PttInv /\ PttInv' /\ [RaceNext]_raceVars
        => [Transmitter!Next]_Transmitter!vars
    BY StepTransmitter
  <1>2. RaceInit => Transmitter!Init
    BY DEF RaceInit, Init, Transmitter!Init, Keying
  <1> QED
    BY <1>1, <1>2, PttInvariant, PTL
    DEF RaceSpec, ImplementsPttService, Transmitter!Spec
=============================================================================
