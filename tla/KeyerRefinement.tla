-------------------------- MODULE KeyerRefinement --------------------------
(***************************************************************************)
(* The keyer implements ReplyService.                                      *)
(***************************************************************************)
EXTENDS Keyer

\* The sound a listener would call keying.
Keying == tone = "mark" \/ \E i \in 1..Len(tq) : tq[i] = "mark"

\* The datagram of cwdaemon_sendto(), from its call until the caller goes on.
SentReply == [client |-> reply_addr,
              kind |-> IF reply_buffer.crlf = 1 THEN "reply" ELSE "malformed",
              text |-> reply_buffer.text]
SentBreak == [client |-> reply_addr, kind |-> "break"]
SentNow ==
  CASE cb = "requeue" -> SentReply
    [] cb # "requeue" /\ pc = "flush" /\ "ECHO" \in ptt_flag -> SentBreak
    [] OTHER -> None

Service == INSTANCE ReplyService WITH
  Texts <- Seq(Chars), waiting <- asked, sent <- SentNow, keying <- Keying

\* The client that asked last is answered, with its own text, when nothing is
\* left to key, or is sent the break of <ESC>4; nobody else is sent anything.
ImplementsReplyService == Service!Spec
=============================================================================
