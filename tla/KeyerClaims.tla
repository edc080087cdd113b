---------------------------- MODULE KeyerClaims ----------------------------
(***************************************************************************)
(* What the repository's documents and assertions say of the keyer and the *)
(* code does not do.  Each has a run that shows how.                       *)
(***************************************************************************)
EXTENDS Keyer

\* src/src/socket.c:127 asserts that a reply ends in CRLF.  The callback can
\* send while cwdaemon_prepare_reply() is writing the buffer.
SendtoAssertion == pc # "aborted"

\* src/doc/specifications/ptt.txt:113: PTT is off after the text.  A text of
\* which nothing is playable queues no tone and the callback never comes.
PttOffAfterText == ptt_pin ~> ~ptt_pin \/ "MANUAL" \in ptt_flag \/ Stopped
=============================================================================
