---------------------------- MODULE ReplyService ----------------------------
(***************************************************************************)
(* What the keyer promises a client that asks for a reply, with no threads,*)
(* flags or buffers: the client that asked last waits, and is sent exactly *)
(* what it asked for, once, when nothing is left to key; or it is sent the *)
(* break of an abort; or a reset makes the daemon forget it.               *)
(***************************************************************************)
CONSTANTS Clients, Texts, None

VARIABLES
  waiting,  \* what is asked for, [client, text], or None
  sent,     \* the datagram that is being sent, [client, kind, text], or None
  keying    \* a mark is played, or left to be played

vars == <<waiting, sent, keying>>

Init == waiting = None /\ sent = None /\ keying = FALSE

\* A request for a reply replaces an earlier one.
Ask ==
  /\ sent = None
  /\ waiting' \in [client : Clients, text : Texts]
  /\ UNCHANGED <<sent, keying>>

Answer ==
  /\ sent = None /\ waiting # None /\ ~keying
  /\ sent' = [client |-> waiting.client, kind |-> "reply", text |-> waiting.text]
  /\ waiting' = None
  /\ UNCHANGED keying

\* The break goes to the client that waits, whatever is being keyed.
Break ==
  /\ sent = None /\ waiting # None
  /\ sent' = [client |-> waiting.client, kind |-> "break"]
  /\ waiting' = None
  /\ UNCHANGED keying

\* The datagram is on its way; an abort ends the keying as well.
Sent ==
  /\ sent' = None
  /\ keying' \in BOOLEAN
  /\ UNCHANGED waiting

Key == keying' \in BOOLEAN /\ UNCHANGED <<waiting, sent>>

\* Nothing is keyed any more and nobody is answered.
Forget == waiting' = None /\ keying' = FALSE /\ UNCHANGED sent

Next == Ask \/ Answer \/ Break \/ Sent \/ Key \/ Forget
Spec == Init /\ [][Next]_vars
=============================================================================
