----------------------------- MODULE PttService -----------------------------
(***************************************************************************)
(* What the keyer promises the transmitter: keys are queued only when PTT  *)
(* is on, and PTT is switched off only when no key is left, except by a    *)
(* reset, which ends both at once.  An accident excuses it from the        *)
(* promise, but only until it is quiet again.                              *)
(***************************************************************************)
VARIABLES
  on,      \* the PTT pin
  keying,  \* a mark is played, or left to be played
  excused  \* an accident has happened since PTT and keys were last off

vars == <<on, keying, excused>>

Init == ~on /\ ~keying /\ ~excused

SwitchOn == on' = TRUE /\ UNCHANGED keying
Queue == on /\ keying' = TRUE /\ UNCHANGED on
Finish == keying' = FALSE /\ UNCHANGED on
SwitchOff == ~keying /\ on' = FALSE /\ UNCHANGED keying
Reset == on' = FALSE /\ keying' = FALSE
Regular == /\ ~excused /\ UNCHANGED excused
           /\ SwitchOn \/ Queue \/ Finish \/ SwitchOff \/ Reset

Accident == on' \in BOOLEAN /\ keying' \in BOOLEAN /\ excused' = TRUE
Recover == excused /\ ~on' /\ ~keying' /\ excused' = FALSE

Next == Regular \/ Accident \/ Recover
Spec == Init /\ [][Next]_vars
=============================================================================
