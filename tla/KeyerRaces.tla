----------------------------- MODULE KeyerRaces -----------------------------
(***************************************************************************)
(* PTT and keying when the two threads interleave in any way, with a       *)
(* footswitch and with every PTT delay.  The code then does key with PTT   *)
(* off, and leaves PTT on with no flag: the threads race for the flag and  *)
(* the pin, the footswitch moves the pin, and with PTT delay zero PTT is   *)
(* not used.  A history variable tells which of these has happened since   *)
(* the keyer was last quiet; without them PTT is as it should be.          *)
(***************************************************************************)
EXTENDS KeyerRefinement

VARIABLE disturbed  \* history: why PTT may be wrong, since the last quiet state

raceVars == <<vars, disturbed>>

\* Nothing is left of what happened before: the next request starts afresh.
Quiet == /\ ptt_flag = {} /\ ~ptt_pin /\ ~Keying
         /\ pc \in {"select", "loop"} /\ cb = "play"

(***************************************************************************)
(* The callback is switching PTT off, or is about to store a flag it has   *)
(* loaded, while the main thread is where it relies on the flag or on the  *)
(* pin, or is about to store a flag itself.                                *)
(***************************************************************************)
Overlap ==
  /\ cb \in {"off_pin", "off_flag", "store"}
  /\ pc \in {"ptt_on", "sleep", "send", "tones", "release", "off_flag"}
            \cup Updates

DelayZero == 0 \in {delay, delay'}
FootswitchMoved == Footswitch /\ ptt_pin' # ptt_pin
Causes == {c \in {"threads", "footswitch", "delay"} :
             \/ c = "threads" /\ Overlap'
             \/ c = "footswitch" /\ FootswitchMoved
             \/ c = "delay" /\ DelayZero}

RaceInit == Init /\ disturbed = {}
RaceNext == Next /\ disturbed' = IF Quiet' THEN {} ELSE disturbed \cup Causes
RaceSpec == RaceInit /\ [][RaceNext]_raceVars

-----------------------------------------------------------------------------
\* Nothing is keyed, or left to be keyed, with PTT off, unless the threads
\* have raced for PTT, the footswitch has moved it, or the PTT delay is zero.
PttHeld == disturbed = {} /\ Keying => ptt_pin

\* PTT is on only as long as the flag that makes the callback switch it off
\* is set, or is about to be, unless one of the same three causes has come.
PinMeansFlag ==
  disturbed = {} /\ ptt_pin
    => "AUTO" \in ptt_flag \/ pc \in {"sleep", "auto", "aborted"}

Transmitter == INSTANCE PttService WITH
  on <- ptt_pin, keying <- Keying, excused <- disturbed # {}

\* Keys are queued with PTT on only, and PTT is switched off when none is
\* left; a cause that excuses the keyer does so until it is quiet again.
ImplementsPttService == Transmitter!Spec
=============================================================================
