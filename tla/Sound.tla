------------------------------- MODULE Sound -------------------------------
(***************************************************************************)
(* The sound: speed, tone, volume, weighting and sound system.  cwdaemon   *)
(* keeps its own copy of each, libcw's generator has another, and every    *)
(* request that changes one has to carry it over to the other; a new       *)
(* generator knows nothing.  Only the main thread changes them, one        *)
(* request after the other.                                                *)
(*                                                                         *)
(* A definition marked "Mutant" is a plausible bug in the definition that  *)
(* follows it and is used by no action.                                    *)
(***************************************************************************)
EXTENDS Integers

CONSTANTS
  SpeedMin, SpeedMax, ToneMax, VolumeMax, WeightingMax, \* valid ranges
  Systems,        \* sound systems, one of which is Null
  Null,           \* CW_AUDIO_NULL
  Defaults,       \* default_morse_speed and the others
  Inputs,         \* values that requests carry, some out of range
  Requested,      \* sound systems that requests name
  Runs,           \* "+" less "-" in a run of them in a text
  None, Unstarted \* no generator; one that has not been started

Weightings == (-WeightingMax)..WeightingMax

\* What cwdaemon keeps, and the parameters of a generator.
Current == [speed : SpeedMin..SpeedMax, tone : 0..ToneMax,
            volume : 0..VolumeMax, weighting : Weightings, system : Systems]
Generators == [speed : SpeedMin..SpeedMax, tone : 0..ToneMax,
               volume : 0..VolumeMax, weighting : 20..80, system : Systems]

ASSUME RangesAssumption ==
  /\ SpeedMin \in Nat /\ SpeedMax \in Nat /\ SpeedMin <= SpeedMax
  /\ ToneMax \in Nat /\ VolumeMax \in Nat /\ WeightingMax \in 0..50
ASSUME DefaultsAssumption == Null \in Systems /\ Defaults \in Current
ASSUME InputsAssumption ==
  Inputs \subseteq Int /\ Runs \subseteq Int /\ Requested \subseteq Systems
ASSUME NoneAssumption ==
  None \notin Generators /\ Unstarted \notin Generators /\ None # Unstarted

VARIABLES
  current,        \* current_morse_speed and the others
  has_audio_output,
  lib             \* libcw's generator: its parameters, None or Unstarted
vars == <<current, has_audio_output, lib>>

\* (int) (weighting * 0.6 + CWDAEMON_MORSE_WEIGHTING_MAX)
LibWeighting(w) == (6 * w + 500) \div 10

Carried(c) == [c EXCEPT !.weighting = LibWeighting(@)]

\* After a successful start, which the program does not go on without.
Init ==
  /\ current = Defaults /\ has_audio_output = TRUE /\ lib = Carried(Defaults)

\* cw_set_*(), which have nothing to act on if no generator is running.
Running == lib \in Generators
Set(field, value) == IF Running THEN [lib EXCEPT ![field] = value] ELSE lib

-----------------------------------------------------------------------------
(***************************************************************************)
(* Requests with a value, which is ignored if it is out of range.          *)
(***************************************************************************)
\* <ESC>2
SetSpeed(v) ==
  /\ v \in SpeedMin..SpeedMax
  /\ current' = [current EXCEPT !.speed = v]
  /\ lib' = Set("speed", v)
  /\ UNCHANGED has_audio_output

\* Mutant: the volume that tone zero has set stays.
SetToneOnly(v) ==
  /\ v \in 0..ToneMax
  /\ current' = [current EXCEPT !.tone = v]
  /\ lib' = IF v > 0 THEN Set("tone", v) ELSE Set("volume", 0)
  /\ UNCHANGED has_audio_output

\* <ESC>3: zero sets libcw's volume and leaves its tone.
SetTone(v) ==
  /\ v \in 0..ToneMax
  /\ current' = [current EXCEPT !.tone = v]
  /\ lib' = IF v = 0 THEN Set("volume", 0)
            ELSE IF Running
                 THEN [lib EXCEPT !.tone = v, !.volume = current.volume]
                 ELSE lib
  /\ UNCHANGED has_audio_output

\* <ESC>7
SetWeighting(v) ==
  /\ v \in Weightings
  /\ current' = [current EXCEPT !.weighting = v]
  /\ lib' = Set("weighting", LibWeighting(v))
  /\ UNCHANGED has_audio_output

\* <ESC>g
SetVolume(v) ==
  /\ v \in 0..VolumeMax
  /\ current' = [current EXCEPT !.volume = v]
  /\ lib' = Set("volume", v)
  /\ UNCHANGED has_audio_output

\* Mutant: the speed is not clamped.
Unclamped(s) == s
Clamped(s) == IF s < SpeedMin THEN SpeedMin
              ELSE IF s > SpeedMax THEN SpeedMax ELSE s

\* A run of "+" and "-" in a text: clamped at its end, not at each step.
PlaySpeed(run) ==
  LET s == Clamped(current.speed + 2 * run) IN
  /\ current' = [current EXCEPT !.speed = s]
  /\ lib' = Set("speed", s)
  /\ UNCHANGED has_audio_output

-----------------------------------------------------------------------------
(***************************************************************************)
(* The generator.  Making one fails if the sound system is not available   *)
(* now, or if there is one; starting it can fail too.  Null works.         *)
(***************************************************************************)
Closed == None
Opened(old, system) ==
  IF old # None THEN {old}
  ELSE IF system = Null THEN {system} ELSE {system, None, Unstarted}

\* Mutant: the failed generator is not closed first.
FallbackUnclosed(failed) == Opened(failed, Null)
Fallback(failed) == Opened(Closed, Null)

\* <ESC>f: the new sound system, or Null in its place.  A new generator is
\* given everything that is current.
Sound(system) ==
  \E first \in Opened(Closed, system) :
  \E last \in IF first = system THEN {first} ELSE Fallback(first) :
    /\ has_audio_output' = (last \in Systems)
    /\ current' = [current EXCEPT !.system = IF last \in Systems THEN last
                                                                 ELSE system]
    /\ lib' = IF last \in Systems THEN Carried(current') ELSE last

\* Mutant: the flag is not reset.
ResetFlagKept ==
  \E last \in Opened(Closed, Defaults.system) :
    /\ current' = Defaults
    /\ has_audio_output' = (has_audio_output \/ last \in Systems)
    /\ lib' = IF last \in Systems THEN Carried(Defaults) ELSE last

\* <ESC>0: no fallback when the default sound system is not available now.
Reset ==
  \E last \in Opened(Closed, Defaults.system) :
    /\ current' = Defaults
    /\ has_audio_output' = (last \in Systems)
    /\ lib' = IF last \in Systems THEN Carried(Defaults) ELSE last

Change == \E v \in Inputs :
  \/ SetSpeed(v) \/ SetTone(v) \/ SetWeighting(v) \/ SetVolume(v)
Play  == \E run \in Runs : PlaySpeed(run)
SwitchSound == \E system \in Requested : Sound(system)

Next == Change \/ Play \/ SwitchSound \/ Reset
Spec == Init /\ [][Next]_vars

-----------------------------------------------------------------------------
\* Type invariant: every variable has its type; a run of "+" or "-" and the
\* conversion of the weighting stay in the ranges that libcw accepts.
TypeOK ==
  /\ current \in Current /\ has_audio_output \in BOOLEAN
  /\ lib \in Generators \cup {None, Unstarted}

\* A running generator has what cwdaemon believes it has, whatever requests,
\* resets and changes of the sound system came before.  At tone zero its
\* tone and volume are its own.
LibcwMatches ==
  Running =>
    /\ lib.speed = current.speed /\ lib.system = current.system
    /\ lib.weighting = LibWeighting(current.weighting)
    /\ current.tone > 0 =>
         lib.tone = current.tone /\ lib.volume = current.volume

\* The flag for sound output says whether a generator is running.
AudioFlag == has_audio_output <=> Running

\* <ESC>f never leaves the daemon without a generator: Null takes over for a
\* sound system that cannot be opened or started.
FallbackWorks == [][SwitchSound => has_audio_output']_vars
=============================================================================
