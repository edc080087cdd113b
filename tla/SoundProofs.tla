----------------------------- MODULE SoundProofs -----------------------------
(***************************************************************************)
(* The invariants of Sound, for every range, default and sound system.     *)
(* TypeOK, LibcwMatches and AudioFlag are inductive together: a request    *)
(* changes both copies alike, and a new generator gets all of "current".   *)
(***************************************************************************)
EXTENDS Sound, TLAPS

USE DEF Current, Generators, Weightings

\* The weightings that cwdaemon accepts become ones that libcw accepts.
LEMMA WeightingRange ==
  ASSUME NEW w \in Weightings
  PROVE  LibWeighting(w) \in 20..80
  BY RangesAssumption DEF LibWeighting

\* What a new generator is given is valid.
LEMMA CarriedType ==
  ASSUME NEW c \in Current
  PROVE  Carried(c) \in Generators
  BY WeightingRange DEF Carried

\* A clamped speed is in the range, for a run of any length.
LEMMA ClampedRange ==
  ASSUME NEW s \in Int
  PROVE  Clamped(s) \in SpeedMin..SpeedMax
  BY RangesAssumption DEF Clamped

\* Opening returns the sound system that was asked for, or no running
\* generator; a closed one and Null never fail.
LEMMA OpenedValues ==
  ASSUME NEW system \in Systems
  PROVE  /\ \A g \in Opened(Closed, system) : g \in {system, None, Unstarted}
         /\ \A f : Fallback(f) = {Null}
  BY DEF Opened, Closed, Fallback

\* The invariant that the theorems below rest on.
Inv == TypeOK /\ LibcwMatches /\ AudioFlag

\* The initial state satisfies it.
LEMMA InvInit == Init => Inv
  <1> SUFFICES ASSUME Init PROVE Inv  OBVIOUS
  <1>1. Carried(Defaults) \in Generators  BY CarriedType, DefaultsAssumption
  <1> QED  BY <1>1, DefaultsAssumption
             DEF Init, Inv, TypeOK, LibcwMatches, AudioFlag, Running, Carried

\* So does every step.  libcw's parameters are compared field by field.
LEMMA InvNext == Inv /\ [Next]_vars => Inv'
  <1> SUFFICES ASSUME Inv, [Next]_vars PROVE Inv'  OBVIOUS
  <1> USE DEF Inv, TypeOK, LibcwMatches, AudioFlag, Running
  <1> DEFINE NewGenerator(last) ==
        lib' = IF last \in Systems THEN Carried(current') ELSE last
  <1>1. ASSUME NEW v \in Inputs, SetSpeed(v) PROVE Inv'
    BY <1>1 DEF SetSpeed, Set
  <1>2. ASSUME NEW v \in Inputs, SetTone(v) PROVE Inv'
    <2>1. CASE v = 0  BY <1>2, <2>1, RangesAssumption DEF SetTone, Set
    <2>2. CASE v # 0  BY <1>2, <2>2 DEF SetTone
    <2> QED  BY <2>1, <2>2
  <1>3. ASSUME NEW v \in Inputs, SetWeighting(v) PROVE Inv'
    <2>1. v \in Weightings /\ LibWeighting(v) \in 20..80
      BY <1>3, WeightingRange DEF SetWeighting
    <2> QED  BY <1>3, <2>1 DEF SetWeighting, Set
  <1>4. ASSUME NEW v \in Inputs, SetVolume(v) PROVE Inv'
    BY <1>4 DEF SetVolume, Set
  <1>5. ASSUME NEW run \in Runs, PlaySpeed(run) PROVE Inv'
    <2>1. Clamped(current.speed + 2 * run) \in SpeedMin..SpeedMax
      BY InputsAssumption, RangesAssumption, ClampedRange
    <2> QED  BY <1>5, <2>1 DEF PlaySpeed, Set
  <1>6. ASSUME NEW last \in Systems \cup {None, Unstarted}, NewGenerator(last),
               has_audio_output' \in BOOLEAN,
               has_audio_output' <=> last \in Systems, current' \in Current,
               current'.system = last \/ last \notin Systems
        PROVE  Inv'
    <2>1. CASE last \in Systems
      <3>1. Carried(current') \in Generators  BY <1>6, CarriedType
      <3> QED  BY <1>6, <2>1, <3>1 DEF Carried
    <2>2. CASE last \notin Systems
      <3>1. lib' = last /\ last \in {None, Unstarted}  BY <1>6, <2>2
      <3>2. ~Running'  BY <3>1, NoneAssumption
      <3>3. ~has_audio_output' /\ has_audio_output' \in BOOLEAN  BY <1>6, <2>2
      <3>4. TypeOK'  BY <1>6, <3>1, <3>3
      <3>5. LibcwMatches' /\ AudioFlag'  BY <3>2, <3>3
      <3> QED  BY <3>4, <3>5
    <2> QED  BY <2>1, <2>2
  <1>7. ASSUME NEW system \in Requested, Sound(system) PROVE Inv'
    <2>1. system \in Systems /\ Null \in Systems
      BY InputsAssumption, DefaultsAssumption
    <2>2. PICK last \in Systems \cup {None, Unstarted} :
            /\ NewGenerator(last) /\ has_audio_output' \in BOOLEAN
            /\ has_audio_output' <=> last \in Systems
            /\ current' = [current EXCEPT !.system =
                             IF last \in Systems THEN last ELSE system]
      BY <1>7, <2>1, OpenedValues, ZenonT(30) DEF Sound
    <2>3. /\ current' \in Current
          /\ current'.system = last \/ last \notin Systems
      BY <2>1, <2>2
    <2> QED  BY <1>6, <2>2, <2>3
  <1>8. CASE Reset
    <2>1. PICK last \in Opened(Closed, Defaults.system) :
            /\ current' = Defaults /\ has_audio_output' = (last \in Systems)
            /\ lib' = IF last \in Systems THEN Carried(Defaults) ELSE last
      BY <1>8, Zenon DEF Reset
    <2>2. Carried(current') = Carried(Defaults)  BY <2>1 DEF Carried
    <2>3. NewGenerator(last)  BY <2>1, <2>2
    <2>4. has_audio_output' \in BOOLEAN  BY <2>1, SMT
    <2>5. has_audio_output' <=> last \in Systems  BY <2>1, Zenon
    <2>6. last \in {Defaults.system, None, Unstarted}
      BY OpenedValues, DefaultsAssumption
    <2> QED  BY <1>6, <2>1, <2>3, <2>4, <2>5, <2>6, DefaultsAssumption
  <1>9. CASE UNCHANGED vars  BY <1>9 DEF vars
  <1> QED  BY <1>1, <1>2, <1>3, <1>4, <1>5, <1>7, <1>8, <1>9
             DEF Next, Change, Play, SwitchSound

\* Every reachable state satisfies it.
LEMMA Invariance == Spec => []Inv
  BY InvInit, InvNext, PTL DEF Spec

\* Speed, tone, volume and weighting stay in their ranges, for every range
\* of cwdaemon's that libcw's includes and every text and request.
THEOREM TypeCorrect == Spec => []TypeOK
  <1>1. Inv => TypeOK  BY DEF Inv
  <1> QED  BY <1>1, Invariance, PTL

\* cwdaemon's parameters and the generator's agree after every request.
THEOREM LibcwMatchesCorrect == Spec => []LibcwMatches
  <1>1. Inv => LibcwMatches  BY DEF Inv
  <1> QED  BY <1>1, Invariance, PTL

\* has_audio_output is right after every request.
THEOREM AudioFlagCorrect == Spec => []AudioFlag
  <1>1. Inv => AudioFlag  BY DEF Inv
  <1> QED  BY <1>1, Invariance, PTL

\* <ESC>f always leaves a running generator.
THEOREM FallbackCorrect == Spec => FallbackWorks
  <1>1. ASSUME SwitchSound PROVE has_audio_output'
    <2>1. PICK system \in Requested : Sound(system)  BY <1>1 DEF SwitchSound
    <2>2. system \in Systems /\ Null \in Systems
      BY InputsAssumption, DefaultsAssumption
    <2> QED  BY <2>1, <2>2, OpenedValues DEF Sound
  <1>2. [Next]_vars => [SwitchSound => has_audio_output']_vars  BY <1>1
  <1> QED  BY <1>2, PTL DEF Spec, FallbackWorks
=============================================================================
