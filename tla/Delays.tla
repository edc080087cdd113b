------------------------------- MODULE Delays -------------------------------
(***************************************************************************)
(* sleep.c: a call of microsleep_nonintr(), millisleep_nonintr() or        *)
(* sleep_nonintr(), which calls nanosleep() again for what a signal has    *)
(* left of the time.  The PTT delay of set_ptt_on() is such a call.        *)
(***************************************************************************)
EXTENDS Integers, TLAPS

VARIABLES
  pc,        \* "ready", "sleep", "returned" or "failed"
  remaining, \* struct timespec: seconds and nanoseconds
  asked,     \* history: nanoseconds the caller asks for
  slept      \* history: nanoseconds nanosleep() has taken

vars == <<pc, remaining, asked, slept>>

Unsigned == 4294967296 \* values of unsigned int
MicrosPerMilli == 1000
MicrosPerSec   == 1000000
NanosPerMicro  == 1000
NanosPerMilli  == 1000000
NanosPerSec    == 1000000000

Below(n) == {i \in Nat : i < n}
Timespec == [sec : Nat, nsec : Below(NanosPerSec)]
Nanos(t) == t.sec * NanosPerSec + t.nsec

Init ==
  /\ pc = "ready" /\ remaining = [sec |-> 0, nsec |-> 0]
  /\ asked = 0 /\ slept = 0

-----------------------------------------------------------------------------
Split(usecs) ==
  remaining' = [sec  |-> usecs \div MicrosPerSec,
                nsec |-> (usecs % MicrosPerSec) * NanosPerMicro]

Microsleep ==
  /\ pc = "ready" /\ pc' = "sleep" /\ slept' = 0
  /\ \E usecs \in Below(Unsigned) : asked' = usecs * NanosPerMicro /\ Split(usecs)

\* The product wraps beyond 71 minutes.  The daemon asks for 50 ms at most,
\* and for as many as do not wrap here.
Millisleep ==
  /\ pc = "ready" /\ pc' = "sleep" /\ slept' = 0
  /\ \E millis \in Nat :
       /\ millis * MicrosPerMilli < Unsigned
       /\ asked' = millis * NanosPerMilli
       /\ Split((millis * MicrosPerMilli) % Unsigned)

Sleep ==
  /\ pc = "ready" /\ pc' = "sleep" /\ slept' = 0
  /\ \E secs \in Below(Unsigned) :
       asked' = secs * NanosPerSec /\ remaining' = [sec |-> secs, nsec |-> 0]

-----------------------------------------------------------------------------
\* EINTR: nanosleep() says what is left.
Interrupted ==
  /\ pc = "sleep" /\ remaining \in Timespec
  /\ remaining' \in Timespec /\ Nanos(remaining') <= Nanos(remaining)
  /\ slept' = slept + Nanos(remaining) - Nanos(remaining')
  /\ UNCHANGED <<pc, asked>>

Finished ==
  /\ pc = "sleep" /\ remaining \in Timespec
  /\ pc' = "returned" /\ slept' = slept + Nanos(remaining)
  /\ UNCHANGED <<remaining, asked>>

\* EINVAL: the nanoseconds are a second or more, or the seconds negative.
Refused ==
  /\ pc = "sleep" /\ remaining \notin Timespec
  /\ pc' = "failed"
  /\ UNCHANGED <<remaining, asked, slept>>

Return ==
  /\ pc \in {"returned", "failed"} /\ pc' = "ready"
  /\ UNCHANGED <<remaining, asked, slept>>

Next == Microsleep \/ Millisleep \/ Sleep \/ Interrupted \/ Finished \/ Refused \/ Return
Spec == Init /\ [][Next]_vars

-----------------------------------------------------------------------------
\* A delay lasts as long as was asked for, whatever signals interrupt it.
Uninterrupted == pc = "returned" => slept = asked

\* nanosleep() is never given what it refuses, so that no delay is lost.
NeverRefused == pc # "failed"

\* What has passed and what remains add up to what was asked for.
SleepInv ==
  /\ asked \in Nat /\ slept \in Nat /\ pc # "failed"
  /\ pc = "sleep" => remaining \in Timespec /\ slept + Nanos(remaining) = asked
  /\ pc = "returned" => slept = asked

LEMMA SplitWorks ==
  ASSUME NEW usecs \in Nat, Split(usecs)
  PROVE  remaining' \in Timespec /\ Nanos(remaining') = usecs * NanosPerMicro
PROOF
  <1> DEFINE s == usecs \div MicrosPerSec
             m == usecs % MicrosPerSec
  <1>1. s \in Nat /\ m \in Nat /\ m < MicrosPerSec /\ usecs = MicrosPerSec * s + m
    BY SMT DEF MicrosPerSec
  <1>2. remaining' = [sec |-> s, nsec |-> m * NanosPerMicro]
    BY DEF Split
  <1> HIDE DEF s, m
  <1>3. m * NanosPerMicro \in Below(NanosPerSec)
    BY <1>1, SMT DEF Below, MicrosPerSec, NanosPerMicro, NanosPerSec
  <1>4. s * NanosPerSec + m * NanosPerMicro = usecs * NanosPerMicro
    BY <1>1, SMT DEF MicrosPerSec, NanosPerMicro, NanosPerSec
  <1> QED BY <1>1, <1>2, <1>3, <1>4 DEF Timespec, Nanos

LEMMA Units ==
  /\ \A n \in Nat : n * NanosPerMicro \in Nat /\ n * NanosPerMilli \in Nat
  /\ \A n \in Nat : (n * MicrosPerMilli) * NanosPerMicro = n * NanosPerMilli
  /\ \A n \in Nat : n * MicrosPerMilli < Unsigned =>
       n * MicrosPerMilli \in Nat /\ (n * MicrosPerMilli) % Unsigned = n * MicrosPerMilli
  /\ \A n \in Below(Unsigned) :
       LET t == [sec |-> n, nsec |-> 0]
       IN  n \in Nat /\ t \in Timespec /\ Nanos(t) = n * NanosPerSec
                     /\ n * NanosPerSec \in Nat
  /\ \A t \in Timespec : Nanos(t) \in Nat
PROOF
  <1>1. \A n \in Nat : n * NanosPerMicro \in Nat /\ n * NanosPerMilli \in Nat
    BY SMT DEF NanosPerMicro, NanosPerMilli
  <1>2. \A n \in Nat : (n * MicrosPerMilli) * NanosPerMicro = n * NanosPerMilli
    BY SMT DEF NanosPerMicro, NanosPerMilli, MicrosPerMilli
  <1>3. ASSUME NEW n \in Nat, n * MicrosPerMilli < Unsigned
        PROVE  /\ n * MicrosPerMilli \in Nat
               /\ (n * MicrosPerMilli) % Unsigned = n * MicrosPerMilli
    <2>1. n * MicrosPerMilli \in Nat
      BY SMT DEF MicrosPerMilli
    <2>2. ASSUME NEW k \in Nat, k < Unsigned
          PROVE  k % Unsigned = k
      BY <2>2, SMT DEF Unsigned
    <2> QED BY <1>3, <2>1, <2>2
  <1>4. ASSUME NEW n \in Below(Unsigned)
        PROVE  LET t == [sec |-> n, nsec |-> 0]
               IN  n \in Nat /\ t \in Timespec /\ Nanos(t) = n * NanosPerSec
                     /\ n * NanosPerSec \in Nat
    <2>1. n \in Nat /\ 0 \in Below(NanosPerSec) /\ n * NanosPerSec \in Nat
      BY SMT DEF Below, NanosPerSec
    <2> QED BY <2>1 DEF Timespec, Nanos
  <1>5. ASSUME NEW t \in Timespec
        PROVE  Nanos(t) \in Nat
    <2>1. t.sec \in Nat /\ t.nsec \in Nat
      BY DEF Timespec, Below
    <2> QED BY <2>1, SMT DEF Nanos, NanosPerSec
  <1> QED BY <1>1, <1>2, <1>3, <1>4, <1>5

LEMMA SleepKept == SleepInv /\ [Next]_vars => SleepInv'
PROOF
  <1> SUFFICES ASSUME SleepInv, [Next]_vars
               PROVE  SleepInv'
    OBVIOUS
  <1>1. CASE Microsleep
    <2>1. PICK usecs \in Below(Unsigned) : asked' = usecs * NanosPerMicro /\ Split(usecs)
      BY <1>1 DEF Microsleep
    <2>2. usecs \in Nat /\ asked' \in Nat
      BY <2>1, Units
    <2>3. remaining' \in Timespec /\ Nanos(remaining') = asked'
      BY <2>1, <2>2, SplitWorks
    <2> QED BY <1>1, <2>2, <2>3 DEF Microsleep, SleepInv
  <1>2. CASE Millisleep
    <2>1. PICK millis \in Nat :
            /\ millis * MicrosPerMilli < Unsigned
            /\ asked' = millis * NanosPerMilli
            /\ Split((millis * MicrosPerMilli) % Unsigned)
      BY <1>2 DEF Millisleep
    <2>2. /\ asked' = (millis * MicrosPerMilli) * NanosPerMicro /\ asked' \in Nat
          /\ millis * MicrosPerMilli \in Nat /\ Split(millis * MicrosPerMilli)
      BY <2>1, Units
    <2>3. remaining' \in Timespec /\ Nanos(remaining') = asked'
      BY <2>2, SplitWorks
    <2> QED BY <1>2, <2>2, <2>3 DEF Millisleep, SleepInv
  <1>3. CASE Sleep
    <2>1. PICK secs \in Below(Unsigned) :
            asked' = secs * NanosPerSec /\ remaining' = [sec |-> secs, nsec |-> 0]
      BY <1>3 DEF Sleep
    <2>2. remaining' \in Timespec /\ Nanos(remaining') = asked' /\ asked' \in Nat
      BY <2>1, Units
    <2> QED BY <1>3, <2>2 DEF Sleep, SleepInv
  <1>4. CASE Interrupted
    <2>1. Nanos(remaining) \in Nat /\ Nanos(remaining') \in Nat
      BY <1>4, Units DEF Interrupted
    <2> QED BY <1>4, <2>1 DEF Interrupted, SleepInv
  <1>5. CASE Finished
    BY <1>5 DEF Finished, SleepInv
  <1>6. CASE Refused \/ Return \/ UNCHANGED vars
    BY <1>6 DEF Refused, Return, vars, SleepInv
  <1> QED BY <1>1, <1>2, <1>3, <1>4, <1>5, <1>6 DEF Next

\* A delay lasts as long as was asked for, and its arguments are valid, for
\* every duration and every number of signals.
THEOREM DelaysLast == Spec => [](Uninterrupted /\ NeverRefused)
PROOF
  <1>1. Init => SleepInv
    BY DEF Init, SleepInv
  <1>2. SleepInv => Uninterrupted /\ NeverRefused
    BY DEF SleepInv, Uninterrupted, NeverRefused
  <1> QED BY <1>1, <1>2, SleepKept, PTL DEF Spec

=============================================================================
