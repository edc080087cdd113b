--------------------------- MODULE ReceiverProofs ---------------------------
(***************************************************************************)
(* Proofs about module Receiver, for any datagrams, sizes and numbers of   *)
(* idle rounds.                                                            *)
(***************************************************************************)
EXTENDS Receiver, SequenceTheorems, WellFoundedInduction, TLAPS

(***************************************************************************)
(* inactivity_seconds never counts more rounds than have passed with no    *)
(* keying, unless the generator's thread has reset it between the load and *)
(* the store of the main thread, until the next reset that is not lost.    *)
(***************************************************************************)
CounterInv ==
  /\ inactivity \in Nat /\ reg \in Nat /\ quiet \in 0..IdleRounds
  /\ lost \/ quiet = IdleRounds \/ inactivity <= quiet
  /\ pc = "store" => lost \/ reg = inactivity

LEMMA CounterStart == Init => CounterInv
PROOF BY BoundsAssumption DEF Init, CounterInv, Forever

LEMMA CounterKept == CounterInv /\ [Next]_vars => CounterInv'
PROOF
  <1> SUFFICES ASSUME CounterInv, [Next]_vars
               PROVE  CounterInv'
    OBVIOUS
  <1> USE BoundsAssumption DEF CounterInv
  <1>1. CASE KeyingEvent
    <2>1. pc' = "store" => lost'
      BY <1>1, Zenon DEF KeyingEvent
    <2> QED BY <1>1, <2>1 DEF KeyingEvent
  <1>2. CASE Arm
    BY <1>2 DEF Arm, history
  <1>3. CASE LoadInactivity
    BY <1>3 DEF LoadInactivity, history
  <1>4. CASE StoreInactivity
    BY <1>4 DEF StoreInactivity
  <1>5. CASE Send \/ Foot \/ UNCHANGED vars
    BY <1>5 DEF Send, Foot, vars, loopVars, history
  <1>6. CASE Select
    BY <1>6 DEF Select, SelectReady, SelectTimeout, SelectFails, history
  <1>7. CASE Receive \/ Footswitch
    <2>1. UNCHANGED <<inactivity, reg, quiet, lost>>
      BY <1>7 DEF Receive, NoData, ReceiveFails, ReceiveData, Strip, Handle, Footswitch,
                  history
    <2>2. pc' # "store"
      BY <1>7 DEF Receive, NoData, ReceiveFails, ReceiveData, Strip, Handle, Footswitch
    <2> QED BY <2>1, <2>2
  <1> QED BY <1>1, <1>2, <1>3, <1>4, <1>5, <1>6, <1>7 DEF Next, Loop, Environment

LEMMA CounterCorrect == Spec => []CounterInv
PROOF BY CounterStart, CounterKept, PTL DEF Spec

\* Under every schedule the daemon stops looking at the footswitch only after
\* IdleRounds rounds with no keying event, unless the last one fell between
\* the load and the store of the counter.
THEOREM WaitsWhenQuiet == Spec => LongWaitMeansQuiet
PROOF
  <1>1. CounterInv /\ [Next]_vars
          => [pc = "arm" /\ pc' = "select" => quiet = IdleRounds \/ lost]_vars
    <2> SUFFICES ASSUME CounterInv, Next, pc = "arm", pc' = "select"
                 PROVE  quiet = IdleRounds \/ lost
      BY DEF vars
    <2>1. Arm
      BY DEF Next, Loop, Environment, LoadInactivity, StoreInactivity, Select, SelectReady,
             SelectTimeout, SelectFails, Receive, NoData, ReceiveFails, ReceiveData, Strip,
             Handle, Footswitch, Send, Foot, KeyingEvent, loopVars
    <2>2. inactivity >= IdleRounds
      BY <2>1, BoundsAssumption DEF Arm, CounterInv
    <2> QED BY <2>2, BoundsAssumption DEF CounterInv
  <1> QED BY <1>1, CounterCorrect, PTL DEF Spec, LongWaitMeansQuiet

-----------------------------------------------------------------------------
(***************************************************************************)
(* Types.  cwdaemon_recvfrom() writes within the buffer, and the request   *)
(* ends within it.                                                         *)
(***************************************************************************)
LEMMA MinOfNat ==
  ASSUME NEW S \in SUBSET Nat, S # {}
  PROVE  Min(S) \in S /\ \A y \in S : Min(S) <= y
PROOF
  <1> DEFINE R == OpToRel(<, Nat)
  <1>1. PICK x \in S : \A y \in S : ~ (<<y, x>> \in R)
    <2>1. IsWellFoundedOn(R, Nat)
      BY NatLessThanWellFounded
    <2> HIDE DEF R
    <2> QED BY <2>1, WFMin
  <1>2. \A y \in S : ~(y < x)
    BY <1>1 DEF OpToRel
  <1>3. \E z \in S : \A y \in S : z <= y
    BY <1>2
  <1> QED BY <1>3, Zenon DEF Min

LEMMA ReceiveDataType ==
  ASSUME TypeOK, ReceiveData
  PROVE  TypeOK'
PROOF
  <1> DEFINE d == Head(inbox)
             S == {Len(d), SizeMax}
  <1>1. d \in Seq(Bytes) /\ inbox' \in Seq(Datagrams)
    BY HeadTailProperties, DatagramsAssumption DEF TypeOK, ReceiveData
  <1>2. S \subseteq Nat /\ n' = Min(S) /\ SizeMax \in Nat
    BY <1>1, BoundsAssumption DEF ReceiveData
  <1>3. n' \in S /\ n' <= Len(d) /\ n' <= SizeMax
    BY <1>2, MinOfNat
  <1>4. n' \in 0..SizeMax
    BY <1>2, <1>3
  <1>5. \A i \in 1..SizeMax + 1 : i <= n' => d[i] \in Bytes
    BY <1>1, <1>2, <1>3
  <1>6. buf' \in [1..SizeMax + 1 -> Bytes]
    <2>1. buf' = [i \in 1..SizeMax + 1 |-> IF i <= n' THEN d[i] ELSE "nul"]
      BY DEF ReceiveData
    <2> QED BY <1>5, <2>1 DEF Bytes
  <1>7. /\ pc' \in {"footswitch", "strip"}
        /\ UNCHANGED <<timeout, inactivity, reg, keys, foot, pin, sent, handled, quiet,
                       lost>>
    BY DEF ReceiveData, pinVars, history
  <1> QED BY <1>1, <1>4, <1>6, <1>7 DEF TypeOK

LEMMA StripType ==
  ASSUME TypeOK, Strip
  PROVE  TypeOK'
PROOF
  <1>1. n' \in 0..SizeMax /\ buf' \in [1..SizeMax + 1 -> Bytes]
    <2>1. n \in 0..SizeMax /\ buf \in [1..SizeMax + 1 -> Bytes]
      BY DEF TypeOK
    <2>2. CASE n > 0 /\ buf[n] \in Eol
      <3>1. buf' = [buf EXCEPT ![n] = "nul"] /\ n' = n - 1
        BY <2>2 DEF Strip
      <3>2. "nul" \in Bytes
        BY DEF Bytes
      <3> QED BY <2>1, <2>2, <3>1, <3>2, BoundsAssumption
    <2>3. CASE ~(n > 0 /\ buf[n] \in Eol)
      <3>1. buf' = buf /\ n' = n
        BY <2>3 DEF Strip, bufVars
      <3> QED BY <2>1, <3>1
    <2> QED BY <2>2, <2>3
  <1>2. /\ pc' \in {"footswitch", "strip", "handle"}
        /\ UNCHANGED <<inbox, timeout, inactivity, reg, keys, foot, pin, sent, handled,
                       quiet, lost>>
    BY DEF Strip, pinVars, history, TypeOK
  <1> QED BY <1>1, <1>2 DEF TypeOK

LEMMA HandleType ==
  ASSUME TypeOK, Handle
  PROVE  TypeOK'
PROOF
  <1> DEFINE S == {i \in DOMAIN buf : buf[i] = "nul"}
  <1>1. DOMAIN buf = 1..SizeMax + 1 /\ n + 1 \in 1..SizeMax + 1 /\ SizeMax \in Nat
    BY BoundsAssumption DEF TypeOK
  <1>2. n + 1 \in S /\ S \subseteq Nat
    BY <1>1 DEF Handle
  <1>3. Min(S) \in 1..SizeMax + 1
    BY <1>1, <1>2, MinOfNat
  <1>4. CString(buf) \in Seq(Bytes)
    <2>1. \A i \in 1..Min(S) - 1 : buf[i] \in Bytes
      BY <1>1, <1>3 DEF TypeOK
    <2>2. Min(S) - 1 \in Int
      BY <1>3
    <2> HIDE DEF S
    <2>3. SubSeq(buf, 1, Min(S) - 1) \in Seq(Bytes)
      BY <2>1, <2>2, SubSeqProperties
    <2> QED BY <2>3 DEF S, CString
  <1>5. handled' \in Seq(Seq(Bytes))
    BY <1>4 DEF Handle, TypeOK
  <1>6. /\ pc' = "footswitch" /\ keys' \in 0..KeyEvents
        /\ UNCHANGED <<inbox, timeout, inactivity, reg, buf, n, foot, pin, sent, quiet,
                       lost>>
    BY BoundsAssumption DEF Handle, pinVars, bufVars, TypeOK
  <1> QED BY <1>5, <1>6 DEF TypeOK

\* The counter is read only when it is below IdleRounds.
LoadInv == pc = "load" => inactivity < IdleRounds

LEMMA NextType ==
  ASSUME TypeOK, LoadInv, [Next]_vars
  PROVE  TypeOK'
PROOF
  <1> USE BoundsAssumption DEF TypeOK, bufVars, pinVars, history
  <1>1. CASE Send
    BY <1>1 DEF Send, loopVars
  <1>2. CASE Foot
    BY <1>2 DEF Foot, loopVars
  <1>3. CASE KeyingEvent
    BY <1>3 DEF KeyingEvent, Forever
  <1>4. CASE Arm
    BY <1>4 DEF Arm
  <1>5. CASE LoadInactivity
    BY <1>5 DEF LoadInactivity, LoadInv
  <1>6. CASE StoreInactivity
    BY <1>6 DEF StoreInactivity, Forever
  <1>7. CASE Select
    BY <1>7 DEF Select, SelectReady, SelectTimeout, SelectFails
  <1>8. CASE NoData \/ ReceiveFails
    BY <1>8 DEF NoData, ReceiveFails
  <1>9. CASE Footswitch
    BY <1>9 DEF Footswitch
  <1>10. CASE UNCHANGED vars
    BY <1>10 DEF vars, loopVars
  <1> QED BY <1>1, <1>2, <1>3, <1>4, <1>5, <1>6, <1>7, <1>8, <1>9, <1>10, ReceiveDataType,
             StripType, HandleType DEF Next, Loop, Environment, Receive

LEMMA NextLoad ==
  ASSUME TypeOK, LoadInv, [Next]_vars
  PROVE  LoadInv'
PROOF
  <1> USE DEF LoadInv
  <1>1. CASE pc' # "load"
    BY <1>1
  <1>2. CASE Arm
    BY <1>2 DEF Arm
  <1>3. CASE KeyingEvent
    BY <1>3, BoundsAssumption DEF KeyingEvent
  <1>4. CASE Send \/ Foot \/ UNCHANGED vars
    BY <1>4 DEF Send, Foot, vars, loopVars
  <1>5. CASE pc' = "load" /\ ~(Arm \/ KeyingEvent \/ Send \/ Foot \/ UNCHANGED vars)
    BY <1>5 DEF Next, Loop, Environment, LoadInactivity, StoreInactivity, Select,
                SelectReady, SelectTimeout, SelectFails, Receive, NoData, ReceiveFails,
                ReceiveData, Strip, Handle, Footswitch
  <1> QED BY <1>1, <1>2, <1>3, <1>4, <1>5

LEMMA InitType == Init => TypeOK /\ LoadInv
PROOF
  <1> SUFFICES ASSUME Init
               PROVE  TypeOK /\ LoadInv
    OBVIOUS
  <1>1. buf \in [1..SizeMax + 1 -> Bytes]
    BY DEF Init, Empty, Bytes
  <1>2. inactivity \in 0..Forever /\ reg \in 0..IdleRounds /\ quiet \in 0..IdleRounds
    BY BoundsAssumption DEF Init, Forever
  <1>3. n \in 0..SizeMax /\ keys \in 0..KeyEvents
    BY BoundsAssumption DEF Init
  <1>4. inbox \in Seq(Datagrams) /\ sent \in Seq(Datagrams) /\ handled \in Seq(Seq(Bytes))
    BY DEF Init
  <1> QED BY <1>1, <1>2, <1>3, <1>4 DEF Init, TypeOK, LoadInv

\* Type correctness: what is received stays in the buffer, and the counter
\* of idle rounds stops at one more than IdleRounds.
THEOREM TypeCorrect == Spec => []TypeOK
PROOF
  <1>1. TypeOK /\ LoadInv /\ [Next]_vars => TypeOK' /\ LoadInv'
    BY NextType, NextLoad
  <1> QED BY <1>1, InitType, PTL DEF Spec

-----------------------------------------------------------------------------
(***************************************************************************)
(* Datagrams and requests.                                                 *)
(*                                                                         *)
(* What is in the socket is the end of what was sent.  The datagrams that  *)
(* are done with have been answered: a strictly increasing function takes  *)
(* the requests to the datagrams that are not empty, and to all of them.   *)
(* While a datagram is in the buffer, what has been removed of it are line *)
(* ends, and zeros stand in their place.                                   *)
(***************************************************************************)
Busy == pc \in {"strip", "handle"}
Taken == Len(sent) - Len(inbox)
Done == IF Busy THEN Taken - 1 ELSE Taken
Real(k) == {i \in 1..k : Kept(sent[i]) > 0}

Answered(k) ==
  \E source \in [DOMAIN handled -> Real(k)] :
    /\ \A i, j \in DOMAIN handled : i < j => source[i] < source[j]
    /\ \A r \in Real(k) : \E i \in DOMAIN handled : source[i] = r
    /\ \A i \in DOMAIN handled : handled[i] = Request(sent[source[i]])

QueueInv ==
  /\ Taken \in Nat /\ (Busy => Taken > 0)
  /\ \A i \in 1..Len(inbox) : inbox[i] = sent[Taken + i]

Buffered(d) ==
  /\ Kept(d) <= n /\ n <= Len(d)
  /\ \A i \in 1..SizeMax + 1 : buf[i] = IF i <= n THEN d[i] ELSE "nul"
  /\ pc = "handle" => n = Kept(d) /\ n > 0
BufferInv == Busy => Buffered(sent[Taken])

RequestInv == QueueInv /\ BufferInv /\ Answered(Done)

\* The end of what is kept of a datagram is the last byte that fits and does
\* not end a line.
LEMMA KeptIs ==
  ASSUME NEW d \in Seq(Bytes)
  PROVE  /\ Kept(d) \in Nat /\ Kept(d) <= Len(d) /\ Kept(d) <= SizeMax
         /\ Kept(d) > 0 => d[Kept(d)] \notin Eol
         /\ \A i \in 1..Len(d) : i <= SizeMax /\ d[i] \notin Eol => i <= Kept(d)
PROOF
  <1> DEFINE m == Min({Len(d), SizeMax})
             S == {0} \cup {i \in 1..m : d[i] \notin Eol}
             T == {k \in Nat : m - k \in S}
  <1>1. Len(d) \in Nat /\ SizeMax \in Nat
    BY BoundsAssumption
  <1>2. m \in {Len(d), SizeMax} /\ m <= Len(d) /\ m <= SizeMax
    <2> HIDE DEF m
    <2>1. {Len(d), SizeMax} \in SUBSET Nat /\ {Len(d), SizeMax} # {}
      BY <1>1
    <2> QED BY <2>1, MinOfNat DEF m
  <1>3. m \in Nat
    BY <1>1, <1>2
  <1> HIDE DEF m
  <1>4. ASSUME NEW i \in S
        PROVE  i \in Nat /\ i <= m /\ m - i \in T
    <2>1. i \in Nat /\ i <= m
      BY <1>3
    <2>2. m - i \in Nat /\ m - (m - i) = i
      BY <1>3, <2>1
    <2> QED BY <2>1, <2>2
  <1>5. T \subseteq Nat /\ T # {}
    <2>1. m - 0 \in T
      BY <1>4
    <2> QED BY <2>1
  <1>6. PICK x \in T : \A y \in T : x <= y
    <2> HIDE DEF T
    <2> QED BY <1>5, MinOfNat
  <1>7. m - x \in S /\ x \in Nat
    BY <1>6
  <1>8. ASSUME NEW i \in S
        PROVE  i <= m - x
    <2>1. i \in Nat /\ i <= m /\ x <= m - i
      BY <1>4, <1>6
    <2> QED BY <1>3, <1>7, <2>1
  <1>9. \E k \in S : \A i \in S : k >= i
    BY <1>3, <1>4, <1>7, <1>8
  <1>10. Kept(d) \in S /\ \A i \in S : Kept(d) >= i
    <2>1. Kept(d) = Max(S)
      BY DEF Kept, m
    <2> HIDE DEF S
    <2> QED BY <1>9, <2>1, Zenon DEF Max
  <1>11. \A i \in 1..Len(d) : i <= SizeMax => i <= m
    BY <1>1, <1>2
  <1>12. Kept(d) \in Nat /\ Kept(d) <= m /\ (Kept(d) > 0 => d[Kept(d)] \notin Eol)
    BY <1>3, <1>10
  <1>13. \A i \in 1..Len(d) : i <= SizeMax /\ d[i] \notin Eol => i <= Kept(d)
    BY <1>1, <1>3, <1>10, <1>11, <1>12
  <1> QED BY <1>1, <1>2, <1>3, <1>12, <1>13

\* The buffer, read as a C string, is the request.
LEMMA StringIsRequest ==
  ASSUME TypeOK, NEW d \in Seq(Bytes), Buffered(d), n = Kept(d)
  PROVE  CString(buf) = Request(d)
PROOF
  <1> DEFINE S == {i \in DOMAIN buf : buf[i] = "nul"}
             N == {i \in 1..Kept(d) : d[i] = "nul"}
             m == IF N = {} THEN Kept(d) ELSE Min(N) - 1
  <1>1. /\ DOMAIN buf = 1..SizeMax + 1 /\ SizeMax \in Nat /\ Len(d) \in Nat
        /\ n \in 0..SizeMax /\ n <= Len(d)
        /\ \A i \in 1..SizeMax + 1 : buf[i] = IF i <= n THEN d[i] ELSE "nul"
    BY BoundsAssumption DEF TypeOK, Buffered
  <1>2. S \subseteq Nat /\ n + 1 \in S
    BY <1>1
  <1>3. Min(S) \in S /\ \A y \in S : Min(S) <= y
    <2> HIDE DEF S
    <2> QED BY <1>2, MinOfNat
  <1>4. \A i \in 1..n : i \in S <=> i \in N
    BY <1>1
  <1>5. m \in 0..n /\ m = Min(S) - 1
    <2>1. CASE N = {}
      <3>1. Min(S) \notin 1..n
        BY <1>3, <1>4, <2>1
      <3>2. Min(S) <= n + 1 /\ Min(S) \in Nat \ {0}
        BY <1>1, <1>2, <1>3
      <3> HIDE DEF S, N
      <3>3. Min(S) = n + 1
        BY <1>1, <3>1, <3>2
      <3> QED BY <1>1, <2>1, <3>3
    <2>2. CASE N # {}
      <3>1. N \subseteq Nat
        BY <1>1
      <3>2. Min(N) \in N /\ \A y \in N : Min(N) <= y
        <4> HIDE DEF N
        <4> QED BY <2>2, <3>1, MinOfNat
      <3>3. Min(N) \in 1..n
        BY <3>2
      <3>4. Min(N) \in S
        BY <1>4, <3>2, <3>3
      <3>5. Min(S) <= Min(N) /\ Min(S) \in Nat \ {0}
        BY <1>1, <1>3, <3>4
      <3>6. Min(S) \in N
        BY <1>1, <1>3, <1>4, <3>3, <3>5
      <3>7. Min(N) = Min(S)
        <4> HIDE DEF S, N
        <4> QED BY <1>1, <3>2, <3>3, <3>5, <3>6
      <3> QED BY <1>1, <2>2, <3>3, <3>7
    <2> QED BY <2>1, <2>2
  <1>6. CString(buf) = SubSeq(buf, 1, m)
    BY <1>5 DEF CString
  <1>7. Request(d) = SubSeq(d, 1, m)
    BY DEF Request
  <1> HIDE DEF m
  <1>8. \A i \in 1..m : buf[i] = d[i]
    BY <1>1, <1>5
  <1>9. SubSeq(buf, 1, m) = SubSeq(d, 1, m)
    <2>1. buf \in Seq(Bytes) /\ Len(buf) = SizeMax + 1
      BY <1>1 DEF TypeOK
    <2>2. m \in Nat /\ m <= Len(buf) /\ m <= Len(d)
      BY <1>1, <1>5, <2>1
    <2>3. /\ SubSeq(buf, 1, m) = [i \in 1..m |-> buf[i]]
          /\ SubSeq(d, 1, m) = [i \in 1..m |-> d[i]]
      BY <2>1, <2>2
    <2> QED BY <1>8, <2>3
  <1> QED BY <1>6, <1>7, <1>9

LEMMA AnsweredSame ==
  ASSUME NEW k \in Nat, Answered(k), handled' = handled,
         \A i \in 1..k : sent'[i] = sent[i]
  PROVE  Answered(k)'
PROOF
  <1>1. Real(k)' = Real(k)
    BY DEF Real
  <1>2. Real(k) \subseteq 1..k
    BY DEF Real
  <1>3. PICK source \in [DOMAIN handled -> Real(k)] :
          /\ \A i, j \in DOMAIN handled : i < j => source[i] < source[j]
          /\ \A r \in Real(k) : \E i \in DOMAIN handled : source[i] = r
          /\ \A i \in DOMAIN handled : handled[i] = Request(sent[source[i]])
    BY Zenon DEF Answered
  <1>4. \A i \in DOMAIN handled' : handled'[i] = Request(sent'[source[i]])
    BY <1>2, <1>3
  <1>5. /\ source \in [DOMAIN handled' -> Real(k)']
        /\ \A i, j \in DOMAIN handled' : i < j => source[i] < source[j]
        /\ \A r \in Real(k)' : \E i \in DOMAIN handled' : source[i] = r
    BY <1>1, <1>3
  <1> QED BY <1>4, <1>5, Zenon DEF Answered

\* A datagram of which nothing is kept needs no answer.
LEMMA AnsweredEmpty ==
  ASSUME NEW k \in Nat, Answered(k), Kept(sent[k + 1]) = 0
  PROVE  Answered(k + 1)
PROOF
  <1>1. Real(k + 1) = Real(k)
    <2>1. \A i : i \in 1..k + 1 <=> i \in 1..k \/ i = k + 1
      OBVIOUS
    <2> QED BY <2>1 DEF Real
  <1> QED BY <1>1 DEF Answered

\* The answer to the next one is its request.
LEMMA AnsweredNext ==
  ASSUME NEW k \in Nat, Answered(k), Kept(sent[k + 1]) > 0, handled \in Seq(Seq(Bytes)),
         NEW r, handled' = Append(handled, r), r = Request(sent[k + 1]), sent' = sent
  PROVE  Answered(k + 1)'
PROOF
  <1> DEFINE h == Len(handled)
  <1>1. /\ h \in Nat /\ DOMAIN handled = 1..h /\ DOMAIN handled' = 1..h + 1
        /\ \A i \in 1..h : handled'[i] = handled[i]
        /\ handled'[h + 1] = r
    OBVIOUS
  <1> HIDE DEF h
  <1>2. \A i \in 1..h + 1 : i \notin 1..h => i = h + 1
    BY <1>1
  <1>3. Real(k + 1)' = Real(k) \cup {k + 1} /\ Real(k) \subseteq 1..k
    <2>1. \A i : i \in 1..k + 1 <=> i \in 1..k \/ i = k + 1
      OBVIOUS
    <2> QED BY <2>1 DEF Real
  <1>4. PICK old \in [DOMAIN handled -> Real(k)] :
          /\ \A i, j \in DOMAIN handled : i < j => old[i] < old[j]
          /\ \A q \in Real(k) : \E i \in DOMAIN handled : old[i] = q
          /\ \A i \in DOMAIN handled : handled[i] = Request(sent[old[i]])
    BY Zenon DEF Answered
  <1> DEFINE source == [i \in 1..h + 1 |-> IF i \in 1..h THEN old[i] ELSE k + 1]
  <1>5. (\A i \in 1..h : source[i] = old[i]) /\ source[h + 1] = k + 1
    BY <1>1
  <1>6. source \in [1..h + 1 -> Real(k) \cup {k + 1}]
    BY <1>1, <1>4
  <1> HIDE DEF source
  <1>7. ASSUME NEW i \in 1..h + 1, NEW j \in 1..h + 1, i < j
        PROVE  source[i] < source[j]
    <2>1. i \in 1..h
      BY <1>1, <1>7
    <2>2. CASE j \in 1..h
      BY <1>1, <1>4, <1>5, <1>7, <2>1, <2>2
    <2>3. CASE j = h + 1
      <3>1. source[i] \in 1..k
        BY <1>1, <1>3, <1>4, <1>5, <2>1
      <3> QED BY <1>5, <2>3, <3>1
    <2> QED BY <1>2, <2>2, <2>3
  <1>8. ASSUME NEW q \in Real(k) \cup {k + 1}
        PROVE  \E i \in 1..h + 1 : source[i] = q
    <2>1. CASE q = k + 1
      BY <1>1, <1>5, <2>1
    <2>2. CASE q \in Real(k)
      <3>1. PICK i \in 1..h : old[i] = q
        BY <1>1, <1>4, <2>2
      <3>2. i \in 1..h + 1 /\ source[i] = q
        BY <1>1, <1>5, <3>1
      <3> QED BY <3>2
    <2> QED BY <2>1, <2>2
  <1>9. ASSUME NEW i \in 1..h + 1
        PROVE  handled'[i] = Request(sent'[source[i]])
    <2>1. CASE i \in 1..h
      BY <1>1, <1>4, <1>5, <2>1
    <2>2. CASE i = h + 1
      BY <1>1, <1>5, <2>2
    <2> QED BY <1>2, <2>1, <2>2
  <1>10. DOMAIN handled' = 1..h + 1 /\ Real(k + 1)' = Real(k) \cup {k + 1}
    BY <1>1, <1>3
  <1>11. /\ source \in [DOMAIN handled' -> Real(k + 1)']
         /\ \A i, j \in DOMAIN handled' : i < j => source[i] < source[j]
         /\ \A q \in Real(k + 1)' : \E i \in DOMAIN handled' : source[i] = q
         /\ \A i \in DOMAIN handled' : handled'[i] = Request(sent'[source[i]])
    BY <1>6, <1>7, <1>8, <1>9, <1>10, Zenon
  <1> QED BY <1>11, Zenon DEF Answered

LEMMA RequestInit == Init => RequestInv
PROOF
  <1> SUFFICES ASSUME Init
               PROVE  RequestInv
    OBVIOUS
  <1>1. sent = <<>> /\ inbox = <<>> /\ handled = <<>> /\ ~Busy
    BY DEF Init, Busy
  <1>2. Taken = 0 /\ Done = 0
    BY <1>1 DEF Taken, Done
  <1>3. QueueInv /\ BufferInv
    BY <1>1, <1>2 DEF QueueInv, BufferInv
  <1>4. Answered(0)
    <2>1. DOMAIN handled = {} /\ Real(0) = {}
      BY <1>1 DEF Real
    <2> DEFINE source == [i \in {} |-> 0]
    <2>2. source \in [{} -> {}]
      OBVIOUS
    <2> HIDE DEF source
    <2> QED BY <2>1, <2>2, Zenon DEF Answered
  <1> QED BY <1>2, <1>3, <1>4 DEF RequestInv

\* What a step that touches neither the socket nor the buffer keeps.
LEMMA RequestFrame ==
  ASSUME TypeOK, RequestInv, UNCHANGED <<inbox, bufVars, sent, handled>>,
         (~Busy /\ ~Busy') \/ pc' = pc
  PROVE  RequestInv'
PROOF
  <1>1. UNCHANGED <<inbox, buf, n, sent, handled>> /\ Busy' = Busy
    BY DEF bufVars, Busy
  <1>2. Taken' = Taken /\ Done' = Done /\ Done \in Nat
    BY <1>1 DEF Taken, Done, RequestInv, QueueInv
  <1>3. QueueInv'
    BY <1>1, <1>2 DEF QueueInv, RequestInv
  <1>4. BufferInv'
    BY <1>1, <1>2 DEF BufferInv, Buffered, RequestInv, Busy
  <1>5. Answered(Done)'
    <2>1. PICK k \in Nat : Answered(k) /\ Done' = k
      BY <1>2 DEF RequestInv
    <2>2. Answered(k)'
      BY <1>1, <2>1, AnsweredSame
    <2> QED BY <2>1, <2>2, Zenon DEF Answered, Real
  <1> QED BY <1>3, <1>4, <1>5 DEF RequestInv

LEMMA RequestSend ==
  ASSUME TypeOK, RequestInv, Send
  PROVE  RequestInv'
PROOF
  <1>1. /\ UNCHANGED <<pc, buf, n, handled>> /\ Busy' = Busy
        /\ inbox \in Seq(Datagrams) /\ sent \in Seq(Datagrams)
    BY DEF Send, loopVars, bufVars, Busy, TypeOK
  <1>2. PICK d \in Datagrams : inbox' = Append(inbox, d) /\ sent' = Append(sent, d)
    BY DEF Send
  <1>3. /\ Len(inbox) \in Nat /\ Len(sent) \in Nat
        /\ Len(inbox') = Len(inbox) + 1 /\ Len(sent') = Len(sent) + 1
        /\ \A i \in 1..Len(inbox) : inbox'[i] = inbox[i]
        /\ \A i \in 1..Len(sent) : sent'[i] = sent[i]
        /\ inbox'[Len(inbox) + 1] = d /\ sent'[Len(sent) + 1] = d
    BY <1>1, <1>2
  <1>4. /\ Taken \in Nat /\ Taken = Len(sent) - Len(inbox) /\ Taken' = Taken
        /\ Done \in Nat /\ Done' = Done /\ Done <= Len(sent)
        /\ Busy => Taken > 0 /\ Taken <= Len(sent)
    BY <1>1, <1>3 DEF Taken, Done, RequestInv, QueueInv
  <1>5. QueueInv'
    <2>1. ASSUME NEW i \in 1..Len(inbox')
          PROVE  inbox'[i] = sent'[Taken + i]
      <3>1. CASE i \in 1..Len(inbox)
        <4>1. Taken + i \in 1..Len(sent) /\ inbox[i] = sent[Taken + i]
          BY <1>3, <1>4, <3>1 DEF RequestInv, QueueInv
        <4> QED BY <1>3, <3>1, <4>1
      <3>2. CASE i = Len(inbox) + 1
        <4>1. Taken + i = Len(sent) + 1
          BY <1>3, <1>4, <3>2
        <4> QED BY <1>3, <3>2, <4>1
      <3> QED BY <1>3, <3>1, <3>2
    <2> QED BY <1>1, <1>4, <2>1 DEF QueueInv
  <1>6. BufferInv'
    <2>1. Busy => sent'[Taken] = sent[Taken]
      BY <1>3, <1>4
    <2> QED BY <1>1, <1>4, <2>1 DEF BufferInv, Buffered, RequestInv
  <1>7. Answered(Done)'
    <2>1. PICK k \in Nat :
            Answered(k) /\ Done' = k /\ \A i \in 1..k : sent'[i] = sent[i]
      BY <1>3, <1>4 DEF RequestInv
    <2>2. Answered(k)'
      BY <1>1, <2>1, AnsweredSame
    <2> QED BY <2>1, <2>2, Zenon DEF Answered, Real
  <1> QED BY <1>5, <1>6, <1>7 DEF RequestInv

\* A datagram is taken out of the socket: it is answered already when it has
\* no bytes, and in the buffer otherwise.
LEMMA RequestReceive ==
  ASSUME TypeOK, RequestInv, ReceiveData
  PROVE  RequestInv'
PROOF
  <1> DEFINE d == Head(inbox)
  <1>1. /\ UNCHANGED <<sent, handled>> /\ ~Busy
        /\ inbox # <<>> /\ inbox' = Tail(inbox)
        /\ inbox \in Seq(Datagrams)
    BY DEF ReceiveData, history, Busy, TypeOK
  <1>2. /\ Len(inbox) \in Nat \ {0} /\ Len(inbox') = Len(inbox) - 1
        /\ d = inbox[1] /\ d \in Datagrams
        /\ \A i \in 1..Len(inbox) - 1 : inbox'[i] = inbox[i + 1]
    BY <1>1
  <1>3. d \in Seq(Bytes) /\ Len(sent) \in Nat
    BY <1>2, DatagramsAssumption DEF TypeOK
  <1>4. /\ Taken \in Nat /\ Taken' = Taken + 1 /\ Done = Taken
        /\ d = sent[Taken + 1]
    BY <1>1, <1>2, <1>3 DEF Taken, Done, RequestInv, QueueInv
  <1>5. n' \in Nat /\ n' <= Len(d) /\ n' <= SizeMax /\ n' \in {Len(d), SizeMax}
    <2>1. {Len(d), SizeMax} \in SUBSET Nat /\ {Len(d), SizeMax} # {}
      BY <1>3, BoundsAssumption
    <2>2. n' = Min({Len(d), SizeMax})
      BY DEF ReceiveData
    <2> HIDE DEF d
    <2> QED BY <2>1, <2>2, MinOfNat
  <1>6. \A i \in 1..SizeMax + 1 : buf'[i] = IF i <= n' THEN d[i] ELSE "nul"
    BY DEF ReceiveData
  <1>7. pc' = IF n' = 0 THEN "footswitch" ELSE "strip"
    BY DEF ReceiveData
  <1>8. Kept(d) \in Nat /\ Kept(d) <= Len(d) /\ Kept(d) <= SizeMax
    BY <1>3, KeptIs
  <1> HIDE DEF d
  <1>9. QueueInv'
    <2>1. ASSUME NEW i \in 1..Len(inbox')
          PROVE  inbox'[i] = sent[Taken' + i]
      <3>1. i \in 1..Len(inbox) - 1 /\ i + 1 \in 1..Len(inbox)
        BY <1>2
      <3>2. inbox'[i] = inbox[i + 1] /\ inbox[i + 1] = sent[Taken + (i + 1)]
        BY <1>2, <3>1 DEF RequestInv, QueueInv
      <3>3. Taken + (i + 1) = Taken' + i
        BY <1>4, <3>1
      <3> QED BY <3>2, <3>3
    <2> QED BY <1>1, <1>4, <2>1 DEF QueueInv
  <1>10. BufferInv'
    <2>1. Kept(d) <= n' /\ pc' # "handle"
      BY <1>3, <1>5, <1>7, <1>8
    <2>2. sent'[Taken'] = d
      BY <1>1, <1>4
    <2> QED BY <1>5, <1>6, <2>1, <2>2 DEF BufferInv, Buffered
  <1>11. Answered(Done)'
    <2>1. PICK k \in Nat : Answered(k) /\ d = sent[k + 1] /\ Taken' = k + 1
      BY <1>4 DEF RequestInv
    <2>2. CASE n' = 0
      <3>1. Kept(d) = 0
        BY <1>3, <1>5, <1>8, <2>2, BoundsAssumption
      <3>2. Answered(k + 1)
        BY <2>1, <3>1, AnsweredEmpty
      <3>3. Answered(k + 1)'
        BY <1>1, <2>1, <3>2, AnsweredSame
      <3>4. Done' = k + 1
        BY <1>7, <2>1, <2>2 DEF Done, Busy
      <3> QED BY <3>3, <3>4, Zenon DEF Answered, Real
    <2>3. CASE n' # 0
      <3>1. Done' = k
        BY <1>7, <2>1, <2>3 DEF Done, Busy
      <3>2. Answered(k)'
        BY <1>1, <2>1, AnsweredSame
      <3> QED BY <3>1, <3>2, Zenon DEF Answered, Real
    <2> QED BY <2>2, <2>3
  <1> QED BY <1>9, <1>10, <1>11 DEF RequestInv

\* The datagram in the buffer.
LEMMA TakenIs ==
  ASSUME TypeOK, RequestInv, Busy
  PROVE  \E k \in Nat, d \in Seq(Bytes) :
           /\ Taken = k + 1 /\ Done = k /\ d = sent[k + 1]
           /\ Answered(k) /\ Buffered(d)
PROOF
  <1>1. Taken \in Nat \ {0} /\ Done = Taken - 1
    BY DEF RequestInv, QueueInv, Done
  <1>2. PICK k \in Nat : Done = k /\ Taken = k + 1
    BY <1>1
  <1>3. k + 1 \in 1..Len(sent)
    BY <1>2 DEF Taken, TypeOK
  <1>4. PICK d \in Seq(Bytes) : d = sent[k + 1]
    BY <1>3, DatagramsAssumption DEF TypeOK
  <1>5. Answered(k)
    BY <1>2, Zenon DEF RequestInv, Answered, Real
  <1>6. Buffered(d)
    BY <1>2, <1>4, Zenon DEF RequestInv, BufferInv, Buffered
  <1> QED BY <1>2, <1>4, <1>5, <1>6

\* Only line ends are removed, and all of them.
LEMMA RequestStrip ==
  ASSUME TypeOK, RequestInv, Strip
  PROVE  RequestInv'
PROOF
  <1>1. UNCHANGED <<inbox, sent, handled>> /\ pc = "strip" /\ Busy
    BY DEF Strip, history, Busy
  <1>2. PICK k \in Nat, d \in Seq(Bytes) :
          /\ Taken = k + 1 /\ Done = k /\ d = sent[k + 1]
          /\ Answered(k) /\ Buffered(d)
    BY <1>1, TakenIs
  <1>3. /\ Kept(d) \in Nat /\ Len(d) \in Nat
        /\ Kept(d) > 0 => d[Kept(d)] \notin Eol
        /\ \A i \in 1..Len(d) : i <= SizeMax /\ d[i] \notin Eol => i <= Kept(d)
    BY KeptIs
  <1>4. /\ n \in 0..SizeMax /\ SizeMax \in Nat /\ Kept(d) <= n /\ n <= Len(d)
        /\ DOMAIN buf = 1..SizeMax + 1
        /\ \A i \in 1..SizeMax + 1 : buf[i] = IF i <= n THEN d[i] ELSE "nul"
    BY <1>2, BoundsAssumption DEF TypeOK, Buffered
  <1>5. Taken' = k + 1 /\ sent'[k + 1] = d
    BY <1>1, <1>2 DEF Taken
  <1>6. QueueInv'
    BY <1>1, <1>2, <1>5 DEF QueueInv, RequestInv
  <1>7. Answered(k)' /\ Answered(k)
    BY <1>1, <1>2, AnsweredSame
  <1>8. CASE n > 0 /\ buf[n] \in Eol
    <2>1. buf' = [buf EXCEPT ![n] = "nul"] /\ n' = n - 1 /\ pc' = pc
      BY <1>8 DEF Strip
    <2>2. Kept(d) # n
      BY <1>3, <1>4, <1>8
    <2>3. Kept(d) <= n' /\ n' <= Len(d)
      BY <1>3, <1>4, <1>8, <2>1, <2>2
    <2>4. \A i \in 1..SizeMax + 1 : buf'[i] = IF i <= n' THEN d[i] ELSE "nul"
      BY <1>4, <1>8, <2>1
    <2>5. BufferInv'
      BY <1>1, <1>5, <2>1, <2>3, <2>4 DEF BufferInv, Buffered
    <2>6. Done' = k
      BY <1>1, <1>5, <2>1 DEF Done, Busy
    <2>7. Answered(Done)'
      BY <1>7, <2>6, Zenon DEF Answered, Real
    <2> QED BY <1>6, <2>5, <2>7 DEF RequestInv
  <1>9. CASE ~(n > 0 /\ buf[n] \in Eol)
    <2>1. pc' = (IF n > 0 THEN "handle" ELSE "footswitch") /\ buf' = buf /\ n' = n
      BY <1>9 DEF Strip, bufVars
    <2>2. n = Kept(d)
      <3>1. CASE n = 0
        BY <1>3, <1>4, <3>1
      <3>2. CASE n > 0
        <4>1. n \in 1..Len(d) /\ n <= SizeMax /\ d[n] \notin Eol
          BY <1>3, <1>4, <1>9, <3>2
        <4> QED BY <1>3, <1>4, <4>1
      <3> QED BY <1>4, <3>1, <3>2
    <2>3. CASE n > 0
      <3>1. BufferInv'
        BY <1>1, <1>4, <1>5, <2>1, <2>2, <2>3 DEF BufferInv, Buffered
      <3>2. Done' = k
        BY <1>5, <2>1, <2>3 DEF Done, Busy
      <3>3. Answered(Done)'
        BY <1>7, <3>2, Zenon DEF Answered, Real
      <3> QED BY <1>6, <3>1, <3>3 DEF RequestInv
    <2>4. CASE n = 0
      <3>1. Kept(sent[k + 1]) = 0
        BY <1>2, <2>2, <2>4
      <3>2. Answered(k + 1)
        BY <1>7, <3>1, AnsweredEmpty
      <3>3. Answered(k + 1)'
        BY <1>1, <3>2, AnsweredSame
      <3>4. Done' = k + 1 /\ ~Busy'
        BY <1>5, <2>1, <2>4 DEF Done, Busy
      <3>5. Answered(Done)'
        BY <3>3, <3>4, Zenon DEF Answered, Real
      <3>6. QueueInv' /\ BufferInv'
        BY <1>6, <3>4 DEF BufferInv
      <3> QED BY <3>5, <3>6 DEF RequestInv
    <2> QED BY <1>4, <2>3, <2>4
  <1> QED BY <1>8, <1>9

LEMMA RequestHandle ==
  ASSUME TypeOK, RequestInv, Handle
  PROVE  RequestInv'
PROOF
  <1>1. /\ UNCHANGED <<inbox, sent>> /\ pc = "handle" /\ pc' = "footswitch"
        /\ handled' = Append(handled, CString(buf)) /\ Busy /\ ~Busy'
    BY DEF Handle, Busy
  <1>2. PICK k \in Nat, d \in Seq(Bytes) :
          /\ Taken = k + 1 /\ Done = k /\ d = sent[k + 1]
          /\ Answered(k) /\ Buffered(d)
    BY <1>1, TakenIs
  <1>3. n = Kept(d) /\ n > 0
    BY <1>1, <1>2 DEF Buffered
  <1>4. CString(buf) = Request(d)
    BY <1>2, <1>3, StringIsRequest
  <1>5. Taken' = k + 1 /\ Done' = k + 1
    BY <1>1, <1>2 DEF Taken, Done
  <1>6. handled \in Seq(Seq(Bytes)) /\ Kept(sent[k + 1]) > 0
    BY <1>2, <1>3 DEF TypeOK
  <1>7. Answered(k + 1)'
    BY <1>1, <1>2, <1>4, <1>6, AnsweredNext
  <1>8. Answered(Done)'
    BY <1>5, <1>7, Zenon DEF Answered, Real
  <1>9. QueueInv' /\ BufferInv'
    BY <1>1, <1>2, <1>5 DEF QueueInv, RequestInv, BufferInv
  <1> QED BY <1>8, <1>9 DEF RequestInv

LEMMA RequestKept ==
  ASSUME TypeOK, RequestInv, [Next]_vars
  PROVE  RequestInv'
PROOF
  <1> USE DEF history, bufVars, Busy
  <1>1. CASE Foot \/ KeyingEvent \/ UNCHANGED vars
    <2>1. UNCHANGED <<inbox, bufVars, sent, handled>> /\ pc' = pc
      BY <1>1 DEF Foot, KeyingEvent, vars, loopVars
    <2> QED BY <2>1, RequestFrame
  <1>2. CASE Arm \/ LoadInactivity \/ StoreInactivity
    <2>1. UNCHANGED <<inbox, bufVars, sent, handled>> /\ ~Busy /\ ~Busy'
      BY <1>2 DEF Arm, LoadInactivity, StoreInactivity
    <2> QED BY <2>1, RequestFrame
  <1>3. CASE Select \/ Footswitch
    <2>1. UNCHANGED <<inbox, bufVars, sent, handled>> /\ ~Busy /\ ~Busy'
      BY <1>3 DEF Select, SelectReady, SelectTimeout, SelectFails, Footswitch
    <2> QED BY <2>1, RequestFrame
  <1>4. CASE NoData \/ ReceiveFails
    <2>1. UNCHANGED <<inbox, bufVars, sent, handled>> /\ ~Busy /\ ~Busy'
      BY <1>4 DEF NoData, ReceiveFails
    <2> QED BY <2>1, RequestFrame
  <1>5. CASE Send \/ ReceiveData \/ Strip \/ Handle
    BY <1>5, RequestSend, RequestReceive, RequestStrip, RequestHandle
  <1> QED BY <1>1, <1>2, <1>3, <1>4, <1>5 DEF Next, Loop, Environment, Receive

\* Each datagram that is not empty makes one request, in the order of
\* arrival, whatever its length, its line ends and its NULs.
THEOREM OneRequestPerDatagram == Spec => []OncePerDatagram
PROOF
  <1>1. TypeOK /\ RequestInv => OncePerDatagram
    <2> SUFFICES ASSUME TypeOK, RequestInv, ~Busy
                 PROVE  /\ inbox = SubSeq(sent, Taken + 1, Len(sent))
                        /\ Answered(Taken)
      BY Zenon DEF OncePerDatagram, Busy, Taken, Answered, Real
    <2>1. Answered(Taken)
      BY DEF RequestInv, Done
    <2>2. /\ inbox \in Seq(Datagrams) /\ sent \in Seq(Datagrams)
          /\ Taken \in Nat /\ Taken = Len(sent) - Len(inbox)
          /\ Len(sent) \in Nat /\ Len(inbox) \in Nat
          /\ \A i \in 1..Len(inbox) : inbox[i] = sent[Taken + i]
      BY DEF TypeOK, RequestInv, QueueInv, Taken
    <2>3. inbox = [i \in 1..Len(inbox) |-> sent[Taken + i]]
      BY <2>2
    <2>4. SubSeq(sent, Taken + 1, Len(sent)) = [i \in 1..Len(inbox) |-> sent[Taken + i]]
      <3>1. \A i \in Taken + 1..Len(sent) : sent[i] \in Datagrams
        BY <2>2
      <3>2. Len(sent) - (Taken + 1) + 1 = Len(inbox)
        BY <2>2
      <3> DEFINE s == SubSeq(sent, Taken + 1, Len(sent))
      <3>3. /\ s \in Seq(Datagrams) /\ Len(s) = Len(inbox)
            /\ \A i \in 1..Len(inbox) : s[i] = sent[(Taken + 1) + i - 1]
        BY <2>2, <3>1, <3>2, SubSeqProperties
      <3> HIDE DEF s
      <3>4. \A i \in 1..Len(inbox) : s[i] = sent[Taken + i]
        BY <2>2, <3>3
      <3>5. s = [i \in 1..Len(inbox) |-> sent[Taken + i]]
        BY <3>3, <3>4
      <3> QED BY <3>5 DEF s
    <2> QED BY <2>1, <2>3, <2>4
  <1>2. TypeOK /\ LoadInv /\ RequestInv /\ [Next]_vars
          => TypeOK' /\ LoadInv' /\ RequestInv'
    BY NextType, NextLoad, RequestKept
  <1> QED BY <1>1, <1>2, InitType, RequestInit, PTL DEF Spec
=============================================================================
