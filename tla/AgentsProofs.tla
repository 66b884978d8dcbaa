------------------------------ MODULE AgentsProofs ------------------------------
(* The parts of the platform agent, for every value of their constants:    *)
(* its states, the monitoring of attributes, the statuses of children, and *)
(* the commands to them; and the ingestion of data.                        *)
EXTENDS MCAgents, Integers, FunctionTheorems, FiniteSetTheorems, WellFoundedInduction,
    SequenceTheorems, TLAPS

LEMMA LeastElement ==
  ASSUME NEW S \in SUBSET Nat, S # {}
  PROVE  \E m \in S : \A k \in S : m <= k
  <1>. DEFINE T == {0..k : k \in S}
  <1>1. T \subseteq FiniteSubsetsOf(Nat) /\ T # {}
    <2>1. \A k \in S : 0..k \subseteq Nat /\ IsFiniteSet(0..k)
      BY FS_Interval
    <2>2. QED
      BY <2>1 DEF FiniteSubsetsOf
  <1>2. PICK x \in T : \A y \in T : <<y, x>> \notin StrictSubsetOrdering(Nat)
    <2>. HIDE DEF T
    <2>1. QED
      BY <1>1, FS_StrictSubsetOrderingWellFounded, WFMin
  <1>3. PICK m \in S : x = 0..m
    BY <1>2
  <1>4. ASSUME NEW k \in S, k < m PROVE FALSE
    <2>1. 0..k \in T /\ 0..k \subseteq 0..m /\ 0..k # 0..m /\ 0..m \subseteq Nat
      BY <1>4
    <2>2. QED
      BY <1>2, <1>3, <2>1 DEF StrictSubsetOrdering
  <1>5. QED
    BY <1>4

-----------------------------------------------------------------------------
(* The monitoring of a platform's attributes                               *)

(* A finite set of times can be put in order.                              *)
Increasing(s) == \A i, j \in DOMAIN s : i < j => s[i] < s[j]
Ordered(T) == \E s \in [1..Cardinality(T) -> T] : Increasing(s)

LEMMA SetsCanBeOrdered ==
  ASSUME NEW T \in SUBSET Nat, IsFiniteSet(T) PROVE Ordered(T)
  <1>. DEFINE Bad == {S \in SUBSET Nat : IsFiniteSet(S) /\ ~Ordered(S)}
  <1>1. SUFFICES ASSUME Bad # {} PROVE FALSE
    OBVIOUS
  <1>2. PICK S \in Bad : \A U \in Bad : ~(U \subseteq S /\ U # S)
    <2>1. Bad \subseteq FiniteSubsetsOf(Nat)
      BY DEF FiniteSubsetsOf
    <2>2. PICK S \in Bad : \A U \in Bad : <<U, S>> \notin StrictSubsetOrdering(Nat)
      <3>. HIDE DEF Bad
      <3>1. QED
        BY <1>1, <2>1, FS_StrictSubsetOrderingWellFounded, WFMin
    <2>3. QED
      BY <2>2 DEF StrictSubsetOrdering
  <1>3. S # {}
    <2>1. SUFFICES ASSUME S = {} PROVE Ordered(S)
      OBVIOUS
    <2>2. Cardinality(S) = 0
      BY <2>1, FS_EmptySet
    <2>3. [i \in 1..0 |-> 0] \in [1..0 -> S] /\ Increasing([i \in 1..0 |-> 0])
      BY DEF Increasing
    <2>4. QED
      BY <2>2, <2>3 DEF Ordered
  <1>4. PICK m \in S : \A k \in S : m <= k
    BY <1>3, LeastElement
  <1>. DEFINE U == S \ {m}
              n == Cardinality(U)
  <1>5. IsFiniteSet(U) /\ n \in Nat /\ Cardinality(S) = n + 1
    <2>1. IsFiniteSet(S) /\ m \in S
      BY <1>2
    <2>2. IsFiniteSet(U) /\ n = Cardinality(S) - 1 /\ Cardinality(S) \in Nat
      BY <2>1, FS_RemoveElement, FS_CardinalityType
    <2>3. n \in Nat
      BY <2>2, FS_CardinalityType
    <2>4. QED
      BY <2>2, <2>3
  <1>6. Ordered(U)
    BY <1>2, <1>5
  <1>7. PICK s \in [1..n -> U] : Increasing(s)
    BY <1>6 DEF Ordered
  <1>. DEFINE r == [i \in 1..(n + 1) |-> IF i = 1 THEN m ELSE s[i - 1]]
  <1>8. r \in [1..(n + 1) -> S] /\ Increasing(r)
    <2>. HIDE DEF n
    <2>1. \A i \in 1..(n + 1) : i # 1 => i - 1 \in 1..n /\ s[i - 1] \in U
      BY <1>5
    <2>2. r \in [1..(n + 1) -> S]
      BY <2>1
    <2>3. ASSUME NEW i \in 1..(n + 1), NEW j \in 1..(n + 1), i < j PROVE r[i] < r[j]
      <3>1. j # 1 /\ r[j] = s[j - 1] /\ s[j - 1] \in U
        BY <2>1, <2>3, <1>5
      <3>2. CASE i = 1
        <4>1. r[i] = m /\ s[j - 1] \in S /\ s[j - 1] # m /\ S \subseteq Nat
          BY <3>1, <3>2, <1>2, <1>5
        <4>2. m <= s[j - 1] /\ m \in Nat /\ s[j - 1] \in Nat
          BY <4>1, <1>4
        <4>3. QED
          BY <3>1, <4>1, <4>2
      <3>3. CASE i # 1
        BY <2>1, <2>3, <3>1, <3>3, <1>5, <1>7 DEF Increasing
      <3>4. QED
        BY <3>2, <3>3
    <2>4. QED
      BY <2>2, <2>3 DEF Increasing
  <1>9. Ordered(S)
    BY <1>5, <1>8 DEF Ordered
  <1>10. QED
    BY <1>9

LEMMA MonitorCardinality == \A S : PM!Cardinality(S) = Cardinality(S)
  <1>1. \A S : PM!IsFiniteSet(S) = IsFiniteSet(S)
    BY DEF PM!IsFiniteSet, IsFiniteSet
  <1>2. QED
    BY <1>1 DEF PM!Cardinality, Cardinality

(* InOrder(T) has the elements of T, in order, once.                       *)
LEMMA InOrderFacts ==
  ASSUME NEW T \in SUBSET Nat, IsFiniteSet(T)
  PROVE  /\ PM!InOrder(T) \in [1..Cardinality(T) -> T] /\ Increasing(PM!InOrder(T))
         /\ \A t \in T : \E i \in 1..Cardinality(T) : PM!InOrder(T)[i] = t
         /\ Cardinality(T) \in Nat
  <1>. DEFINE n == Cardinality(T)
              s == PM!InOrder(T)
  <1>1. n \in Nat
    BY FS_CardinalityType
  <1>2. s \in [1..n -> T] /\ Increasing(s)
    <2>1. \E r \in [1..n -> T] : \A i, j \in DOMAIN r : i < j => r[i] < r[j]
      BY SetsCanBeOrdered DEF Ordered, Increasing
    <2>2. s \in [1..n -> T] /\ \A i, j \in DOMAIN s : i < j => s[i] < s[j]
      BY <2>1, MonitorCardinality DEF PM!InOrder
    <2>3. QED
      BY <2>2 DEF Increasing
  <1>3. s \in Injection(1..n, T)
    <2>. HIDE DEF s, n
    <2>1. ASSUME NEW i \in 1..n, NEW j \in 1..n, s[i] = s[j] PROVE i = j
      <3>1. s[i] \in Nat /\ s[j] = s[i]
        BY <1>2, <2>1
      <3>2. ~(i < j) /\ ~(j < i)
        BY <1>2, <3>1 DEF Increasing
      <3>3. QED
        BY <1>1, <3>2
    <2>2. QED
      BY <1>2, <2>1 DEF Injection, IsInjective
  <1>4. Cardinality(1..n) = n
    BY <1>1, FS_Interval
  <1>5. s \in Surjection(1..n, T)
    <2>. HIDE DEF s
    <2>1. QED
      BY <1>3, <1>4, FS_Injection
  <1>6. QED
    BY <1>1, <1>2, <1>5 DEF Surjection


(* While the object lives, the values of an attribute flow from the        *)
(* platform through the monitor's hands and the buffer to the stream: each *)
(* is later than those that are further on, and none is later than the     *)
(* last time the monitor knows.                                            *)
Known(a) == PM!SentTimes(a) \cup pmBuffer[a] \cup pmGot[a]

MonTypeOK ==
  /\ pmNow \in Nat /\ pmFrom \in [Attr -> Nat] /\ pmLast \in [Attr -> Nat]
  /\ pmGot \in [Attr -> SUBSET PM!Time] /\ pmBuffer \in [Attr -> SUBSET PM!Time]
  /\ pmSent \in [Attr -> Seq(PM!Time)] /\ pmSkipped \in [Attr -> SUBSET PM!Time]
  /\ pmMon \in [Attr -> {"sleep", "ask", "lock", "end"}]

(* of one attribute                                                        *)
FlowOf(a) ==
  /\ \A i, j \in DOMAIN pmSent[a] : i < j => pmSent[a][i] < pmSent[a][j]
  /\ \A t \in PM!SentTimes(a), u \in pmBuffer[a] \cup pmGot[a] : t < u
  /\ \A t \in pmBuffer[a], u \in pmGot[a] : t < u
  /\ \A t \in Known(a) : t <= pmLast[a]
  /\ pmLast[a] <= pmNow
  /\ pmMon[a] # "lock" => pmGot[a] = {}

(* What lies between the last time and the one that is asked from has      *)
(* fallen out of the window.                                               *)
AskOf(a) ==
  pmMon[a] = "ask" =>
    /\ pmLast[a] < pmFrom[a]
    /\ pmPhase = "on" /\ pmLast[a] # 0 => \A u \in PM!Time : pmLast[a] < u /\ u < pmFrom[a]
         => u \in pmSkipped[a]

NoGap(a) ==
  \A t \in Known(a), u \in PM!Time : t < u /\ u <= pmLast[a] => u \in Known(a) \cup pmSkipped[a]

Unstarted ==
  pmPhase = "none" =>
    \A a \in Attr : Known(a) = {} /\ pmMon[a] = "end"

MonInv ==
  /\ MonTypeOK /\ Unstarted
  /\ \A a \in Attr : FlowOf(a) /\ AskOf(a) /\ (pmPhase = "on" => NoGap(a))

LEMMA InitMon == PM!Init => MonInv
  <1>1. SUFFICES ASSUME PM!Init PROVE MonInv
    OBVIOUS
  <1>2. MonTypeOK
    BY <1>1 DEF PM!Init, MonTypeOK
  <1>3. \A a \in Attr : Known(a) = {}
    BY <1>1 DEF PM!Init, Known, PM!SentTimes
  <1>4. QED
    BY <1>1, <1>2, <1>3 DEF PM!Init, MonInv, Unstarted, FlowOf, AskOf, NoGap, PM!SentTimes, Known

(* An action that leaves an attribute's values where they are.             *)
LEMMA SameFlow ==
  ASSUME MonInv, NEW a \in Attr, pmNow' \in Nat, pmNow <= pmNow',
         pmSent'[a] = pmSent[a], pmBuffer'[a] = pmBuffer[a], pmGot'[a] = pmGot[a],
         pmLast'[a] = pmLast[a],
         pmSkipped'[a] = pmSkipped[a], pmMon'[a] = pmMon[a], pmFrom'[a] = pmFrom[a],
         pmPhase' = "on" => pmPhase = "on"
  PROVE  FlowOf(a)' /\ AskOf(a)' /\ (pmPhase' = "on" => NoGap(a)')
  <1>1. PM!SentTimes(a)' = PM!SentTimes(a) /\ Known(a)' = Known(a)
    BY DEF PM!SentTimes, Known
  <1>2. FlowOf(a) /\ AskOf(a) /\ (pmPhase = "on" => NoGap(a)) /\ pmLast[a] \in Nat /\ pmNow \in Nat
    BY DEF MonInv, MonTypeOK
  <1>3. QED
    BY <1>1, <1>2 DEF FlowOf, AskOf, NoGap

LEMMA AskFlow ==
  ASSUME MonInv, PM!TimeAssumption, NEW b \in Attr, PM!Ask(b) PROVE MonInv'
  <1>. USE DEF MonInv
  <1>1. PM!Oldest \in Nat /\ PM!Oldest >= 1
    BY DEF MonTypeOK, PM!Oldest, PM!TimeAssumption
  <1>2. pmFrom' \in [Attr -> Nat]
    BY <1>1 DEF PM!Ask, MonTypeOK
  <1>3. MonTypeOK'
    BY <1>2 DEF PM!Ask, MonTypeOK
  <1>4. pmPhase # "none"
    BY DEF PM!Ask, Unstarted
  <1>5. \A a \in Attr : Known(a)' = Known(a) /\ PM!SentTimes(a)' = PM!SentTimes(a)
    BY DEF PM!Ask, Known, PM!SentTimes
  <1>6. FlowOf(b)' /\ AskOf(b)' /\ (pmPhase' = "on" => NoGap(b)')
    <2>1. FlowOf(b) /\ (pmPhase = "on" => NoGap(b)) /\ pmLast[b] \in Nat /\ pmMon[b] = "sleep"
            /\ UNCHANGED <<pmPhase, pmNow, pmSent, pmBuffer, pmGot, pmLast>>
      BY DEF PM!Ask, MonTypeOK
    <2>2. pmMon'[b] \in {"ask", "end"}
            /\ pmFrom'[b] = (IF pmLast[b] # 0 /\ pmLast[b] >= PM!Oldest THEN pmLast[b] + 1 ELSE PM!Oldest)
      BY DEF PM!Ask, MonTypeOK
    <2>3. pmSkipped'[b] = IF pmLast[b] = 0 THEN {} ELSE pmSkipped[b] \cup {t \in PM!Time : pmLast[b] < t /\ t < pmFrom'[b]}
      BY DEF PM!Ask, MonTypeOK
    <2>4. FlowOf(b)'
      BY <1>5, <2>1, <2>2 DEF FlowOf
    <2>5. AskOf(b)'
      BY <1>1, <2>1, <2>2, <2>3 DEF AskOf
    <2>6. ASSUME pmPhase' = "on" PROVE NoGap(b)'
      <3>1. CASE pmLast[b] = 0
        BY <1>5, <2>1, <3>1 DEF FlowOf, NoGap, PM!Time, Known
      <3>2. CASE pmLast[b] # 0
        BY <1>5, <2>1, <2>3, <2>6, <3>2 DEF NoGap
      <3>3. QED
        BY <3>1, <3>2
    <2>7. QED
      BY <2>4, <2>5, <2>6
  <1>7. ASSUME NEW a \in Attr, a # b PROVE FlowOf(a)' /\ AskOf(a)' /\ (pmPhase' = "on" => NoGap(a)')
    <2>1. pmMon'[a] = pmMon[a] /\ pmFrom'[a] = pmFrom[a] /\ pmSkipped'[a] = pmSkipped[a]
      BY <1>7 DEF PM!Ask, MonTypeOK
    <2>2. UNCHANGED <<pmPhase, pmNow, pmSent, pmBuffer, pmGot, pmLast>> /\ pmNow \in Nat
      BY DEF PM!Ask, MonTypeOK
    <2>3. QED
      BY <2>1, <2>2, SameFlow
  <1>8. QED
    BY <1>3, <1>4, <1>6, <1>7 DEF PM!Ask, Unstarted

LEMMA RetrievedFlow ==
  ASSUME MonInv, PM!TimeAssumption, NEW b \in Attr, PM!Retrieved(b) PROVE MonInv'
  <1>. USE DEF MonInv
  <1>. DEFINE new == {t \in PM!Time : pmFrom[b] <= t /\ t <= pmNow}
  <1>1. pmMon[b] = "ask" /\ UNCHANGED <<pmPhase, pmNow, pmFrom, pmBuffer, pmSent, pmSkipped>>
          /\ pmNow \in Nat
    BY DEF PM!Retrieved, MonTypeOK
  <1>2. pmPhase # "none"
    BY <1>1 DEF Unstarted
  <1>3. \A a \in Attr : PM!SentTimes(a)' = PM!SentTimes(a)
    BY <1>1 DEF PM!SentTimes
  <1>4. CASE new = {}
    <2>1. UNCHANGED <<pmGot, pmLast>> /\ pmMon' = [pmMon EXCEPT ![b] = "sleep"]
      BY <1>4 DEF PM!Retrieved
    <2>2. MonTypeOK'
      BY <1>1, <2>1 DEF MonTypeOK
    <2>3. \A a \in Attr : Known(a)' = Known(a)
      BY <1>1, <1>3, <2>1 DEF Known
    <2>4. \A a \in Attr : pmMon'[a] = (IF a = b THEN "sleep" ELSE pmMon[a])
      BY <2>1 DEF MonTypeOK
    <2>5. QED
      BY <1>1, <1>2, <1>3, <2>1, <2>2, <2>3, <2>4 DEF FlowOf, AskOf, NoGap, Unstarted
  <1>5. CASE new # {}
    <2>1. /\ pmMon' = [pmMon EXCEPT ![b] = "lock"] /\ pmGot' = [pmGot EXCEPT ![b] = new]
          /\ pmLast' = [pmLast EXCEPT ![b] = pmNow]
      BY <1>5 DEF PM!Retrieved
    <2>2. MonTypeOK' /\ pmMon'[b] = "lock" /\ pmGot'[b] = new /\ pmLast'[b] = pmNow
      BY <1>1, <2>1 DEF MonTypeOK
    <2>3. FlowOf(b) /\ AskOf(b) /\ (pmPhase = "on" => NoGap(b)) /\ pmGot[b] = {}
            /\ pmLast[b] \in Nat /\ pmFrom[b] \in Nat
          /\ Known(b) = PM!SentTimes(b) \cup pmBuffer[b] /\ pmLast[b] < pmFrom[b]
      BY <1>1 DEF FlowOf, Known, MonTypeOK, AskOf
    <2>4. Known(b)' = Known(b) \cup new
      BY <1>1, <1>3, <2>2, <2>3 DEF Known
    <2>5. PM!SentTimes(b) \subseteq Nat /\ pmBuffer[b] \subseteq Nat /\ Known(b) \subseteq Nat
            /\ PM!Time \subseteq Nat
      <3>1. PM!Time \subseteq Nat
        BY PM!TimeAssumption DEF PM!TimeAssumption, PM!Time
      <3>2. pmSent[b] \in Seq(PM!Time) /\ pmBuffer[b] \subseteq PM!Time
        BY DEF MonTypeOK
      <3>3. PM!SentTimes(b) \subseteq PM!Time
        BY <3>2 DEF PM!SentTimes
      <3>4. QED
        BY <2>3, <3>1, <3>2, <3>3
    <2>6. FlowOf(b)'
      <3>1. pmSent'[b] = pmSent[b] /\ pmBuffer'[b] = pmBuffer[b]
              /\ PM!SentTimes(b)' = PM!SentTimes(b) /\ pmNow' = pmNow
        BY <1>1, <1>3
      <3>2. \A t \in Known(b), u \in new : t <= pmLast[b] /\ pmLast[b] < pmFrom[b]
            /\ pmFrom[b] <= u /\ u <= pmNow /\ t \in Nat /\ u \in Nat
        BY <2>3, <2>5 DEF FlowOf
      <3>3. \A t \in Known(b), u \in new : t < u
        BY <2>3, <3>2
      <3>4. \A t \in Known(b) : t <= pmNow
        BY <1>1, <2>3, <2>5 DEF FlowOf
      <3>5. \A t \in Known(b) \cup new : t <= pmNow
        BY <3>4
      <3>6. pmNow <= pmNow
        BY <1>1
      <3>7. PM!SentTimes(b) \subseteq Known(b) /\ pmBuffer[b] \subseteq Known(b)
        BY DEF Known
      <3>8. (\A t \in PM!SentTimes(b), u \in pmBuffer[b] \cup new : t < u)
              /\ (\A t \in pmBuffer[b], u \in new : t < u)
        BY <2>3, <3>3, <3>7 DEF FlowOf
      <3>. HIDE DEF new
      <3>9. QED
        BY <2>2, <2>3, <2>4, <3>1, <3>5, <3>6, <3>8 DEF FlowOf
    <2>7. ASSUME pmPhase' = "on", NEW t \in Known(b)', NEW u \in PM!Time, t < u, u <= pmNow
          PROVE  u \in Known(b)' \cup pmSkipped'[b]
      <3>1. CASE pmFrom[b] <= u
        BY <2>4, <2>7, <3>1
      <3>2. CASE u < pmFrom[b] /\ pmLast[b] < u
        <4>1. pmLast[b] # 0
          <5>1. t \in new => FALSE
            BY <2>3, <2>5, <2>7, <3>2
          <5>2. t \in Known(b) /\ t <= pmLast[b]
            BY <2>3, <2>4, <2>7, <5>1 DEF FlowOf
          <5>3. t \in PM!Time
            BY <2>3, <5>2 DEF MonTypeOK, PM!SentTimes
          <5>4. QED
            BY <2>3, <5>2, <5>3 DEF PM!Time
        <4>2. u \in pmSkipped[b]
          BY <1>1, <2>3, <2>7, <3>2, <4>1 DEF AskOf
        <4>3. QED
          BY <1>1, <4>2
      <3>3. CASE u <= pmLast[b]
        <4>1. t \in Known(b)
          <5>1. t \in new => pmFrom[b] <= t /\ t \in Nat /\ u \in Nat
            BY <2>5
          <5>2. t \notin new
            BY <2>3, <2>7, <3>3, <5>1
          <5>3. QED
            BY <2>4, <5>2
        <4>2. u \in Known(b) \cup pmSkipped[b]
          BY <1>1, <2>3, <2>7, <3>3, <4>1 DEF NoGap
        <4>3. QED
          BY <1>1, <2>4, <4>2
      <3>4. QED
        BY <2>3, <2>5, <2>7, <3>1, <3>2, <3>3
    <2>8. AskOf(b)' /\ (pmPhase' = "on" => NoGap(b)')
      BY <2>2, <2>7 DEF AskOf, NoGap
    <2>9. ASSUME NEW a \in Attr, a # b PROVE FlowOf(a)' /\ AskOf(a)'
                 /\ (pmPhase' = "on" => NoGap(a)')
      <3>1. pmMon'[a] = pmMon[a] /\ pmGot'[a] = pmGot[a] /\ pmLast'[a] = pmLast[a]
        BY <2>1, <2>9 DEF MonTypeOK
      <3>2. QED
        BY <1>1, <3>1, SameFlow
    <2>10. QED
      BY <1>1, <1>2, <2>2, <2>6, <2>8, <2>9 DEF Unstarted
  <1>6. QED
    BY <1>4, <1>5

LEMMA ReceivedFlow ==
  ASSUME MonInv, NEW b \in Attr, PM!ReceiveFromMonitor(b) PROVE MonInv'
  <1>. USE DEF MonInv
  <1>1. /\ pmMon[b] = "lock" /\ UNCHANGED <<pmPhase, pmNow, pmFrom, pmLast, pmSent, pmSkipped>>
           /\ pmNow \in Nat
        /\ pmGot' = [pmGot EXCEPT ![b] = {}] /\ pmMon' = [pmMon EXCEPT ![b] = "sleep"]
    BY DEF PM!ReceiveFromMonitor, MonTypeOK
  <1>2. pmBuffer' = IF pmPhase = "off" THEN pmBuffer ELSE [pmBuffer EXCEPT ![b] = pmBuffer[b] \cup pmGot[b]]
    BY DEF PM!ReceiveFromMonitor
  <1>3. MonTypeOK' /\ pmPhase # "none"
    BY <1>1, <1>2 DEF MonTypeOK, Unstarted
  <1>4. pmGot'[b] = {} /\ pmMon'[b] = "sleep"
          /\ pmBuffer'[b] \in {pmBuffer[b], pmBuffer[b] \cup pmGot[b]}
        /\ (pmPhase # "off" => pmBuffer'[b] = pmBuffer[b] \cup pmGot[b])
    BY <1>1, <1>2 DEF MonTypeOK
  <1>5. PM!SentTimes(b)' = PM!SentTimes(b) /\ Known(b)' \subseteq Known(b)
          /\ (pmPhase # "off" => Known(b)' = Known(b))
    BY <1>1, <1>4 DEF PM!SentTimes, Known
  <1>6. FlowOf(b)' /\ AskOf(b)' /\ (pmPhase' = "on" => NoGap(b)')
    BY <1>1, <1>4, <1>5 DEF FlowOf, AskOf, NoGap
  <1>7. ASSUME NEW a \in Attr, a # b PROVE FlowOf(a)' /\ AskOf(a)' /\ (pmPhase' = "on" => NoGap(a)')
    <2>1. pmMon'[a] = pmMon[a] /\ pmGot'[a] = pmGot[a] /\ pmBuffer'[a] = pmBuffer[a]
      BY <1>1, <1>2, <1>7 DEF MonTypeOK
    <2>2. QED
      BY <1>1, <2>1, SameFlow
  <1>8. QED
    BY <1>1, <1>3, <1>6, <1>7 DEF Unstarted

(* What has been buffered is later than what has been sent.                *)
LEMMA PublishedFlow ==
  ASSUME MonInv, PM!TimeAssumption, NEW a \in Attr,
         pmSent'[a] = pmSent[a] \o PM!InOrder(pmBuffer[a]), pmBuffer'[a] = {}, pmGot'[a] = pmGot[a],
         UNCHANGED <<pmPhase, pmNow, pmMon, pmFrom, pmLast, pmSkipped>>
  PROVE  pmSent'[a] \in Seq(PM!Time) /\ FlowOf(a)' /\ AskOf(a)' /\ (pmPhase' = "on" => NoGap(a)')
  <1>. DEFINE s == PM!InOrder(pmBuffer[a])
              n == Len(pmSent[a])
              m == Cardinality(pmBuffer[a])
  <1>1. MonTypeOK /\ FlowOf(a) /\ AskOf(a) /\ (pmPhase = "on" => NoGap(a))
          /\ pmSent[a] \in Seq(PM!Time)
        /\ pmBuffer[a] \subseteq PM!Time /\ PM!Time \subseteq Nat /\ pmLast[a] \in Nat
             /\ pmNow \in Nat
    BY DEF MonInv, MonTypeOK, PM!Time
  <1>2. IsFiniteSet(pmBuffer[a])
    <2>1. IsFiniteSet(PM!Time)
      BY FS_Interval DEF PM!Time, PM!TimeAssumption
    <2>2. QED
      BY <1>1, <2>1, FS_Subset
  <1>3. /\ s \in [1..m -> pmBuffer[a]] /\ Increasing(s) /\ m \in Nat
        /\ \A t \in pmBuffer[a] : \E i \in 1..m : s[i] = t
    BY <1>1, <1>2, InOrderFacts
  <1>. HIDE DEF s, m
  <1>4. s \in Seq(PM!Time) /\ Len(s) = m
    BY <1>1, <1>3
  <1>5. /\ pmSent'[a] \in Seq(PM!Time) /\ Len(pmSent'[a]) = n + m
        /\ \A i \in 1..n : pmSent'[a][i] = pmSent[a][i]
        /\ \A i \in (n + 1)..(n + m) : pmSent'[a][i] = s[i - n] /\ i - n \in 1..m
             /\ s[i - n] \in pmBuffer[a]
    <2>1. pmSent'[a] = pmSent[a] \o s
      BY DEF s
    <2>2. n \in Nat /\ DOMAIN pmSent[a] = 1..n
      BY <1>1
    <2>3. pmSent[a] \o s \in Seq(PM!Time) /\ Len(pmSent[a] \o s) = n + m
      BY <1>1, <1>4, ConcatProperties
    <2>4. \A i \in 1..(n + m) : (pmSent[a] \o s)[i] = IF i <= n THEN pmSent[a][i] ELSE s[i - n]
      BY <1>1, <1>4, ConcatProperties
    <2>5. \A i \in (n + 1)..(n + m) : i - n \in 1..m /\ ~(i <= n) /\ i \in 1..(n + m)
      BY <1>3, <2>2
    <2>6. \A i \in 1..n : i <= n /\ i \in 1..(n + m)
      BY <1>3, <2>2
    <2>. HIDE DEF n
    <2>7. QED
      BY <1>3, <2>1, <2>2, <2>3, <2>4, <2>5, <2>6
  <1>6. DOMAIN pmSent'[a] = 1..(n + m) /\ DOMAIN pmSent[a] = 1..n /\ n \in Nat
    <2>1. n \in Nat /\ DOMAIN pmSent[a] = 1..n
      BY <1>1
    <2>2. DOMAIN pmSent'[a] = 1..Len(pmSent'[a])
      BY <1>5, LenProperties
    <2>3. QED
      BY <1>5, <2>1, <2>2
  <1>. HIDE DEF n
  <1>7. PM!SentTimes(a)' = PM!SentTimes(a) \cup pmBuffer[a]
    <2>1. ASSUME NEW t \in pmBuffer[a] PROVE t \in PM!SentTimes(a)'
      <3>1. PICK i \in 1..m : s[i] = t
        BY <1>3
      <3>2. n + i \in (n + 1)..(n + m) /\ (n + i) - n = i
        BY <1>3, <1>6
      <3>3. pmSent'[a][n + i] = t
        BY <1>5, <3>1, <3>2
      <3>4. n + i \in 1..(n + m)
        BY <1>3, <1>6
      <3>5. QED
        BY <1>6, <3>3, <3>4 DEF PM!SentTimes
    <2>2. PM!SentTimes(a) \subseteq PM!SentTimes(a)'
      <3>1. \A i \in 1..n : i \in 1..(n + m)
        BY <1>3, <1>6
      <3>2. QED
        BY <1>5, <1>6, <3>1 DEF PM!SentTimes
    <2>3. \A i \in 1..(n + m) : i \in 1..n \/ i \in (n + 1)..(n + m)
      BY <1>3, <1>6
    <2>4. PM!SentTimes(a)' \subseteq PM!SentTimes(a) \cup pmBuffer[a]
      BY <1>5, <1>6, <2>3 DEF PM!SentTimes
    <2>5. QED
      BY <2>1, <2>2, <2>4
  <1>8. Known(a)' = Known(a)
    BY <1>7 DEF Known
  <1>9. ASSUME NEW i \in 1..(n + m), NEW j \in 1..(n + m), i < j PROVE pmSent'[a][i] < pmSent'[a][j]
    <2>1. CASE j \in 1..n
      <3>1. i \in 1..n /\ pmSent[a][i] < pmSent[a][j]
        BY <1>1, <1>6, <1>9, <2>1 DEF FlowOf
      <3>2. QED
        BY <1>5, <2>1, <3>1
    <2>2. CASE i \in 1..n /\ j \in (n + 1)..(n + m)
      <3>1. pmSent[a][i] \in PM!SentTimes(a) /\ s[j - n] \in pmBuffer[a]
        BY <1>5, <1>6, <2>2 DEF PM!SentTimes
      <3>2. pmSent[a][i] < s[j - n]
        BY <1>1, <3>1 DEF FlowOf
      <3>3. QED
        BY <1>5, <2>2, <3>2
    <2>3. CASE i \in (n + 1)..(n + m) /\ j \in (n + 1)..(n + m)
      <3>1. i - n < j - n
        BY <1>3, <1>6, <1>9
      <3>2. i - n \in 1..m /\ j - n \in 1..m /\ DOMAIN s = 1..m
        BY <1>3, <1>5, <2>3
      <3>3. s[i - n] < s[j - n]
        BY <3>1, <3>2, <1>3 DEF Increasing
      <3>4. QED
        BY <1>5, <2>3, <3>3
    <2>4. (i \in 1..n \/ i \in (n + 1)..(n + m)) /\ (j \in 1..n \/ j \in (n + 1)..(n + m))
      BY <1>3, <1>6
    <2>5. i \in (n + 1)..(n + m) /\ j \in 1..n => FALSE
      BY <1>3, <1>6, <1>9
    <2>6. QED
      BY <2>1, <2>2, <2>3, <2>4, <2>5
  <1>10. FlowOf(a)'
    BY <1>1, <1>6, <1>7, <1>8, <1>9 DEF FlowOf
  <1>11. AskOf(a)' /\ (pmPhase' = "on" => NoGap(a)')
    BY <1>1, <1>8 DEF AskOf, NoGap
  <1>12. QED
    BY <1>5, <1>10, <1>11

LEMMA StepMon ==
  ASSUME MonInv, PM!TimeAssumption, [PM!Next]_(PM!vars) PROVE MonInv'
  <1>. USE DEF MonInv
  <1>1. CASE \/ UNCHANGED PM!vars \/ PM!Tick \/ PM!Stop \/ PM!Notified
             \/ (PM!Publish /\ UNCHANGED <<pmSent, pmBuffer>>)
    <2>1. /\ UNCHANGED <<pmMon, pmFrom, pmGot, pmLast, pmBuffer, pmSent, pmSkipped>>
             /\ pmNow' \in Nat /\ pmNow <= pmNow'
          /\ (pmPhase' = pmPhase \/ pmPhase' = "stopping")
      BY <1>1 DEF PM!vars, PM!Tick, PM!Stop, PM!Notified, PM!Publish, MonTypeOK
    <2>2. MonTypeOK'
      BY <2>1 DEF MonTypeOK
    <2>3. \A a \in Attr : Known(a)' = Known(a)
      BY <2>1 DEF Known, PM!SentTimes
    <2>4. Unstarted'
      BY <2>1, <2>3 DEF Unstarted
    <2>5. QED
      BY <2>1, <2>2, <2>4, SameFlow
  <1>2. CASE PM!StartMonitoring
    <2>1. /\ UNCHANGED <<pmNow, pmFrom, pmGot, pmLast, pmBuffer, pmSent, pmSkipped>>
             /\ pmPhase = "none" /\ pmPhase' = "on"
          /\ pmMon' = [a \in Attr |-> "sleep"]
      BY <1>2 DEF PM!StartMonitoring
    <2>2. MonTypeOK' /\ Unstarted'
      BY <2>1 DEF MonTypeOK, Unstarted
    <2>3. ASSUME NEW a \in Attr PROVE FlowOf(a)' /\ AskOf(a)' /\ NoGap(a)'
      <3>1. Known(a) = {} /\ Known(a)' = Known(a) /\ PM!SentTimes(a)' = PM!SentTimes(a) /\ FlowOf(a)
        BY <2>1 DEF Unstarted, Known, PM!SentTimes
      <3>2. pmMon'[a] = "sleep" /\ pmGot'[a] = {}
        BY <2>1, <3>1 DEF Known
      <3>3. QED
        BY <2>1, <3>1, <3>2 DEF FlowOf, AskOf, NoGap
    <2>4. QED
      BY <2>2, <2>3
  <1>3. CASE PM!Stopped
    <2>1. /\ UNCHANGED <<pmNow, pmMon, pmFrom, pmGot, pmLast, pmSent, pmSkipped>>
             /\ pmPhase' = "off"
          /\ pmBuffer' = [a \in Attr |-> {}]
      BY <1>3 DEF PM!Stopped
    <2>2. MonTypeOK' /\ Unstarted'
      BY <2>1 DEF MonTypeOK, Unstarted
    <2>3. ASSUME NEW a \in Attr PROVE FlowOf(a)' /\ AskOf(a)'
      <3>1. Known(a)' \subseteq Known(a) /\ PM!SentTimes(a)' = PM!SentTimes(a) /\ FlowOf(a)
              /\ AskOf(a) /\ pmBuffer'[a] = {}
        BY <2>1 DEF Known, PM!SentTimes
      <3>2. QED
        BY <2>1, <3>1 DEF FlowOf, AskOf
    <2>4. QED
      BY <2>1, <2>2, <2>3
  <1>4. CASE PM!Publish /\ ~UNCHANGED <<pmSent, pmBuffer>>
    <2>1. /\ pmPhase = "on" /\ UNCHANGED <<pmPhase, pmNow, pmMon, pmFrom, pmGot, pmLast, pmSkipped>>
          /\ pmSent' = [a \in Attr |-> pmSent[a] \o PM!InOrder(pmBuffer[a])]
               /\ pmBuffer' = [a \in Attr |-> {}]
      BY <1>4 DEF PM!Publish
    <2>2. \A a \in Attr : pmSent'[a] \in Seq(PM!Time) /\ FlowOf(a)' /\ AskOf(a)'
          /\ (pmPhase' = "on" => NoGap(a)')
      BY <2>1, PublishedFlow
    <2>3. MonTypeOK'
      BY <2>1, <2>2 DEF MonTypeOK
    <2>4. QED
      BY <2>1, <2>2, <2>3 DEF Unstarted
  <1>5. ASSUME NEW b \in Attr, PM!RetrievalFails(b) PROVE MonInv'
    <2>1. /\ pmMon' = [pmMon EXCEPT ![b] = "sleep"] /\ pmMon[b] = "ask"
          /\ UNCHANGED <<pmPhase, pmNow, pmFrom, pmGot, pmLast, pmBuffer, pmSent, pmSkipped>>
      BY <1>5 DEF PM!RetrievalFails
    <2>2. MonTypeOK' /\ pmPhase # "none"
            /\ \A a \in Attr : pmMon'[a] = (IF a = b THEN "sleep" ELSE pmMon[a])
      BY <2>1 DEF MonTypeOK, Unstarted
    <2>3. \A a \in Attr : Known(a)' = Known(a) /\ PM!SentTimes(a)' = PM!SentTimes(a)
      BY <2>1 DEF Known, PM!SentTimes
    <2>4. QED
      BY <2>1, <2>2, <2>3 DEF FlowOf, AskOf, NoGap, Unstarted
  <1>6. QED
    BY <1>1, <1>2, <1>3, <1>4, <1>5, AskFlow, RetrievedFlow, ReceivedFlow DEF PM!Next

(* The values of an attribute reach the stream once, in order and without  *)
(* a gap, whatever retrievals fail or overlap with publications, for any   *)
(* number of attributes and any window.                                    *)
THEOREM EveryValueIsSentOnce == PM!Spec => []EachValueOnce
  <1>1. MonInv /\ [PM!Next]_(PM!vars) => MonInv'
    BY SuiteAssumption, StepMon
  <1>2. MonInv => EachValueOnce
    BY DEF MonInv, FlowOf, NoGap, Known, EachValueOnce, PM!EachValueOnce
  <1>3. QED
    BY InitMon, <1>1, <1>2, PTL DEF PM!Spec

(* Nothing is published once stop_resource_monitoring has returned.        *)
THEOREM StoppedMonitorIsSilent == PM!Spec => []StopIsFinal
  <1>1. PM!Init => StopIsFinal
    BY DEF PM!Init, StopIsFinal, PM!StopIsFinal
  <1>2. StopIsFinal /\ [PM!Next]_(PM!vars) => StopIsFinal'
    BY DEF StopIsFinal, PM!StopIsFinal, PM!vars, PM!Next, PM!Tick, PM!StartMonitoring, PM!Stop,
           PM!Stopped, PM!Publish, PM!Notified, PM!Ask, PM!Retrieved, PM!RetrievalFails,
           PM!ReceiveFromMonitor, PM!Unlocked
  <1>3. QED
    BY <1>1, <1>2, PTL DEF PM!Spec


(* A child's entry goes only with the manager, so the entry that a launched*)
(* child's answer is stored in is there whenever the manager is active;    *)
(* otherwise the entries of its own children would be stored with no       *)
(* rollup made.                                                            *)
ChildrenHaveEntries == smActive = "yes" => \A c \in Subordinate : smAgg[c] # Nil

Fresh ==
  smActive = "none" =>
    /\ smRollup = "UNKNOWN" /\ smOwn = "UNKNOWN"
    /\ \A c \in SM!Device : smEnding[c] = "none" /\ smAnswer[c] = Nil

StatusInv == SM!TypeOK /\ Fresh /\ ChildrenHaveEntries /\ SM!RollupConsolidates

Counted == \A c \in SM!Device : smEnding[c] # "rollup"

LEMMA ConsolidatedType == \A S : SM!Consolidated(S) \in SM!Status
  BY DEF SM!Consolidated, SM!Status

LEMMA InitStatus == SM!Init => StatusInv
  BY DEF SM!Init, StatusInv, SM!TypeOK, Fresh, ChildrenHaveEntries, SM!RollupConsolidates, SM!Status

(* An action that leaves the statuses and the rollup alone, and does not   *)
(* activate the manager or end a termination.                              *)
LEMMA SameStatuses ==
  ASSUME StatusInv, SM!TypeOK', UNCHANGED <<smAgg, smOwn, smRollup>>, smActive' = smActive
         \/ smActive' = "no",
         Counted' => Counted, smActive' = "none" => UNCHANGED <<smEnding, smAnswer>>
  PROVE  StatusInv'
  <1>1. Fresh' /\ ChildrenHaveEntries'
    BY DEF StatusInv, Fresh, ChildrenHaveEntries
  <1>2. SM!RollupConsolidates'
    BY DEF StatusInv, SM!RollupConsolidates, SM!Statuses, Counted
  <1>3. QED
    BY <1>1, <1>2 DEF StatusInv

(* An action that makes the rollup again.                                  *)
LEMMA NewRollup ==
  ASSUME StatusInv, SM!TypeOK', smActive # "none", UNCHANGED smActive,
         SM!UpdateRollup(smAgg', smOwn'),
         \A c \in Subordinate : smAgg[c] # Nil => smAgg'[c] # Nil
  PROVE  StatusInv'
  BY DEF StatusInv, Fresh, ChildrenHaveEntries, SM!RollupConsolidates, SM!UpdateRollup

LEMMA StepStatus ==
  ASSUME SM!DeviceAssumption, StatusInv, [SM!Next]_(SM!vars)
  PROVE  StatusInv'
  <1>. USE DEF SM!DeviceAssumption
  <1>. SM!TypeOK /\ Fresh /\ ChildrenHaveEntries /\ SM!RollupConsolidates /\ Nil \notin SM!Status
    BY DEF StatusInv
  <1>1. CASE UNCHANGED SM!vars
    <2>1. SM!TypeOK'
      BY <1>1 DEF SM!TypeOK, SM!vars
    <2>2. QED
      BY <1>1, <2>1, SameStatuses DEF SM!vars, Counted
  <1>2. CASE SM!Create
    <2>1. SM!TypeOK'
      BY <1>2 DEF SM!Create, SM!TypeOK, SM!Status
    <2>2. SM!Statuses(smAgg', smOwn') \subseteq {"UNKNOWN"}
            /\ "UNKNOWN" \in SM!Statuses(smAgg', smOwn')
      BY <1>2 DEF SM!Create, SM!Statuses, Fresh
    <2>3. smRollup' = SM!Consolidated(SM!Statuses(smAgg', smOwn'))
      BY <1>2, <2>2 DEF SM!Create, SM!Consolidated, Fresh
    <2>4. Fresh' /\ ChildrenHaveEntries'
      BY <1>2 DEF SM!Create, Fresh, ChildrenHaveEntries, SM!Device, SM!Status
    <2>5. QED
      BY <2>1, <2>3, <2>4 DEF StatusInv, SM!RollupConsolidates
  <1>3. CASE SM!Destroy
    <2>1. SM!TypeOK'
      BY <1>3 DEF SM!Destroy, SM!TypeOK, SM!Status
    <2>2. QED
      BY <1>3, <2>1 DEF SM!Destroy, StatusInv, Fresh, ChildrenHaveEntries, SM!RollupConsolidates
  <1>4. CASE SM!Publish
    <2>1. SM!TypeOK'
      BY <1>4 DEF SM!Publish, SM!TypeOK
    <2>2. QED
      BY <1>4, <2>1, SameStatuses DEF SM!Publish, Counted
  <1>5. ASSUME NEW s \in SM!Status, SM!SetAggstatus(s) PROVE StatusInv'
    <2>1. SM!TypeOK'
      BY <1>5, ConsolidatedType DEF SM!SetAggstatus, SM!UpdateAndPublish, SM!UpdateRollup, SM!TypeOK
    <2>2. QED
      BY <1>5, <2>1, NewRollup DEF SM!SetAggstatus, SM!UpdateAndPublish
  <1>6. ASSUME NEW c \in SM!Device, NEW s \in SM!Status, SM!ChildReports(c, s) PROVE StatusInv'
    <2>1. SM!TypeOK'
      BY <1>6 DEF SM!ChildReports, SM!TypeOK
    <2>2. QED
      BY <1>6, <2>1, SameStatuses DEF SM!ChildReports, Counted
  <1>7. ASSUME NEW c \in SM!Device, SM!GotAggregateStatus(c) PROVE StatusInv'
    <2>1. smReport[c] \in SM!Status /\ Nil \notin SM!Status
      BY <1>7 DEF SM!GotAggregateStatus, SM!TypeOK
    <2>2. CASE smActive = "yes" /\ smAgg[c] \notin {Nil, smReport[c]}
      <3>1. SM!TypeOK'
        BY <1>7, <2>1, <2>2, ConsolidatedType DEF SM!GotAggregateStatus, SM!UpdateAndPublish,
           SM!UpdateRollup, SM!TypeOK
      <3>2. \A d \in Subordinate : smAgg[d] # Nil => smAgg'[d] # Nil
        BY <1>7, <2>1, <2>2 DEF SM!GotAggregateStatus, SM!TypeOK, SM!Device
      <3>3. SM!UpdateRollup(smAgg', smOwn') /\ UNCHANGED smActive
        BY <1>7, <2>2 DEF SM!GotAggregateStatus, SM!UpdateAndPublish, SM!UpdateRollup
      <3>4. QED
        BY <2>2, <3>1, <3>2, <3>3, NewRollup
    <2>3. CASE ~(smActive = "yes" /\ smAgg[c] \notin {Nil, smReport[c]})
      <3>1. SM!TypeOK'
        BY <1>7, <2>3 DEF SM!GotAggregateStatus, SM!TypeOK
      <3>2. QED
        BY <1>7, <2>3, <3>1, SameStatuses DEF SM!GotAggregateStatus, Counted
    <2>4. QED
      BY <2>2, <2>3
  <1>8. ASSUME NEW c \in Descendant, SM!DeviceAdded(c) PROVE StatusInv'
    <2>1. smAgg' \in [SM!Device -> SM!Status \cup {Nil}] /\ \A d \in Subordinate : smAgg[d] # Nil
            => smAgg'[d] # Nil
      BY <1>8 DEF SM!DeviceAdded, SM!TypeOK, SM!Device, SM!Status
    <2>2. SM!TypeOK'
      BY <1>8, <2>1, ConsolidatedType DEF SM!DeviceAdded, SM!UpdateAndPublish, SM!UpdateRollup,
         SM!TypeOK
    <2>3. QED
      BY <1>8, <2>1, <2>2, NewRollup DEF SM!DeviceAdded, SM!UpdateAndPublish, SM!UpdateRollup
  <1>9. ASSUME NEW c \in Descendant, SM!DeviceRemoved(c) PROVE StatusInv'
    <2>1. smAgg' \in [SM!Device -> SM!Status \cup {Nil}] /\ \A d \in Subordinate : smAgg[d] # Nil
            => smAgg'[d] # Nil
      BY <1>9 DEF SM!DeviceRemoved, SM!TypeOK, SM!Device
    <2>2. SM!TypeOK'
      BY <1>9, <2>1, ConsolidatedType DEF SM!DeviceRemoved, SM!UpdateAndPublish, SM!UpdateRollup,
         SM!TypeOK
    <2>3. QED
      BY <1>9, <2>1, <2>2, NewRollup DEF SM!DeviceRemoved, SM!UpdateAndPublish, SM!UpdateRollup
  <1>10. ASSUME NEW c \in Subordinate, SM!ChildTerminated(c) PROVE StatusInv'
    <2>1. SM!TypeOK'
      BY <1>10 DEF SM!ChildTerminated, SM!TypeOK, SM!Device
    <2>2. Counted' => Counted
      BY <1>10 DEF SM!ChildTerminated, Counted, SM!TypeOK
    <2>3. QED
      BY <1>10, <2>1, <2>2, SameStatuses DEF SM!ChildTerminated
  <1>11. ASSUME NEW c \in Subordinate, SM!SubscriberStopped(c) PROVE StatusInv'
    <2>1. SM!TypeOK'
      BY <1>11 DEF SM!SubscriberStopped, SM!TypeOK, SM!Device, SM!Status
    <2>2. ~Counted'
      BY <1>11 DEF SM!SubscriberStopped, Counted, SM!TypeOK, SM!Device
    <2>3. ChildrenHaveEntries'
      BY <1>11 DEF SM!SubscriberStopped, ChildrenHaveEntries, SM!TypeOK, SM!Status, SM!Device
    <2>4. Fresh'
      BY <1>11 DEF SM!SubscriberStopped, Fresh, SM!Device
    <2>5. QED
      BY <2>1, <2>2, <2>3, <2>4 DEF StatusInv, SM!RollupConsolidates, Counted
  <1>12. ASSUME NEW c \in Subordinate, SM!TerminatedRollup(c) PROVE StatusInv'
    <2>1. SM!TypeOK'
      BY <1>12, ConsolidatedType DEF SM!TerminatedRollup, SM!UpdateRollup, SM!TypeOK, SM!Device
    <2>2. smActive # "none"
      BY <1>12 DEF SM!TerminatedRollup, Fresh, SM!Device
    <2>3. QED
      BY <1>12, <2>1, <2>2, NewRollup DEF SM!TerminatedRollup, SM!UpdateRollup
  <1>13. ASSUME NEW c \in Subordinate, NEW s \in SM!Status, SM!ChildAnswers(c, s) PROVE StatusInv'
    <2>1. SM!TypeOK'
      BY <1>13 DEF SM!ChildAnswers, SM!TypeOK, SM!Device
    <2>2. QED
      BY <1>13, <2>1, SameStatuses DEF SM!ChildAnswers, Counted
  <1>14. ASSUME NEW c \in Subordinate, NEW s \in SM!Status, NEW D \in SUBSET Descendant,
                SM!Launched(c, D, s)
         PROVE  StatusInv'
    <2>1. smAnswer[c] \in SM!Status
      BY <1>14 DEF SM!Launched, SM!TypeOK, SM!Device
    <2>2. smAgg' \in [SM!Device -> SM!Status \cup {Nil}] /\ \A d \in Subordinate : smAgg[d] # Nil
            => smAgg'[d] # Nil
      BY <1>14, <2>1 DEF SM!Launched, SM!TypeOK, SM!Device
    <2>3. smActive # "none" /\ Nil \notin SM!Status
      BY <1>14 DEF SM!Launched, Fresh, SM!Device
    <2>4. SM!TypeOK'
      BY <1>14, <2>2, ConsolidatedType DEF SM!Launched, SM!UpdateRollup, SM!TypeOK, SM!Device
    <2>5. CASE smAgg[c] # Nil
      BY <1>14, <2>2, <2>3, <2>4, <2>5, NewRollup DEF SM!Launched, SM!UpdateRollup
    <2>6. CASE smAgg[c] = Nil
      <3>1. smActive # "yes"
        BY <2>6 DEF ChildrenHaveEntries
      <3>2. QED
        BY <1>14, <2>3, <2>4, <3>1 DEF SM!Launched, StatusInv, Fresh, ChildrenHaveEntries,
           SM!RollupConsolidates
    <2>7. QED
      BY <2>5, <2>6
  <1>15. QED
    BY <1>1, <1>2, <1>3, <1>4, <1>5, <1>6, <1>7, <1>8, <1>9, <1>10, <1>11, <1>12, <1>13, <1>14
    DEF SM!Next

LEMMA StatusInvariant == SM!Spec => []StatusInv
  <1>1. StatusInv /\ [SM!Next]_(SM!vars) => StatusInv'
    BY SuiteAssumption, StepStatus
  <1>2. QED
    BY InitStatus, <1>1, PTL DEF SM!Spec

(* What the manager keeps of its children, descendants and terminations is *)
(* always of its kind (status_manager.py).                                 *)
THEOREM StatusesTypeCorrect == SM!Spec => []SM!TypeOK
  BY StatusInvariant, PTL DEF StatusInv

(* The rollup that the platform publishes is the consolidation of the      *)
(* statuses it holds (_update_rollup_status after each change, with the    *)
(* manager's lock), for any number of children and descendants.            *)
THEOREM RollupIsConsolidated == SM!Spec => []RollupConsolidates
  <1>1. StatusInv => RollupConsolidates
    BY DEF StatusInv, RollupConsolidates
  <1>2. QED
    BY StatusInvariant, <1>1, PTL

-----------------------------------------------------------------------------
(* The states of a platform agent, of its driver and of its monitors       *)

(* A handler runs in a state that handles its event, a driver that is      *)
(* called for has what the handler counts on, and nothing is monitored     *)
(* once a reset has stopped the streams.                                   *)
Operational == {"IDLE", "STOPPED", "COMMAND", "MONITORING"}
Resetting == paHandler # Nil /\ paHandler.event \in {"RESET", "SHUTDOWN"}
             /\ paHandler.leg \in {"driver", "call"}

MonitorsRun ==
  /\ IF Resetting THEN ~paPrm ELSE paPrm <=> paState = "MONITORING"
  /\ \A m \in Monitor : paActive[m] => paPrm
DriverReady ==
  /\ paState \in Operational => paDrv = "CONNECTED"
  /\ paHandler # Nil /\ paHandler.leg = "children"
       /\ paHandler.event \in {"GO_ACTIVE", "AUTORECONNECT"}
       => paDrv = "CONNECTED"
Handles ==
  paHandler # Nil =>
    /\ paState \in PA!Handled[paHandler.event] /\ paHandler.tries < PA!MaxTries
    /\ paHandler.leg = "clear" => paHandler.event = "SHUTDOWN" /\ paState = "STOPPED"
    /\ paHandler.leg = "streams" => paHandler.event \in {"RESET", "SHUTDOWN"}
    /\ paHandler.leg \in {"driver", "call"}
         => paHandler.event \in {"GO_ACTIVE", "GO_INACTIVE", "RESET", "SHUTDOWN", "RESOURCE",
                                 "AUTORECONNECT"}
    /\ paHandler.leg = "children" => paHandler.event # "RESOURCE"
    /\ paHandler.leg = "children" /\ paHandler.event = "AUTORECONNECT" => paLost = "MONITORING"
PlatformInv == PA!TypeOK /\ Handles /\ MonitorsRun /\ DriverReady

LEMMA InitPlatform == PA!Init => PlatformInv
  <1>. SUFFICES ASSUME PA!Init PROVE PlatformInv
    OBVIOUS
  <1>1. PA!TypeOK
    BY DEF PA!Init, PA!TypeOK, PA!State
  <1>2. Handles
    BY DEF PA!Init, Handles, PA!State
  <1>3. MonitorsRun
    BY DEF PA!Init, MonitorsRun, Resetting, Handles, PA!TypeOK, PA!State
  <1>4. DriverReady
    BY DEF PA!Init, DriverReady, Operational, Handles, PA!State
  <1>5. QED
    BY <1>1, <1>2, <1>3, <1>4 DEF PlatformInv

PlatformEvent == PA!Command \cup {"RESOURCE", "AUTORECONNECT"}

LEMMA Handlers ==
  /\ PlatformEvent = {"INITIALIZE", "GO_ACTIVE", "GO_INACTIVE", "RUN", "RESET", "SHUTDOWN",
                      "PAUSE", "RESUME",
              "CLEAR", "START_MONITORING", "STOP_MONITORING", "RESOURCE", "AUTORECONNECT"}
  /\ \A e \in PlatformEvent : PA!Handled[e] \subseteq PA!State \ {"NONE", "LAUNCHING"}
  <1>1. PlatformEvent = {"INITIALIZE", "GO_ACTIVE", "GO_INACTIVE", "RUN", "RESET", "SHUTDOWN",
                         "PAUSE", "RESUME",
              "CLEAR", "START_MONITORING", "STOP_MONITORING", "RESOURCE", "AUTORECONNECT"}
    BY DEF PlatformEvent, PA!Command, PA!Target
  <1>2. QED
    BY <1>1 DEF PA!Handled, PA!State

LEMMA GotoTyped ==
  ASSUME PA!TypeOK, NEW next \in PA!State, PA!Goto(next)
  PROVE  paState' \in PA!State /\ paLoops' \in Nat /\ paReconnect' \in BOOLEAN
  BY DEF PA!Goto, PA!TypeOK

LEMMA GotoLost ==
  ASSUME PA!TypeOK, PA!Goto("LOST_CONNECTION")
  PROVE  paState' = "LOST_CONNECTION" /\ paState' \in PA!State /\ paLoops' \in Nat
         /\ paReconnect' \in BOOLEAN
  BY DEF PA!Goto, PA!TypeOK, PA!State

(* A handler that is over.                                                 *)
LEMMA HandlerConcludes ==
  ASSUME PlatformInv, paHandler' = Nil, paState' \in PA!State, paLoops' \in Nat,
         paReconnect' \in BOOLEAN,
         paLost' \in PA!State, paOms' \in BOOLEAN,
         paDrv' \in {"none", "UNCONFIGURED", "DISCONNECTED", "CONNECTED"},
         paDrvLock' \in Monitor \cup {"handler", Nil}, paPrm' \in BOOLEAN,
         paActive' \in [Monitor -> BOOLEAN],
         paMon' \in [Monitor -> {"none", "sleep", "driver", "call", "agent"}],
         paPrm' <=> paState' = "MONITORING", \A m \in Monitor : paActive'[m] => paPrm',
         paState' \in Operational => paDrv' = "CONNECTED"
  PROVE  PlatformInv'
  <1>1. PA!TypeOK'
    BY DEF PA!TypeOK
  <1>2. Handles' /\ MonitorsRun' /\ DriverReady'
    BY DEF Handles, MonitorsRun, DriverReady, Resetting
  <1>3. QED
    BY <1>1, <1>2 DEF PlatformInv

(* A handler that waits.                                                   *)
LEMMA HandlerWaits ==
  ASSUME PA!NilAssumption, PlatformInv, NEW h \in PA!Handler,
         NEW leg \in {"children", "clear", "streams", "driver", "call"},
         PA!Wait(h, leg), paState \in PA!Handled[h.event], h.tries < PA!MaxTries,
         paOms' \in BOOLEAN, UNCHANGED paLost,
         paDrv' \in {"none", "UNCONFIGURED", "DISCONNECTED", "CONNECTED"},
         paDrvLock' \in Monitor \cup {"handler", Nil}, paPrm' \in BOOLEAN,
         paActive' \in [Monitor -> BOOLEAN],
         paMon' \in [Monitor -> {"none", "sleep", "driver", "call", "agent"}],
         leg = "clear" => h.event = "SHUTDOWN" /\ paState = "STOPPED",
         leg = "streams" => h.event \in {"RESET", "SHUTDOWN"},
         leg \in {"driver", "call"}
           => h.event \in {"GO_ACTIVE", "GO_INACTIVE", "RESET", "SHUTDOWN", "RESOURCE",
                           "AUTORECONNECT"},
         leg = "children" => h.event # "RESOURCE",
         leg = "children" /\ h.event = "AUTORECONNECT" => paLost = "MONITORING",
         IF h.event \in {"RESET", "SHUTDOWN"} /\ leg \in {"driver", "call"}
           THEN ~paPrm' ELSE paPrm' <=> paState = "MONITORING",
         \A m \in Monitor : paActive'[m] => paPrm',
         paState \in Operational => paDrv' = "CONNECTED",
         leg = "children" /\ h.event \in {"GO_ACTIVE", "AUTORECONNECT"} => paDrv' = "CONNECTED"
  PROVE  PlatformInv'
  <1>1. paHandler' = [h EXCEPT !.leg = leg] /\ paHandler' \in PA!Handler
          /\ UNCHANGED <<paState, paLoops, paReconnect>>
    BY DEF PA!Wait, PA!Handler, PA!looping
  <1>2. paHandler'.event = h.event /\ paHandler'.leg = leg /\ paHandler'.tries = h.tries
    BY <1>1 DEF PA!Handler
  <1>3. PA!TypeOK'
    BY <1>1 DEF PA!TypeOK, PlatformInv
  <1>4. Handles'
    BY <1>1, <1>2 DEF Handles
  <1>5. MonitorsRun'
    BY <1>1, <1>2, PA!NilAssumption DEF MonitorsRun, Resetting, PA!NilAssumption
  <1>6. DriverReady'
    BY <1>1, <1>2 DEF DriverReady
  <1>7. QED
    BY <1>3, <1>4, <1>5, <1>6 DEF PlatformInv

LEMMA StepFree ==
  ASSUME PA!MonitorAssumption, PA!NilAssumption, PlatformInv,
         PA!Start \/ PA!LaunchComplete \/ PA!InitializeFails \/ PA!LoopEnds \/ PA!Autoreconnect
         \/ PA!OmsStops \/ PA!OmsWorks
  PROVE  PlatformInv'
  <1>. USE DEF PlatformInv
  <1>1. ASSUME PA!Start PROVE PlatformInv'
    <2>1. PA!TypeOK'
      BY <1>1 DEF PA!Start, PA!TypeOK, PA!looping, PA!monitors, PA!driver, PA!State
    <2>2. Handles'
      BY <1>1, Handlers DEF PA!Start, Handles, PA!looping, PA!monitors, PA!driver, PA!TypeOK,
         PA!Handler, PlatformEvent
    <2>3. MonitorsRun'
      BY <1>1 DEF PA!Start, MonitorsRun, Resetting, Handles, PA!TypeOK, PA!looping, PA!monitors,
         PA!driver
    <2>4. DriverReady'
      BY <1>1 DEF PA!Start, DriverReady, Operational, Handles, PA!looping, PA!monitors, PA!driver
    <2>5. QED
      BY <2>1, <2>2, <2>3, <2>4 DEF PlatformInv
  <1>2. ASSUME PA!LaunchComplete PROVE PlatformInv'
    <2>1. PA!TypeOK'
      BY <1>2 DEF PA!LaunchComplete, PA!TypeOK, PA!looping, PA!monitors, PA!driver, PA!State
    <2>2. Handles'
      BY <1>2 DEF PA!LaunchComplete, Handles, PA!looping, PA!monitors, PA!driver
    <2>3. MonitorsRun'
      BY <1>2 DEF PA!LaunchComplete, MonitorsRun, Resetting, Handles, PA!TypeOK, PA!looping,
         PA!monitors, PA!driver
    <2>4. DriverReady'
      BY <1>2 DEF PA!LaunchComplete, DriverReady, Operational, Handles, PA!looping, PA!monitors,
         PA!driver
    <2>5. QED
      BY <2>1, <2>2, <2>3, <2>4 DEF PlatformInv
  <1>3. ASSUME PA!InitializeFails PROVE PlatformInv'
    <2>1. PA!TypeOK'
      BY <1>3 DEF PA!InitializeFails, PA!TypeOK, PA!looping, PA!monitors, PA!driver
    <2>2. Handles'
      BY <1>3 DEF PA!InitializeFails, Handles, PA!looping, PA!monitors, PA!driver
    <2>3. MonitorsRun'
      BY <1>3 DEF PA!InitializeFails, MonitorsRun, Resetting, Handles, PA!TypeOK, PA!looping,
         PA!monitors, PA!driver
    <2>4. DriverReady'
      BY <1>3 DEF PA!InitializeFails, DriverReady, Operational, Handles, PA!looping, PA!monitors,
         PA!driver
    <2>5. QED
      BY <2>1, <2>2, <2>3, <2>4 DEF PlatformInv
  <1>4. ASSUME PA!LoopEnds PROVE PlatformInv'
    <2>1. PA!TypeOK'
      BY <1>4 DEF PA!LoopEnds, PA!TypeOK, PA!looping, PA!monitors, PA!driver
    <2>2. Handles'
      BY <1>4 DEF PA!LoopEnds, Handles, PA!looping, PA!monitors, PA!driver
    <2>3. MonitorsRun'
      BY <1>4 DEF PA!LoopEnds, MonitorsRun, Resetting, Handles, PA!TypeOK, PA!looping, PA!monitors,
         PA!driver
    <2>4. DriverReady'
      BY <1>4 DEF PA!LoopEnds, DriverReady, Operational, Handles, PA!looping, PA!monitors, PA!driver
    <2>5. QED
      BY <2>1, <2>2, <2>3, <2>4 DEF PlatformInv
  <1>5. ASSUME PA!Autoreconnect PROVE PlatformInv'
    <2>1. PA!TypeOK'
      BY <1>5 DEF PA!Autoreconnect, PA!TypeOK, PA!looping, PA!monitors, PA!driver, PA!Handler
    <2>2. Handles'
      BY <1>5 DEF PA!Autoreconnect, Handles, PA!looping, PA!monitors, PA!driver, PA!Handled,
         PA!MaxTries
    <2>3. MonitorsRun'
      BY <1>5 DEF PA!Autoreconnect, MonitorsRun, Resetting, Handles, PA!TypeOK, PA!looping,
         PA!monitors, PA!driver
    <2>4. DriverReady'
      BY <1>5 DEF PA!Autoreconnect, DriverReady, Operational, Handles, PA!looping, PA!monitors,
         PA!driver
    <2>5. QED
      BY <2>1, <2>2, <2>3, <2>4 DEF PlatformInv
  <1>6. ASSUME PA!OmsStops PROVE PlatformInv'
    <2>1. PA!TypeOK'
      BY <1>6 DEF PA!OmsStops, PA!TypeOK, PA!looping, PA!monitors, PA!driver
    <2>2. Handles'
      BY <1>6 DEF PA!OmsStops, Handles, PA!looping, PA!monitors, PA!driver
    <2>3. MonitorsRun'
      BY <1>6 DEF PA!OmsStops, MonitorsRun, Resetting, Handles, PA!TypeOK, PA!looping, PA!monitors,
         PA!driver
    <2>4. DriverReady'
      BY <1>6 DEF PA!OmsStops, DriverReady, Operational, Handles, PA!looping, PA!monitors, PA!driver
    <2>5. QED
      BY <2>1, <2>2, <2>3, <2>4 DEF PlatformInv
  <1>7. ASSUME PA!OmsWorks PROVE PlatformInv'
    <2>1. PA!TypeOK'
      BY <1>7 DEF PA!OmsWorks, PA!TypeOK, PA!looping, PA!monitors, PA!driver
    <2>2. Handles'
      BY <1>7 DEF PA!OmsWorks, Handles, PA!looping, PA!monitors, PA!driver
    <2>3. MonitorsRun'
      BY <1>7 DEF PA!OmsWorks, MonitorsRun, Resetting, Handles, PA!TypeOK, PA!looping, PA!monitors,
         PA!driver
    <2>4. DriverReady'
      BY <1>7 DEF PA!OmsWorks, DriverReady, Operational, Handles, PA!looping, PA!monitors, PA!driver
    <2>5. QED
      BY <2>1, <2>2, <2>3, <2>4 DEF PlatformInv
  <1>8. QED
    BY <1>1, <1>2, <1>3, <1>4, <1>5, <1>6, <1>7

LEMMA StepMonitor ==
  ASSUME PA!MonitorAssumption, PA!NilAssumption, PlatformInv, NEW m \in Monitor,
         PA!MonitorWakes(m) \/ PA!MonitorAcquire(m) \/ PA!MonitorReads(m) \/ PA!MonitorLoses(m)
         \/ PA!MonitorTells(m)
  PROVE  PlatformInv'
  <1>. USE DEF PlatformInv
  <1>1. ASSUME PA!MonitorWakes(m) PROVE PlatformInv'
    <2>1. PA!TypeOK'
      BY <1>1 DEF PA!MonitorWakes, PA!TypeOK, PA!looping, PA!monitors, PA!driver
    <2>2. Handles'
      BY <1>1 DEF PA!MonitorWakes, Handles, PA!looping, PA!monitors, PA!driver
    <2>3. MonitorsRun'
      BY <1>1 DEF PA!MonitorWakes, MonitorsRun, Resetting, Handles, PA!TypeOK, PA!looping,
         PA!monitors, PA!driver
    <2>4. DriverReady'
      BY <1>1 DEF PA!MonitorWakes, DriverReady, Operational, Handles, PA!looping, PA!monitors,
         PA!driver
    <2>5. QED
      BY <2>1, <2>2, <2>3, <2>4 DEF PlatformInv
  <1>2. ASSUME PA!MonitorAcquire(m) PROVE PlatformInv'
    <2>1. PA!TypeOK'
      BY <1>2 DEF PA!MonitorAcquire, PA!TypeOK, PA!looping, PA!monitors, PA!driver
    <2>2. Handles'
      BY <1>2 DEF PA!MonitorAcquire, Handles, PA!looping, PA!monitors, PA!driver
    <2>3. MonitorsRun'
      BY <1>2 DEF PA!MonitorAcquire, MonitorsRun, Resetting, Handles, PA!TypeOK, PA!looping,
         PA!monitors, PA!driver
    <2>4. DriverReady'
      BY <1>2 DEF PA!MonitorAcquire, DriverReady, Operational, Handles, PA!looping, PA!monitors,
         PA!driver
    <2>5. QED
      BY <2>1, <2>2, <2>3, <2>4 DEF PlatformInv
  <1>3. ASSUME PA!MonitorReads(m) PROVE PlatformInv'
    <2>1. PA!TypeOK'
      BY <1>3 DEF PA!MonitorReads, PA!TypeOK, PA!looping, PA!monitors, PA!driver
    <2>2. Handles'
      BY <1>3 DEF PA!MonitorReads, Handles, PA!looping, PA!monitors, PA!driver
    <2>3. MonitorsRun'
      BY <1>3 DEF PA!MonitorReads, MonitorsRun, Resetting, Handles, PA!TypeOK, PA!looping,
         PA!monitors, PA!driver
    <2>4. DriverReady'
      BY <1>3 DEF PA!MonitorReads, DriverReady, Operational, Handles, PA!looping, PA!monitors,
         PA!driver
    <2>5. QED
      BY <2>1, <2>2, <2>3, <2>4 DEF PlatformInv
  <1>4. ASSUME PA!MonitorLoses(m) PROVE PlatformInv'
    <2>1. PA!TypeOK'
      BY <1>4 DEF PA!MonitorLoses, PA!TypeOK, PA!looping, PA!monitors, PA!driver
    <2>2. Handles'
      BY <1>4 DEF PA!MonitorLoses, Handles, PA!looping, PA!monitors, PA!driver
    <2>3. MonitorsRun'
      BY <1>4 DEF PA!MonitorLoses, MonitorsRun, Resetting, Handles, PA!TypeOK, PA!looping,
         PA!monitors, PA!driver
    <2>4. DriverReady'
      BY <1>4 DEF PA!MonitorLoses, DriverReady, Operational, Handles, PA!looping, PA!monitors,
         PA!driver
    <2>5. QED
      BY <2>1, <2>2, <2>3, <2>4 DEF PlatformInv
  <1>5. ASSUME PA!MonitorTells(m) PROVE PlatformInv'
    <2>1. PA!TypeOK'
      BY <1>5, GotoLost DEF PA!MonitorTells, PA!Goto, PA!TypeOK, PA!looping, PA!monitors,
         PA!driver, PA!Handled
    <2>2. Handles'
      BY <1>5 DEF PA!MonitorTells, PA!Goto, Handles, PA!looping, PA!monitors, PA!driver
    <2>3. MonitorsRun'
      BY <1>5 DEF PA!MonitorTells, PA!Goto, MonitorsRun, Resetting, Handles, PA!TypeOK, PA!looping,
         PA!monitors, PA!driver, PA!Handled
    <2>4. DriverReady'
      BY <1>5 DEF PA!MonitorTells, PA!Goto, DriverReady, Operational, Handles, PA!looping,
         PA!monitors, PA!driver, PA!Handled
    <2>5. QED
      BY <2>1, <2>2, <2>3, <2>4 DEF PlatformInv
  <1>6. QED
    BY <1>1, <1>2, <1>3, <1>4, <1>5

LEMMA DisconnectKeeps ==
  ASSUME PA!MonitorAssumption, PA!NilAssumption, PlatformInv, NEW h \in PA!Handler,
         h.event \in {"RESET", "SHUTDOWN"},
         paState \in PA!Handled[h.event], h.tries < PA!MaxTries, PA!DisconnectOrDestroy(h),
         paPrm' = FALSE, \A m \in Monitor : ~paActive'[m],
         paActive' \in [Monitor -> BOOLEAN], UNCHANGED <<paMon, paLost, paOms>>
  PROVE  PlatformInv'
  <1>1. PA!TypeOK /\ (paState \in Operational => paDrv = "CONNECTED")
    BY DEF PlatformInv, DriverReady
  <1>2. CASE paDrv = "CONNECTED"
    <2>1. PA!Wait(h, "driver") /\ UNCHANGED <<paDrv, paDrvLock>> /\ paPrm' = FALSE
      BY <1>2 DEF PA!DisconnectOrDestroy, PA!driver
    <2>2. QED
      BY <1>1, <1>2, <2>1, HandlerWaits DEF PA!TypeOK
  <1>3. CASE paDrv # "CONNECTED"
    <2>1. /\ paHandler' = Nil /\ PA!Goto("UNINITIALIZED") /\ paDrv' = "none" /\ UNCHANGED paDrvLock
      BY <1>3 DEF PA!DisconnectOrDestroy, PA!Finish
    <2>2. paState' = "UNINITIALIZED" /\ paLoops' \in Nat /\ paReconnect' \in BOOLEAN
      BY <1>1, <2>1 DEF PA!Goto, PA!TypeOK
    <2>3. QED
      BY <1>1, <2>1, <2>2, HandlerConcludes DEF PA!TypeOK, PA!State, Operational
  <1>4. QED
    BY <1>2, <1>3

LEMMA ResetKeeps ==
  ASSUME PA!MonitorAssumption, PA!NilAssumption, PlatformInv, ~Resetting, NEW h \in PA!Handler,
         h.event \in {"RESET", "SHUTDOWN"},
         paState \in PA!Handled[h.event], h.tries < PA!MaxTries, PA!ResetThisPlatform(h),
         UNCHANGED <<paLost, paOms>>
  PROVE  PlatformInv'
  <1>1. /\ PA!TypeOK /\ (paPrm <=> paState = "MONITORING")
           /\ (\A m \in Monitor : paActive[m] => paPrm)
        /\ (paState \in Operational => paDrv = "CONNECTED")
        /\ UNCHANGED <<paPrm, paMon, paActive>>
    BY DEF PlatformInv, DriverReady, MonitorsRun, PA!ResetThisPlatform, PA!monitors
  <1>2. CASE paPrm
    <2>1. PA!Wait(h, "streams") /\ UNCHANGED <<paDrv, paDrvLock>>
      BY <1>2 DEF PA!ResetThisPlatform, PA!driver
    <2>2. QED
      BY <1>1, <1>2, <2>1, HandlerWaits DEF PA!TypeOK
  <1>3. CASE ~paPrm
    <2>1. PA!DisconnectOrDestroy(h)
      BY <1>3 DEF PA!ResetThisPlatform
    <2>2. QED
      BY <1>1, <1>3, <2>1, DisconnectKeeps DEF PA!TypeOK
  <1>4. QED
    BY <1>2, <1>3

(* The platform's own part of a command.                                   *)
LEMMA ThisPlatformKeeps ==
  ASSUME PA!MonitorAssumption, PA!NilAssumption, PlatformInv, ~Resetting, NEW h \in PA!Handler,
         h.event \notin {"INITIALIZE", "GO_ACTIVE", "RESOURCE"}, paState \in PA!Handled[h.event],
         h.tries < PA!MaxTries, PA!ThisPlatform(h),
         UNCHANGED <<paLost, paOms>>,
         h.event = "AUTORECONNECT" => paLost = "MONITORING" /\ paDrv = "CONNECTED"
  PROVE  PlatformInv'
  <1>1. /\ PA!TypeOK /\ (paPrm <=> paState = "MONITORING")
           /\ (\A m \in Monitor : paActive[m] => paPrm)
        /\ (paState \in Operational => paDrv = "CONNECTED")
    BY DEF PlatformInv, DriverReady, MonitorsRun
  <1>2. CASE h.event = "GO_INACTIVE"
    <2>1. PA!Wait(h, "driver") /\ UNCHANGED <<paDrv, paDrvLock, paPrm, paMon, paActive>>
      BY <1>2 DEF PA!ThisPlatform, PA!driver, PA!monitors
    <2>2. QED
      BY <1>1, <1>2, <2>1, HandlerWaits DEF PA!TypeOK
  <1>3. CASE h.event = "RESET"
    <2>1. PA!ResetThisPlatform(h)
      BY <1>3 DEF PA!ThisPlatform
    <2>2. QED
      BY <1>3, <2>1, ResetKeeps
  <1>4. CASE h.event = "SHUTDOWN"
    <2>1. PA!BringToUninitialized(h)
      BY <1>4 DEF PA!ThisPlatform
    <2>2. CASE paState = "UNINITIALIZED"
      <3>1. PA!Finish(h, "UNINITIALIZED") /\ UNCHANGED <<paDrv, paDrvLock, paPrm, paMon, paActive>>
        BY <2>1, <2>2 DEF PA!BringToUninitialized, PA!driver, PA!monitors
      <3>2. "UNINITIALIZED" \in PA!State /\ "UNINITIALIZED" \notin Operational
        BY DEF PA!State, Operational
      <3>3. paHandler' = Nil /\ paState' = "UNINITIALIZED" /\ paLoops' \in Nat
              /\ paReconnect' \in BOOLEAN
        BY <1>1, <3>1, <3>2, GotoTyped DEF PA!Finish, PA!Goto
      <3>4. QED
        BY <1>1, <2>2, <3>1, <3>2, <3>3, HandlerConcludes DEF PA!TypeOK
    <2>3. CASE paState = "STOPPED"
      <3>1. PA!Wait(h, "clear") /\ UNCHANGED <<paDrv, paDrvLock, paPrm, paMon, paActive>>
        BY <2>1, <2>3 DEF PA!BringToUninitialized, PA!driver, PA!monitors
      <3>2. QED
        BY <1>1, <1>4, <2>3, <3>1, HandlerWaits DEF PA!TypeOK
    <2>4. CASE paState \notin {"UNINITIALIZED", "STOPPED"}
      <3>1. PA!ResetThisPlatform(h)
        BY <2>1, <2>4 DEF PA!BringToUninitialized
      <3>2. QED
        BY <1>4, <3>1, ResetKeeps
    <2>5. QED
      BY <2>2, <2>3, <2>4
  <1>5. ASSUME NEW next \in {"COMMAND", "STOPPED", "IDLE", "MONITORING"}, PA!Finish(h, next),
               UNCHANGED <<paDrv, paDrvLock>>, paDrv = "CONNECTED",
               paPrm' \in BOOLEAN, paActive' \in [Monitor -> BOOLEAN],
               paPrm' <=> next = "MONITORING", \A m \in Monitor : paActive'[m] => paPrm',
               paMon' \in [Monitor -> {"none", "sleep", "driver", "call", "agent"}]
        PROVE  PlatformInv'
    <2>1. next \in PA!State
      BY DEF PA!State
    <2>2. paHandler' = Nil /\ paState' = next /\ paLoops' \in Nat /\ paReconnect' \in BOOLEAN
      BY <1>1, <1>5, <2>1, GotoTyped DEF PA!Finish, PA!Goto
    <2>3. QED
      BY <1>1, <1>5, <2>1, <2>2, HandlerConcludes DEF PA!TypeOK
  <1>6. CASE h.event = "START_MONITORING"
    <2>1. PA!Finish(h, "MONITORING") /\ PA!StartMonitors /\ UNCHANGED <<paDrv, paDrvLock>>
            /\ paState = "COMMAND"
      BY <1>6 DEF PA!ThisPlatform, PA!driver, PA!Handled
    <2>2. /\ paPrm' = TRUE /\ paActive' \in [Monitor -> BOOLEAN]
          /\ paMon' \in [Monitor -> {"none", "sleep", "driver", "call", "agent"}]
      BY <1>1, <2>1 DEF PA!StartMonitors, PA!TypeOK
    <2>3. QED
      BY <1>1, <1>5, <2>1, <2>2 DEF Operational
  <1>7. CASE h.event = "AUTORECONNECT"
    <2>1. PA!Finish(h, "MONITORING") /\ PA!StartMonitors /\ UNCHANGED <<paDrv, paDrvLock>>
      BY <1>7 DEF PA!ThisPlatform, PA!driver
    <2>2. /\ paPrm' = TRUE /\ paActive' \in [Monitor -> BOOLEAN]
          /\ paMon' \in [Monitor -> {"none", "sleep", "driver", "call", "agent"}]
      BY <1>1, <2>1 DEF PA!StartMonitors, PA!TypeOK
    <2>3. QED
      BY <1>5, <1>7, <2>1, <2>2
  <1>8. CASE h.event = "STOP_MONITORING"
    <2>1. /\ PA!Finish(h, "COMMAND") /\ UNCHANGED <<paDrv, paDrvLock>> /\ paState = "MONITORING"
          /\ IF paPrm THEN PA!StopMonitors ELSE UNCHANGED PA!monitors
      BY <1>8 DEF PA!ThisPlatform, PA!driver, PA!Handled
    <2>2. paPrm' = FALSE /\ paActive' = [m \in Monitor |-> FALSE] /\ paMon' = paMon
      BY <1>1, <2>1 DEF PA!StopMonitors
    <2>3. QED
      BY <1>1, <1>5, <2>1, <2>2 DEF Operational, PA!TypeOK
  <1>9. CASE h.event \in {"RUN", "PAUSE", "RESUME", "CLEAR"}
    <2>1. PA!Finish(h, PA!Target[h.event]) /\ UNCHANGED <<paDrv, paDrvLock, paPrm, paMon, paActive>>
      BY <1>9 DEF PA!ThisPlatform, PA!driver, PA!monitors
    <2>2. PA!Target[h.event] \in {"COMMAND", "STOPPED", "IDLE"}
            /\ paState \in {"IDLE", "COMMAND", "STOPPED"}
      BY <1>9 DEF PA!Target, PA!Handled
    <2>3. QED
      BY <1>1, <1>5, <2>1, <2>2 DEF Operational, PA!TypeOK
  <1>10. QED
    BY <1>2, <1>3, <1>4, <1>6, <1>7, <1>8, <1>9, Handlers DEF PA!Handler, PlatformEvent

LEMMA StepRequest ==
  ASSUME PA!MonitorAssumption, PA!NilAssumption, PlatformInv,
         NEW e \in PA!Command \cup {"RESOURCE"}, NEW rec \in BOOLEAN, PA!Request(e, rec)
  PROVE  PlatformInv'
  <1>. DEFINE h == [event |-> e, rec |-> rec, tries |-> 0, leg |-> "children"]
  <1>1. /\ PA!TypeOK /\ paHandler = Nil /\ ~Resetting /\ paState \in PA!Handled[e]
           /\ UNCHANGED <<paLost, paOms>>
        /\ (paPrm <=> paState = "MONITORING") /\ (\A m \in Monitor : paActive[m] => paPrm)
        /\ (paState \in Operational => paDrv = "CONNECTED")
    BY DEF PA!Request, PlatformInv, MonitorsRun, DriverReady, Resetting
  <1>2. h \in PA!Handler /\ h.event = e /\ h.tries < PA!MaxTries /\ h.rec = rec
          /\ h.leg = "children"
    BY DEF PA!Handler, PA!MaxTries
  <1>3. CASE e = "INITIALIZE"
    <2>1. /\ paDrv' = "DISCONNECTED" /\ UNCHANGED <<paDrvLock, paPrm, paMon, paActive>>
             /\ paState = "UNINITIALIZED"
          /\ PA!Wait(h, "children") \/ PA!Finish(h, "INACTIVE")
      BY <1>1, <1>3 DEF PA!Request, PA!monitors, PA!Handled
    <2>2. CASE PA!Wait(h, "children")
      <3>. HIDE DEF h
      <3>1. QED
        BY <1>1, <1>2, <1>3, <2>1, <2>2, HandlerWaits DEF PA!TypeOK, Operational
    <2>3. CASE PA!Finish(h, "INACTIVE")
      <3>1. "INACTIVE" \in PA!State /\ "INACTIVE" \notin Operational
        BY DEF PA!State, Operational
      <3>2. paHandler' = Nil /\ paState' = "INACTIVE" /\ paLoops' \in Nat
              /\ paReconnect' \in BOOLEAN
        BY <1>1, <2>3, <3>1, GotoTyped DEF PA!Finish, PA!Goto
      <3>3. QED
        BY <1>1, <2>1, <3>1, <3>2, HandlerConcludes DEF PA!TypeOK
    <2>4. QED
      BY <2>1, <2>2, <2>3
  <1>4. CASE e \in {"GO_ACTIVE", "RESOURCE"}
    <2>1. PA!Wait(h, "driver") /\ UNCHANGED <<paDrv, paDrvLock, paPrm, paMon, paActive>>
      BY <1>1, <1>4 DEF PA!Request, PA!driver, PA!monitors
    <2>. HIDE DEF h
    <2>2. QED
      BY <1>1, <1>2, <1>4, <2>1, HandlerWaits DEF PA!TypeOK
  <1>5. CASE e \notin {"INITIALIZE", "GO_ACTIVE", "RESOURCE"}
    <2>1. CASE rec
      <3>1. PA!Wait(h, "children") /\ UNCHANGED <<paDrv, paDrvLock, paPrm, paMon, paActive>>
        BY <1>1, <1>5, <2>1 DEF PA!Request, PA!driver, PA!monitors
      <3>2. e # "AUTORECONNECT"
        BY DEF PA!Command, PA!Target
      <3>. HIDE DEF h
      <3>3. QED
        BY <1>1, <1>2, <1>5, <3>1, <3>2, HandlerWaits DEF PA!TypeOK
    <2>2. CASE ~rec
      <3>1. PA!ThisPlatform(h) /\ e # "AUTORECONNECT"
        BY <1>1, <1>5, <2>2 DEF PA!Request, PA!Command, PA!Target
      <3>. HIDE DEF h
      <3>2. QED
        BY <1>1, <1>2, <1>5, <3>1, ThisPlatformKeeps
    <2>3. QED
      BY <2>1, <2>2
  <1>6. QED
    BY <1>3, <1>4, <1>5

LEMMA StepChildren ==
  ASSUME PA!MonitorAssumption, PA!NilAssumption, PlatformInv, NEW o \in {"ok", "errors", "raise"},
         PA!ChildrenReply(o)
  PROVE  PlatformInv'
  <1>1. /\ PA!TypeOK /\ paHandler # Nil /\ paHandler \in PA!Handler /\ paHandler.leg = "children"
           /\ ~Resetting
        /\ paState \in PA!Handled[paHandler.event] /\ paHandler.tries < PA!MaxTries
             /\ UNCHANGED <<paLost, paOms>>
        /\ (paPrm <=> paState = "MONITORING") /\ (\A m \in Monitor : paActive[m] => paPrm)
        /\ (paState \in Operational => paDrv = "CONNECTED")
        /\ paHandler.event \in {"GO_ACTIVE", "AUTORECONNECT"} => paDrv = "CONNECTED"
        /\ paHandler.event = "AUTORECONNECT" => paLost = "MONITORING"
        /\ paHandler.event # "RESOURCE"
    BY DEF PA!ChildrenReply, PlatformInv, MonitorsRun, DriverReady, Handles, Resetting, PA!TypeOK
  <1>2. CASE paHandler.event \in PA!TopDown
    <2>1. PA!Finish(paHandler, PA!Target[paHandler.event])
            /\ UNCHANGED <<paDrv, paDrvLock, paPrm, paMon, paActive>>
      BY <1>2 DEF PA!ChildrenReply, PA!driver, PA!monitors, PA!TopDown, PA!BottomUp
    <2>2. /\ PA!Target[paHandler.event] \in PA!State \ {"MONITORING"} /\ paState # "MONITORING"
          /\ PA!Target[paHandler.event] \in Operational => paDrv = "CONNECTED"
      BY <1>1, <1>2 DEF PA!TopDown, PA!Target, PA!Handled, PA!State, Operational
    <2>3. paHandler' = Nil /\ paState' = PA!Target[paHandler.event] /\ paLoops' \in Nat
            /\ paReconnect' \in BOOLEAN
      BY <1>1, <2>1, <2>2, GotoTyped DEF PA!Finish, PA!Goto
    <2>4. QED
      BY <1>1, <2>1, <2>2, <2>3, HandlerConcludes DEF PA!TypeOK
  <1>3. CASE /\ paHandler.event \notin PA!TopDown
             /\ PA!Abort /\ UNCHANGED <<PA!driver, PA!monitors>>
    <2>1. paHandler' = Nil
            /\ UNCHANGED <<paState, paLoops, paReconnect, paDrv, paDrvLock, paPrm, paMon, paActive>>
      BY <1>3 DEF PA!Abort, PA!driver, PA!monitors, PA!looping
    <2>2. QED
      BY <1>1, <2>1, HandlerConcludes DEF PA!TypeOK
  <1>4. CASE paHandler.event \notin PA!TopDown /\ PA!ThisPlatform(paHandler)
    <2>1. paHandler.event \notin {"INITIALIZE", "GO_ACTIVE", "RESOURCE"}
      BY <1>1, <1>4 DEF PA!TopDown
    <2>2. QED
      BY <1>1, <1>4, <2>1, ThisPlatformKeeps
  <1>5. QED
    BY <1>2, <1>3, <1>4 DEF PA!ChildrenReply

LEMMA StepStreams ==
  ASSUME PA!MonitorAssumption, PA!NilAssumption, PlatformInv, NEW o \in {"ok", "errors", "raise"},
         PA!StreamsReply(o)
  PROVE  PlatformInv'
  <1>1. /\ PA!TypeOK /\ paHandler # Nil /\ paHandler \in PA!Handler /\ paHandler.leg = "streams"
           /\ ~Resetting
        /\ paState \in PA!Handled[paHandler.event] /\ paHandler.tries < PA!MaxTries
             /\ UNCHANGED <<paLost, paOms>>
        /\ (paPrm <=> paState = "MONITORING") /\ (\A m \in Monitor : paActive[m] => paPrm)
        /\ (paState \in Operational => paDrv = "CONNECTED")
        /\ paHandler.event \in {"RESET", "SHUTDOWN"}
    BY DEF PA!StreamsReply, PlatformInv, MonitorsRun, DriverReady, Handles, Resetting, PA!TypeOK
  <1>2. CASE PA!Abort /\ UNCHANGED <<PA!driver, PA!monitors>>
    <2>1. paHandler' = Nil
            /\ UNCHANGED <<paState, paLoops, paReconnect, paDrv, paDrvLock, paPrm, paMon, paActive>>
      BY <1>2 DEF PA!Abort, PA!driver, PA!monitors, PA!looping
    <2>2. QED
      BY <1>1, <2>1, HandlerConcludes DEF PA!TypeOK
  <1>3. CASE PA!StopMonitors /\ PA!DisconnectOrDestroy(paHandler)
    <2>1. paPrm' = FALSE /\ paActive' \in [Monitor -> BOOLEAN]
            /\ (\A m \in Monitor : ~paActive'[m]) /\ UNCHANGED paMon
      BY <1>3 DEF PA!StopMonitors
    <2>2. QED
      BY <1>1, <1>3, <2>1, DisconnectKeeps
  <1>4. QED
    BY <1>2, <1>3 DEF PA!StreamsReply

LEMMA StepClear ==
  ASSUME PA!MonitorAssumption, PA!NilAssumption, PlatformInv, NEW o \in {"ok", "errors", "raise"},
         PA!ClearReply(o)
  PROVE  PlatformInv'
  <1>. DEFINE h == [paHandler EXCEPT !.tries = @ + 1]
  <1>1. /\ PA!TypeOK /\ paHandler # Nil /\ paHandler \in PA!Handler /\ paHandler.leg = "clear"
           /\ ~Resetting
        /\ paState = "STOPPED" /\ paState \in PA!Handled[paHandler.event]
             /\ paHandler.tries < PA!MaxTries /\ UNCHANGED <<paLost, paOms>>
        /\ (paPrm <=> paState = "MONITORING") /\ (\A m \in Monitor : paActive[m] => paPrm)
        /\ (paState \in Operational => paDrv = "CONNECTED")
        /\ paHandler.event = "SHUTDOWN"
    BY DEF PA!ClearReply, PlatformInv, MonitorsRun, DriverReady, Handles, Resetting, PA!TypeOK
  <1>2. h \in PA!Handler /\ h.event = "SHUTDOWN" /\ h.leg = "clear" /\ h.tries <= PA!MaxTries
    BY <1>1 DEF PA!Handler, PA!MaxTries
  <1>3. CASE PA!Abort /\ UNCHANGED <<PA!driver, PA!monitors>>
    <2>1. paHandler' = Nil
            /\ UNCHANGED <<paState, paLoops, paReconnect, paDrv, paDrvLock, paPrm, paMon, paActive>>
      BY <1>3 DEF PA!Abort, PA!driver, PA!monitors, PA!looping
    <2>2. QED
      BY <1>1, <2>1, HandlerConcludes DEF PA!TypeOK
  <1>4. CASE PA!Finish(h, "UNINITIALIZED") /\ UNCHANGED <<PA!driver, PA!monitors>>
    <2>1. "UNINITIALIZED" \in PA!State /\ "UNINITIALIZED" \notin Operational
      BY DEF PA!State, Operational
    <2>2. paHandler' = Nil /\ paState' = "UNINITIALIZED" /\ paLoops' \in Nat
            /\ paReconnect' \in BOOLEAN
      BY <1>1, <1>4, <2>1, GotoTyped DEF PA!Finish, PA!Goto
    <2>3. UNCHANGED <<paDrv, paDrvLock, paPrm, paMon, paActive>>
      BY <1>4 DEF PA!driver, PA!monitors
    <2>4. QED
      BY <1>1, <2>1, <2>2, <2>3, HandlerConcludes DEF PA!TypeOK
  <1>5. CASE h.tries < PA!MaxTries /\ PA!ResetThisPlatform(h)
    <2>. HIDE DEF h
    <2>1. QED
      BY <1>1, <1>2, <1>5, ResetKeeps
  <1>6. CASE h.tries < PA!MaxTries /\ PA!Wait(h, "clear") /\ UNCHANGED <<PA!driver, PA!monitors>>
    <2>1. UNCHANGED <<paDrv, paDrvLock, paPrm, paMon, paActive>>
      BY <1>6 DEF PA!driver, PA!monitors
    <2>. HIDE DEF h
    <2>2. QED
      BY <1>1, <1>2, <1>6, <2>1, HandlerWaits DEF PA!TypeOK
  <1>7. h.tries < PA!MaxTries \/ h.tries = PA!MaxTries
    BY <1>2 DEF PA!Handler, PA!MaxTries
  <1>8. \/ PA!Abort /\ UNCHANGED <<PA!driver, PA!monitors>>
        \/ PA!Finish(h, "UNINITIALIZED") /\ UNCHANGED <<PA!driver, PA!monitors>>
        \/ h.tries < PA!MaxTries /\ PA!ResetThisPlatform(h)
        \/ h.tries < PA!MaxTries /\ PA!Wait(h, "clear") /\ UNCHANGED <<PA!driver, PA!monitors>>
    <2>. HIDE DEF h
    <2>1. CASE o = "raise"
      BY <2>1 DEF PA!ClearReply
    <2>2. CASE o # "raise" /\ h.tries = PA!MaxTries
      BY <2>2 DEF PA!ClearReply, h, PA!MaxTries
    <2>3. CASE o = "ok" /\ h.tries < PA!MaxTries
      BY <2>3 DEF PA!ClearReply, h
    <2>4. CASE o = "errors" /\ h.tries < PA!MaxTries
      BY <2>4 DEF PA!ClearReply, h
    <2>5. QED
      BY <1>7, <2>1, <2>2, <2>3, <2>4
  <1>9. QED
    BY <1>3, <1>4, <1>5, <1>6, <1>8

LEMMA StepDriver ==
  ASSUME PA!MonitorAssumption, PA!NilAssumption, PlatformInv,
         PA!DriverAcquire \/ PA!DriverRaises \/ PA!Connected \/ PA!Disconnected \/ PA!ResourceDone
         \/ PA!ResourceLoses
  PROVE  PlatformInv'
  <1>1. /\ PA!TypeOK /\ paHandler # Nil /\ paHandler \in PA!Handler
           /\ paHandler.leg \in {"driver", "call"}
        /\ paState \in PA!Handled[paHandler.event] /\ paHandler.tries < PA!MaxTries
        /\ IF paHandler.event \in {"RESET",
                                   "SHUTDOWN"} THEN ~paPrm ELSE paPrm <=> paState = "MONITORING"
        /\ (\A m \in Monitor : paActive[m] => paPrm)
        /\ (paState \in Operational => paDrv = "CONNECTED")
        /\ paHandler.event \in {"GO_ACTIVE", "GO_INACTIVE", "RESET", "SHUTDOWN", "RESOURCE",
                                "AUTORECONNECT"}
    BY DEF PA!DriverAcquire, PA!DriverRaises, PA!Connected, PA!Disconnected, PA!ResourceDone,
           PA!ResourceLoses, PA!InCall,
           PlatformInv, MonitorsRun, DriverReady, Handles, Resetting, PA!TypeOK
  <1>2. CASE PA!DriverAcquire
    <2>1. paDrvLock' = "handler" /\ PA!Wait(paHandler, "call")
            /\ UNCHANGED <<paLost, paDrv, paPrm, paMon, paActive, paOms>>
      BY <1>2 DEF PA!DriverAcquire, PA!monitors
    <2>2. QED
      BY <1>1, <2>1, HandlerWaits DEF PA!TypeOK
  <1>3. CASE PA!DriverRaises \/ PA!ResourceDone
    <2>1. /\ paHandler' = Nil
             /\ UNCHANGED <<paLost, paOms, paState, paLoops, paReconnect, paDrv, paPrm, paMon,
                            paActive>> /\ paDrvLock' = Nil
          /\ paHandler.event \notin {"RESET", "SHUTDOWN"}
      BY <1>1, <1>3 DEF PA!DriverRaises, PA!ResourceDone, PA!InCall, PA!Abort, PA!monitors,
         PA!looping
    <2>2. QED
      BY <1>1, <2>1, HandlerConcludes DEF PA!TypeOK
  <1>4. CASE PA!Connected
    <2>1. /\ paDrv' = "CONNECTED" /\ paDrvLock' = Nil
             /\ UNCHANGED <<paLost, paOms, paPrm, paMon, paActive>>
          /\ paHandler.event \in {"GO_ACTIVE", "AUTORECONNECT"} /\ ~paPrm
      BY <1>1, <1>4 DEF PA!Connected, PA!InCall, PA!monitors, PA!Handled
    <2>2. CASE PA!Wait(paHandler, "children")
            /\ (paHandler.event = "AUTORECONNECT" => paLost = "MONITORING")
      BY <1>1, <2>1, <2>2, HandlerWaits DEF PA!TypeOK
    <2>3. ASSUME NEW next \in PA!State \ {"MONITORING"}, PA!Finish(paHandler, next)
                 PROVE PlatformInv'
      <3>1. paHandler' = Nil /\ paState' = next /\ paLoops' \in Nat /\ paReconnect' \in BOOLEAN
        BY <1>1, <2>3, GotoTyped DEF PA!Finish, PA!Goto
      <3>2. QED
        BY <1>1, <2>1, <2>3, <3>1, HandlerConcludes DEF PA!TypeOK
    <2>4. \/ PA!Wait(paHandler, "children")
             /\ (paHandler.event = "AUTORECONNECT" => paLost = "MONITORING")
          \/ PA!Finish(paHandler, "IDLE")
          \/ paLost # "MONITORING" /\ PA!Finish(paHandler, paLost)
      BY <1>4, <2>1 DEF PA!Connected
    <2>5. QED
      BY <1>1, <2>2, <2>3, <2>4 DEF PA!TypeOK, PA!State
  <1>5. CASE PA!Disconnected
    <2>1. /\ paDrv' \in {"DISCONNECTED", "none"} /\ paDrvLock' = Nil
             /\ UNCHANGED <<paLost, paOms, paPrm, paMon, paActive>>
          /\ paHandler.event \in {"GO_INACTIVE", "RESET", "SHUTDOWN"}
               /\ PA!Finish(paHandler, PA!Target[paHandler.event])
      BY <1>5 DEF PA!Disconnected, PA!InCall, PA!monitors
    <2>2. PA!Target[paHandler.event] \in PA!State \ Operational
            /\ PA!Target[paHandler.event] # "MONITORING" /\ ~paPrm
      BY <1>1, <2>1 DEF PA!Target, PA!State, Operational, PA!Handled
    <2>3. paHandler' = Nil /\ paState' = PA!Target[paHandler.event] /\ paLoops' \in Nat
            /\ paReconnect' \in BOOLEAN
      BY <1>1, <2>1, <2>2, GotoTyped DEF PA!Finish, PA!Goto
    <2>4. QED
      BY <1>1, <2>1, <2>2, <2>3, HandlerConcludes DEF PA!TypeOK
  <1>6. CASE PA!ResourceLoses
    <2>1. /\ paDrv' = "DISCONNECTED" /\ paDrvLock' = Nil /\ paHandler' = Nil /\ UNCHANGED paOms
          /\ PA!LoseConnection /\ paHandler.event = "RESOURCE"
      BY <1>6 DEF PA!ResourceLoses, PA!InCall
    <2>2. CASE paState \in PA!Handled.LOST_CONNECTION
      <3>1. paLost' = paState /\ PA!Goto("LOST_CONNECTION")
              /\ IF paPrm THEN PA!StopMonitors ELSE UNCHANGED <<paPrm, paMon, paActive>>
        BY <2>1, <2>2 DEF PA!LoseConnection, PA!monitors
      <3>2. paPrm' = FALSE /\ paActive' \in [Monitor -> BOOLEAN]
              /\ (\A m \in Monitor : ~paActive'[m]) /\ UNCHANGED paMon
        BY <1>1, <3>1 DEF PA!StopMonitors, PA!TypeOK
      <3>3. paState' = "LOST_CONNECTION" /\ paState' \in PA!State /\ paLoops' \in Nat
              /\ paReconnect' \in BOOLEAN
            /\ "LOST_CONNECTION" \notin Operational
        BY <1>1, <3>1, GotoLost DEF Operational
      <3>4. QED
        BY <1>1, <2>1, <3>1, <3>2, <3>3, HandlerConcludes DEF PA!TypeOK
    <2>3. CASE paState \notin PA!Handled.LOST_CONNECTION
      <3>1. UNCHANGED <<paState, paLost, paPrm, paMon, paActive, paLoops, paReconnect>>
        BY <2>1, <2>3 DEF PA!LoseConnection, PA!monitors, PA!looping
      <3>2. paState \notin Operational
        BY <2>3 DEF PA!Handled, Operational
      <3>3. QED
        BY <1>1, <2>1, <3>1, <3>2, HandlerConcludes DEF PA!TypeOK
    <2>4. QED
      BY <2>2, <2>3
  <1>7. QED
    BY <1>2, <1>3, <1>4, <1>5, <1>6

LEMMA StepPlatform ==
  ASSUME PA!MonitorAssumption, PA!NilAssumption, PlatformInv, [PA!Next]_(PA!vars)
  PROVE  PlatformInv'
  <1>1. CASE UNCHANGED PA!vars
    BY <1>1 DEF PA!vars, PA!driver, PA!monitors, PA!looping, PlatformInv, PA!TypeOK, Handles,
       MonitorsRun, DriverReady, Resetting
  <1>2. CASE PA!Next
    BY <1>2, StepFree, StepMonitor, StepRequest, StepChildren, StepStreams, StepClear, StepDriver
       DEF PA!Next
  <1>3. QED
    BY <1>1, <1>2

LEMMA PlatformInvariant == PA!Spec => []PlatformInv
  <1>1. PlatformInv /\ [PA!Next]_(PA!vars) => PlatformInv'
    BY SuiteAssumption, StepPlatform
  <1>2. QED
    BY InitPlatform, <1>1, PTL DEF PA!Spec

(* The platform agent's state, driver, locks, monitors and reconnect loops *)
(* are always of their kind (platform_agent.py, platform_driver.py).       *)
THEOREM PlatformTypeCorrect == PA!Spec => []PA!TypeOK
  BY PlatformInvariant, PTL DEF PlatformInv

(* Between commands a platform has resource monitors exactly while it is   *)
(* MONITORING, and only the current monitors are active: start and stop,   *)
(* reset, shutdown, lost connections and reconnections agree on it, for    *)
(* any number of monitor greenlets and of reconnect loops.                 *)
THEOREM MonitoringMatchesState == PA!Spec => []MonitorsMatchState
  <1>1. PlatformInv => MonitorsMatchState
    BY DEF PlatformInv, MonitorsRun, Resetting, MonitorsMatchState, PA!MonitorsMatchState
  <1>2. QED
    BY PlatformInvariant, <1>1, PTL

(* An operational platform has a connected driver, whatever monitors and   *)
(* commands found out about the connection, in which order, and however    *)
(* the commands on the way failed.                                         *)
THEOREM OperationalIsConnected == PA!Spec => []PlatformDriverMatchesState
  <1>1. PlatformInv => PlatformDriverMatchesState
    BY DEF PlatformInv, DriverReady, Operational, PlatformDriverMatchesState, PA!DriverMatchesState
  <1>2. QED
    BY PlatformInvariant, <1>1, PTL

-----------------------------------------------------------------------------
(* The ingestion of a data stream                                          *)

(* What a thread that has appended its granule counts on, and a request    *)
(* with its subscriptions.                                                 *)
InRows(g, r) == \E i \in DOMAIN r : r[i] = g
Threads == \A l \in Listening :
  /\ igThread[l].pc \notin {"new", "dead"} => igThread[l].worker \in Ingester
  /\ IG!Busy(igThread[l]) => igThread[l].granule \in IG!Granule
  /\ igThread[l].pc \in {"read", "write", "publish"} => InRows(igThread[l].granule, igRows)
Persisting == {"subscribe", "associate", "dataset", "create", "schedule", "mark"}
Requests ==
  /\ igRequest.step \in Persisting \/ igRunning # {} => ~igStopped
  /\ igRequest.step = "associate" => igSubs.loose > 0
  /\ igRequest.step = "schedule" => igRequest.worker \in Ingester
  /\ igRequest.step \in {"dataset", "create", "schedule", "mark"} \/ igRunning # {}
       => igSubs.mine > 0
  /\ igRequest.step \in {"unmark", "kill", "deactivate", "forget", "unlink"}
       => igRequest.found = igSubs.mine
  /\ igRequest.step \in {"kill", "deactivate", "forget"} => igRequest.found > 0
  /\ igRequest.step \in {"deactivate", "forget", "unlink"} => igRunning = {}
IngestionInv == IG!TypeOK /\ IG!Ingested /\ Threads /\ Requests

LEMMA IngestionCardinality == \A S : IG!Cardinality(S) = Cardinality(S)
  <1>1. \A S : IG!IsFiniteSet(S) = IsFiniteSet(S)
    BY DEF IG!IsFiniteSet, IsFiniteSet
  <1>2. QED
    BY <1>1 DEF IG!Cardinality, Cardinality

LEMMA GivenType ==
  ASSUME IG!IngestionAssumption, IngestionInv, NEW L \in SUBSET Listening
  PROVE  IG!Given(L) \in Seq(IG!Granule)
  <1>. DEFINE G == {igThread[l].granule : l \in {m \in L : igThread[m].open /\ IG!Busy(igThread[m])}}
              n == Cardinality(G)
  <1>1. G \subseteq IG!Granule
    BY DEF IngestionInv, Threads
  <1>2. IsFiniteSet(IG!Granule) /\ IG!Granule \subseteq Nat /\ MaxGranules \in Nat
    BY FS_Interval DEF IG!Granule, IG!IngestionAssumption
  <1>3. G \in SUBSET Nat /\ IsFiniteSet(G) /\ n \in Nat
    <2>. HIDE DEF G
    <2>1. QED
      BY <1>1, <1>2, FS_Subset, FS_CardinalityType
  <1>4. IG!InOrder(G) \in [1..n -> G]
    <2>. HIDE DEF G
    <2>1. \E r \in [1..n -> G] : \A i, j \in DOMAIN r : i < j => r[i] < r[j]
      BY <1>3, SetsCanBeOrdered DEF Ordered, Increasing
    <2>2. QED
      BY <2>1, IngestionCardinality DEF IG!InOrder
  <1>5. IG!InOrder(G) \in Seq(IG!Granule)
    <2>. HIDE DEF G, n
    <2>1. IG!InOrder(G) \in [1..n -> IG!Granule]
      BY <1>1, <1>4
    <2>2. QED
      BY <1>3, <2>1, IsASeq
  <1>6. igQueue \in Seq(IG!Granule)
    BY DEF IngestionInv, IG!TypeOK
  <1>7. QED
    BY <1>5, <1>6, ConcatProperties DEF IG!Given

LEMMA RowsGrow ==
  ASSUME IG!IngestionAssumption, IngestionInv,
         \/ UNCHANGED igRows
         \/ \E x \in IG!Granule \cup {IG!Fill} : igRows' = Append(igRows, x)
  PROVE  /\ igRows' \in Seq(IG!Granule \cup {IG!Fill})
         /\ \A g : InRows(g, igRows) => InRows(g, igRows')
  <1>1. igRows \in Seq(IG!Granule \cup {IG!Fill})
    BY DEF IngestionInv, IG!TypeOK
  <1>2. CASE UNCHANGED igRows
    BY <1>1, <1>2 DEF InRows
  <1>3. CASE \E x \in IG!Granule \cup {IG!Fill} : igRows' = Append(igRows, x)
    <2>1. PICK x \in IG!Granule \cup {IG!Fill} : igRows' = Append(igRows, x)
      BY <1>3
    <2>2. /\ igRows' \in Seq(IG!Granule \cup {IG!Fill})
          /\ \A i \in DOMAIN igRows : i \in DOMAIN igRows' /\ igRows'[i] = igRows[i]
      BY <1>1, <2>1, AppendProperties, LenProperties
    <2>3. QED
      BY <2>2 DEF InRows
  <1>4. QED
    BY <1>2, <1>3

LEMMA ThreadGoesOn ==
  ASSUME IngestionInv, NEW l \in Listening, NEW t \in IG!Listener,
         igThread' = [igThread EXCEPT ![l] = t],
         t.pc \notin {"new", "dead"} => t.worker \in Ingester,
         IG!Busy(t) => t.granule \in IG!Granule, t.pc \in {"read", "write", "publish"}
         => InRows(t.granule, igRows'),
         \A g : InRows(g, igRows) => InRows(g, igRows')
  PROVE  igThread' \in [Listening -> IG!Listener] /\ Threads'
  <1>1. igThread \in [Listening -> IG!Listener] /\ Threads
    BY DEF IngestionInv, IG!TypeOK
  <1>2. \A m \in Listening : igThread'[m] = IF m = l THEN t ELSE igThread[m]
    BY <1>1
  <1>3. ASSUME NEW m \in Listening
        PROVE  /\ igThread'[m].pc \notin {"new", "dead"} => igThread'[m].worker \in Ingester
               /\ IG!Busy(igThread'[m]) => igThread'[m].granule \in IG!Granule
               /\ igThread'[m].pc \in {"read", "write", "publish"}
                    => InRows(igThread'[m].granule, igRows')
    <2>1. CASE m = l
      BY <1>2, <2>1
    <2>2. CASE m # l
      BY <1>1, <1>2, <2>2 DEF Threads
    <2>3. QED
      BY <2>1, <2>2
  <1>4. Threads'
    BY <1>3 DEF Threads, IG!Busy
  <1>5. QED
    BY <1>1, <1>4

(* What a step of a listener thread leaves.                                *)
ThreadStepped ==
  /\ igThread' \in [Listening -> IG!Listener] /\ Threads'
  /\ igSettled' \subseteq IG!Granule /\ igExcused' \subseteq IG!Granule /\ igStopped' = igStopped
  /\ IG!Ingested'

LEMMA Finished ==
  ASSUME IngestionInv, NEW l \in Listening, NEW G \in SUBSET IG!Granule, IG!Busy(igThread[l]),
         IG!Finish(l, G),
         igThread[l].granule \in G \/ InRows(igThread[l].granule, igRows),
         \A g : InRows(g, igRows) => InRows(g, igRows')
  PROVE  ThreadStepped
  <1>1. /\ igThread \in [Listening -> IG!Listener] /\ igThread[l] \in IG!Listener
           /\ igThread[l].granule \in IG!Granule /\ igThread[l].worker \in Ingester
        /\ igSettled \subseteq IG!Granule /\ igExcused \subseteq IG!Granule
    BY DEF IngestionInv, IG!TypeOK, Threads, IG!Busy
  <1>2. /\ igSettled' \subseteq igSettled \cup {igThread[l].granule}
           /\ igExcused' = igExcused \cup G
        /\ igStopped' = igStopped
    BY DEF IG!Finish
  <1>3. PICK t \in IG!Listener : igThread' = [igThread EXCEPT ![l] = t] /\ t.pc \in {"idle", "dead"}
           /\ (t.pc = "idle" => t.worker \in Ingester)
    <2>1. /\ [IG!New EXCEPT !.worker = igThread[l].worker, !.open = TRUE,
              !.pc = "idle"] \in IG!Listener
          /\ [IG!New EXCEPT !.worker = igThread[l].worker, !.open = TRUE, !.pc = "idle"].pc = "idle"
          /\ [IG!New EXCEPT !.worker = igThread[l].worker, !.open = TRUE,
              !.pc = "idle"].worker = igThread[l].worker
          /\ [IG!New EXCEPT !.pc = "dead"] \in IG!Listener
               /\ [IG!New EXCEPT !.pc = "dead"].pc = "dead"
      BY <1>1 DEF IG!New, IG!Listener
    <2>2. CASE igThread[l].open
      BY <1>1, <2>1, <2>2 DEF IG!Finish
    <2>3. CASE ~igThread[l].open
      BY <1>1, <2>1, <2>3 DEF IG!Finish
    <2>4. QED
      BY <2>2, <2>3
  <1>4. igThread' \in [Listening -> IG!Listener] /\ Threads'
    BY <1>3, ThreadGoesOn DEF IG!Busy
  <1>5. ASSUME NEW g \in igSettled' PROVE g \in igExcused' \/ InRows(g, igRows')
    BY <1>2 DEF IngestionInv, IG!Ingested, InRows
  <1>6. IG!Ingested'
    BY <1>5 DEF IG!Ingested, InRows
  <1>7. QED
    BY <1>1, <1>2, <1>4, <1>6 DEF ThreadStepped

LEMMA WentOn ==
  ASSUME IngestionInv, NEW l \in Listening, NEW t \in IG!Listener,
         igThread' = [igThread EXCEPT ![l] = t],
         t.granule \in IG!Granule, t.worker \in Ingester, t.pc \in {"read", "write", "publish"}
         => InRows(t.granule, igRows'),
         \A g : InRows(g, igRows) => InRows(g, igRows'), UNCHANGED IG!history
  PROVE  ThreadStepped
  <1>1. igThread' \in [Listening -> IG!Listener] /\ Threads'
    BY ThreadGoesOn
  <1>2. /\ igSettled' \subseteq IG!Granule /\ igExcused' \subseteq IG!Granule
           /\ igStopped' = igStopped
        /\ igSettled' = igSettled /\ igExcused' = igExcused
    BY DEF IngestionInv, IG!TypeOK, IG!history
  <1>3. IG!Ingested'
    BY <1>2 DEF IngestionInv, IG!Ingested, InRows
  <1>4. QED
    BY <1>1, <1>2, <1>3 DEF ThreadStepped

LEMMA Retried ==
  ASSUME IG!IngestionAssumption, IngestionInv, NEW l \in Listening, IG!Busy(igThread[l]),
         IG!Retry(l), \A g : InRows(g, igRows) => InRows(g, igRows')
  PROVE  ThreadStepped
  <1>1. /\ igThread \in [Listening -> IG!Listener] /\ igThread[l] \in IG!Listener
        /\ igThread[l].granule \in IG!Granule /\ igThread[l].worker \in Ingester
    BY DEF IngestionInv, IG!TypeOK, Threads, IG!Busy
  <1>2. CASE igThread[l].tries = MaxRetries
    <2>1. IG!Finish(l, {igThread[l].granule})
      BY <1>2 DEF IG!Retry
    <2>2. QED
      BY <1>1, <2>1, Finished
  <1>3. CASE igThread[l].tries # MaxRetries
    <2>. DEFINE t == [igThread[l] EXCEPT !.pc = "sleep", !.tries = igThread[l].tries + 1,
                      !.stale = FALSE]
    <2>1. igThread' = [igThread EXCEPT ![l] = t] /\ UNCHANGED IG!history
      BY <1>1, <1>3 DEF IG!Retry
    <2>2. igThread[l].tries + 1 \in Nat
      BY <1>1 DEF IG!Listener
    <2>3. t \in IG!Listener /\ t.granule = igThread[l].granule /\ t.worker = igThread[l].worker
            /\ t.pc = "sleep"
      BY <1>1, <2>2 DEF IG!Listener
    <2>. HIDE DEF t
    <2>4. QED
      BY <1>1, <2>1, <2>3, WentOn
  <1>4. QED
    BY <1>2, <1>3

LEMMA Raised ==
  ASSUME IG!IngestionAssumption, IngestionInv, NEW l \in Listening, IG!Busy(igThread[l]),
         IG!Raise(l), \A g : InRows(g, igRows) => InRows(g, igRows')
  PROVE  ThreadStepped /\ igFailures' \in 0..MaxRaised /\ igCrashes' = igCrashes
  <1>1. igFailures' \in 0..MaxRaised /\ igCrashes' = igCrashes /\ IG!Retry(l)
    BY DEF IG!Raise, IngestionInv, IG!TypeOK, IG!IngestionAssumption
  <1>2. QED
    BY <1>1, Retried

LEMMA Went ==
  ASSUME IngestionInv, NEW l \in Listening,
         NEW pc \in {"lookup", "append", "read", "write", "publish"},
         IG!Busy(igThread[l]), IG!Goto(l, pc), pc \in {"read", "write", "publish"}
         => InRows(igThread[l].granule, igRows'),
         \A g : InRows(g, igRows) => InRows(g, igRows')
  PROVE  ThreadStepped /\ UNCHANGED <<igFailures, igCrashes>>
  <1>. DEFINE t == [igThread[l] EXCEPT !.pc = pc]
  <1>1. igThread[l] \in IG!Listener /\ igThread[l].granule \in IG!Granule
          /\ igThread \in [Listening -> IG!Listener]
        /\ igThread[l].worker \in Ingester
    BY DEF IngestionInv, IG!TypeOK, Threads, IG!Busy
  <1>2. igThread' = [igThread EXCEPT ![l] = t] /\ UNCHANGED <<IG!history, igFailures, igCrashes>>
    BY <1>1 DEF IG!Goto, IG!faults
  <1>3. t \in IG!Listener /\ t.granule = igThread[l].granule /\ t.worker = igThread[l].worker
          /\ t.pc = pc
    BY <1>1 DEF IG!Listener
  <1>. HIDE DEF t
  <1>4. QED
    BY <1>1, <1>2, <1>3, WentOn

LEMMA ThreadSteps ==
  ASSUME IngestionInv, ThreadStepped,
         UNCHANGED <<IG!service, igSent, igRunning, igListener, igPausing>>,
         igKnown' \subseteq Ingester, igQueue' \in Seq(IG!Granule),
         igRows' \in Seq(IG!Granule \cup {IG!Fill}), igRevision' \in Nat,
         igFailures' \in 0..MaxRaised, igCrashes' \in 0..MaxCrashes
  PROVE  IngestionInv'
  <1>1. IG!TypeOK'
    BY DEF IngestionInv, IG!TypeOK, ThreadStepped, IG!service
  <1>2. Requests'
    BY DEF IngestionInv, Requests, ThreadStepped, IG!service
  <1>3. QED
    BY <1>1, <1>2 DEF IngestionInv, ThreadStepped

LEMMA StepThread ==
  ASSUME IG!IngestionAssumption, IngestionInv, NEW l \in Listening,
         \/ IG!Receive(l) \/ IG!Wake(l) \/ IG!GetCoverage(l) \/ IG!AddGranule(l)
         \/ IG!ReadMetadata(l) \/ IG!WriteMetadata(l) \/ IG!DatasetChanged(l)
  PROVE  IngestionInv'
  <1>1. /\ igThread \in [Listening -> IG!Listener] /\ igThread[l] \in IG!Listener
           /\ igQueue \in Seq(IG!Granule)
        /\ igKnown \subseteq Ingester /\ igRows \in Seq(IG!Granule \cup {IG!Fill})
             /\ igRevision \in Nat
        /\ igFailures \in 0..MaxRaised /\ igCrashes \in 0..MaxCrashes
        /\ igThread[l].pc \notin {"new", "dead"} => igThread[l].worker \in Ingester
        /\ IG!Busy(igThread[l]) => igThread[l].granule \in IG!Granule
             /\ igThread[l].worker \in Ingester
        /\ igThread[l].pc \in {"read", "write", "publish"} => InRows(igThread[l].granule, igRows)
    BY DEF IngestionInv, IG!TypeOK, Threads, IG!Busy
  <1>2. CASE IG!Receive(l)
    <2>. DEFINE t == [igThread[l] EXCEPT !.pc = "lookup", !.granule = Head(igQueue), !.tries = 0]
    <2>1. /\ igThread' = [igThread EXCEPT ![l] = t] /\ igThread[l].pc = "idle" /\ igQueue # <<>>
             /\ igQueue' = Tail(igQueue)
          /\ UNCHANGED <<IG!service, igSent, igRows, igRevision, igRunning, igListener, igPausing,
                         igKnown, igFailures, igCrashes, IG!history>>
      BY <1>2 DEF IG!Receive, IG!procs, IG!faults
    <2>2. Head(igQueue) \in IG!Granule /\ igQueue' \in Seq(IG!Granule)
      BY <1>1, <2>1, HeadTailProperties
    <2>3. t \in IG!Listener /\ t.granule \in IG!Granule /\ t.worker \in Ingester /\ t.pc = "lookup"
      BY <1>1, <2>1, <2>2 DEF IG!Listener
    <2>. HIDE DEF t
    <2>4. ThreadStepped
      BY <2>1, <2>3, WentOn
    <2>5. QED
      BY <1>1, <2>1, <2>2, <2>4, ThreadSteps
  <1>3. CASE IG!Wake(l)
    <2>1. /\ IG!Busy(igThread[l]) /\ IG!Goto(l, "lookup")
          /\ UNCHANGED <<IG!service, igSent, igQueue, igRows, igRevision, igRunning, igListener,
                         igPausing, igKnown>>
      BY <1>3 DEF IG!Wake, IG!Busy, IG!procs, IG!data
    <2>2. ThreadStepped /\ UNCHANGED <<igFailures, igCrashes>>
      BY <2>1, Went
    <2>3. QED
      BY <1>1, <2>1, <2>2, ThreadSteps
  <1>4. CASE IG!GetCoverage(l)
    <2>1. /\ IG!Busy(igThread[l])
          /\ UNCHANGED <<IG!service, igSent, igQueue, igRows, igRevision, igRunning, igListener,
                         igPausing>>
      BY <1>4 DEF IG!GetCoverage, IG!Busy, IG!data
    <2>2. ASSUME igThread[l].worker \in igKnown \/ igLinked,
                 igKnown' = igKnown \cup {igThread[l].worker}, IG!Goto(l, "append")
          PROVE  IngestionInv'
      <3>1. ThreadStepped /\ UNCHANGED <<igFailures, igCrashes>>
        BY <2>1, <2>2, Went
      <3>2. QED
        BY <1>1, <2>1, <2>2, <3>1, ThreadSteps
    <2>3. ASSUME IG!Finish(l, {igThread[l].granule}), UNCHANGED <<igKnown, IG!faults>>
                 PROVE IngestionInv'
      <3>1. ThreadStepped /\ UNCHANGED <<igFailures, igCrashes>>
        BY <1>1, <2>1, <2>3, Finished DEF IG!faults
      <3>2. QED
        BY <1>1, <2>1, <2>3, <3>1, ThreadSteps
    <2>4. ASSUME IG!Raise(l), UNCHANGED igKnown PROVE IngestionInv'
      <3>1. ThreadStepped /\ igFailures' \in 0..MaxRaised /\ igCrashes' = igCrashes
        BY <2>1, <2>4, Raised
      <3>2. QED
        BY <1>1, <2>1, <2>4, <3>1, ThreadSteps
    <2>5. QED
      BY <1>4, <2>2, <2>3, <2>4 DEF IG!GetCoverage
  <1>5. CASE IG!AddGranule(l)
    <2>1. /\ IG!Busy(igThread[l])
             /\ UNCHANGED <<IG!service, igSent, igQueue, igRevision, igRunning, igListener,
                            igPausing, igKnown>>
      BY <1>5 DEF IG!AddGranule, IG!Busy, IG!procs
    <2>2. ASSUME igRows' = Append(igRows, igThread[l].granule), IG!Goto(l, "read")
                 PROVE IngestionInv'
      <3>1. igRows' \in Seq(IG!Granule \cup {IG!Fill}) /\ \A g : InRows(g, igRows)
              => InRows(g, igRows')
        BY <1>1, <2>1, <2>2, RowsGrow
      <3>2. InRows(igThread[l].granule, igRows')
        <4>1. Len(igRows) + 1 \in DOMAIN igRows' /\ igRows'[Len(igRows) + 1] = igThread[l].granule
          BY <1>1, <2>1, <2>2, AppendProperties, LenProperties
        <4>2. QED
          BY <4>1 DEF InRows
      <3>3. ThreadStepped /\ UNCHANGED <<igFailures, igCrashes>>
        BY <2>1, <2>2, <3>1, <3>2, Went
      <3>4. QED
        BY <1>1, <2>1, <3>1, <3>3, ThreadSteps
    <2>3. ASSUME igRows' \in {igRows, Append(igRows, IG!Fill), Append(igRows,
                              igThread[l].granule)}, IG!Raise(l) PROVE IngestionInv'
      <3>1. igRows' \in Seq(IG!Granule \cup {IG!Fill}) /\ \A g : InRows(g, igRows)
              => InRows(g, igRows')
        BY <1>1, <2>1, <2>3, RowsGrow
      <3>2. ThreadStepped /\ igFailures' \in 0..MaxRaised /\ igCrashes' = igCrashes
        BY <2>1, <2>3, <3>1, Raised
      <3>3. QED
        BY <1>1, <2>1, <3>1, <3>2, ThreadSteps
    <2>4. ASSUME IG!Retry(l), UNCHANGED <<igRows, IG!faults>> PROVE IngestionInv'
      <3>1. ThreadStepped /\ UNCHANGED <<igFailures, igCrashes>>
        BY <2>1, <2>4, Retried DEF IG!faults
      <3>2. QED
        BY <1>1, <2>1, <2>4, <3>1, ThreadSteps
    <2>5. QED
      BY <1>5, <2>2, <2>3, <2>4 DEF IG!AddGranule
  <1>6. CASE IG!ReadMetadata(l)
    <2>. DEFINE t == [igThread[l] EXCEPT !.pc = "write", !.rev = igRevision]
    <2>1. /\ IG!Busy(igThread[l]) /\ igThread[l].pc = "read"
          /\ UNCHANGED <<IG!service, igSent, igQueue, igRows, igRevision, igRunning, igListener,
                         igPausing, igKnown>>
      BY <1>6 DEF IG!ReadMetadata, IG!Busy, IG!procs, IG!data
    <2>2. ASSUME igThread' = [igThread EXCEPT ![l] = t], UNCHANGED <<IG!faults, IG!history>>
                 PROVE IngestionInv'
      <3>1. t \in IG!Listener /\ t.granule = igThread[l].granule /\ t.worker = igThread[l].worker
              /\ t.pc = "write"
        BY <1>1 DEF IG!Listener
      <3>. HIDE DEF t
      <3>2. ThreadStepped
        BY <1>1, <2>1, <2>2, <3>1, WentOn
      <3>3. UNCHANGED <<igFailures, igCrashes>>
        BY <2>2 DEF IG!faults
      <3>4. QED
        BY <1>1, <2>1, <3>2, <3>3, ThreadSteps
    <2>3. ASSUME IG!Raise(l) PROVE IngestionInv'
      <3>1. ThreadStepped /\ igFailures' \in 0..MaxRaised /\ igCrashes' = igCrashes
        BY <2>1, <2>3, Raised
      <3>2. QED
        BY <1>1, <2>1, <3>1, ThreadSteps
    <2>4. QED
      BY <1>6, <2>2, <2>3 DEF IG!ReadMetadata
  <1>7. CASE IG!WriteMetadata(l)
    <2>1. /\ IG!Busy(igThread[l]) /\ igThread[l].pc = "write"
          /\ UNCHANGED <<IG!service, igSent, igQueue, igRows, igRunning, igListener, igPausing,
                         igKnown>>
      BY <1>7 DEF IG!WriteMetadata, IG!Busy, IG!procs
    <2>2. ASSUME igRevision' = igRevision + 1, IG!Goto(l, "publish") PROVE IngestionInv'
      <3>1. ThreadStepped /\ UNCHANGED <<igFailures, igCrashes>>
        BY <1>1, <2>1, <2>2, Went
      <3>2. QED
        BY <1>1, <2>1, <2>2, <3>1, ThreadSteps
    <2>3. ASSUME IG!Retry(l), UNCHANGED <<igRevision, IG!faults>> PROVE IngestionInv'
      <3>1. ThreadStepped /\ UNCHANGED <<igFailures, igCrashes>>
        BY <2>1, <2>3, Retried DEF IG!faults
      <3>2. QED
        BY <1>1, <2>1, <2>3, <3>1, ThreadSteps
    <2>4. ASSUME IG!Raise(l), UNCHANGED igRevision PROVE IngestionInv'
      <3>1. ThreadStepped /\ igFailures' \in 0..MaxRaised /\ igCrashes' = igCrashes
        BY <2>1, <2>4, Raised
      <3>2. QED
        BY <1>1, <2>1, <2>4, <3>1, ThreadSteps
    <2>5. QED
      BY <1>7, <2>2, <2>3, <2>4 DEF IG!WriteMetadata
  <1>8. CASE IG!DatasetChanged(l)
    <2>1. /\ IG!Busy(igThread[l]) /\ igThread[l].pc = "publish"
          /\ UNCHANGED <<IG!service, igSent, igQueue, igRows, igRevision, igRunning, igListener,
                         igPausing, igKnown>>
      BY <1>8 DEF IG!DatasetChanged, IG!Busy, IG!procs, IG!data
    <2>2. ASSUME IG!Finish(l, {}), UNCHANGED IG!faults PROVE IngestionInv'
      <3>1. ThreadStepped /\ UNCHANGED <<igFailures, igCrashes>>
        BY <1>1, <2>1, <2>2, Finished DEF IG!faults
      <3>2. QED
        BY <1>1, <2>1, <3>1, ThreadSteps
    <2>3. ASSUME IG!Raise(l) PROVE IngestionInv'
      <3>1. ThreadStepped /\ igFailures' \in 0..MaxRaised /\ igCrashes' = igCrashes
        BY <2>1, <2>3, Raised
      <3>2. QED
        BY <1>1, <2>1, <3>1, ThreadSteps
    <2>4. QED
      BY <1>8, <2>2, <2>3 DEF IG!DatasetChanged
  <1>9. QED
    BY <1>2, <1>3, <1>4, <1>5, <1>6, <1>7, <1>8

(* Threads that are as they were, ended, or listen to the queue.           *)
Inherits(t, u) ==
  \/ t.pc \in {"new", "dead"}
  \/ t.pc = "idle" /\ t.worker \in Ingester
  \/ t.pc = u.pc /\ t.worker = u.worker /\ t.granule = u.granule

LEMMA ThreadsChange ==
  ASSUME IngestionInv, NEW f \in [Listening -> IG!Listener], igThread' = f, UNCHANGED igRows,
         \A l \in Listening : Inherits(f[l], igThread[l])
  PROVE  Threads'
  <1>1. ASSUME NEW l \in Listening
        PROVE  /\ f[l].pc \notin {"new", "dead"} => f[l].worker \in Ingester
               /\ IG!Busy(f[l]) => f[l].granule \in IG!Granule
               /\ f[l].pc \in {"read", "write", "publish"} => InRows(f[l].granule, igRows)
    BY DEF IngestionInv, Threads, Inherits, IG!Busy
  <1>2. QED
    BY <1>1 DEF Threads

LEMMA StartedThreads ==
  ASSUME NEW f \in [Listening -> IG!Listener], NEW w \in Ingester, NEW l \in Listening
  PROVE  /\ IG!Started(f, w, l) \in [Listening -> IG!Listener]
         /\ IG!Started(f, w, l)[l].pc = "idle" /\ IG!Started(f, w, l)[l].worker = w
         /\ \A m \in Listening : m # l => IG!Started(f, w, l)[m] = f[m]
  <1>. DEFINE t == [IG!New EXCEPT !.worker = w, !.open = TRUE, !.pc = "idle"]
  <1>1. t \in IG!Listener /\ t.pc = "idle" /\ t.worker = w
    BY DEF IG!New, IG!Listener
  <1>2. IG!Started(f, w, l) = [f EXCEPT ![l] = t]
    BY DEF IG!Started
  <1>. HIDE DEF t
  <1>3. QED
    BY <1>1, <1>2

LEMMA EndedThreads ==
  ASSUME IngestionInv, NEW W
  PROVE  /\ IG!Ended(W) \in [Listening -> IG!Listener]
         /\ \A l \in Listening : IG!Ended(W)[l] = igThread[l] \/ IG!Ended(W)[l].pc = "dead"
  <1>1. igThread \in [Listening -> IG!Listener]
    BY DEF IngestionInv, IG!TypeOK
  <1>2. [IG!New EXCEPT !.pc = "dead"] \in IG!Listener /\ [IG!New EXCEPT !.pc = "dead"].pc = "dead"
    BY DEF IG!New, IG!Listener
  <1>3. QED
    BY <1>1, <1>2 DEF IG!Ended

LEMMA WorkerStepped ==
  ASSUME IngestionInv, NEW f \in [Listening -> IG!Listener], igThread' = f,
         \A l \in Listening : Inherits(f[l], igThread[l]),
         UNCHANGED <<IG!service, igSent, igRows, igRevision, igRunning, igFailures, IG!history>>,
         igCrashes' \in 0..MaxCrashes,
         igQueue' \in Seq(IG!Granule), igListener' \in [Ingester -> Listening \cup {Nil}],
         igPausing' \subseteq Ingester,
         igKnown' \subseteq Ingester
  PROVE  IngestionInv'
  <1>1. Threads'
    BY ThreadsChange
  <1>2. IG!TypeOK'
    BY DEF IngestionInv, IG!TypeOK, IG!service, IG!history
  <1>3. IG!Ingested' /\ Requests'
    BY DEF IngestionInv, IG!Ingested, Requests, IG!service, IG!history
  <1>4. QED
    BY <1>1, <1>2, <1>3 DEF IngestionInv

LEMMA StepWorker ==
  ASSUME IG!IngestionAssumption, IngestionInv, NEW w \in Ingester, IG!Crash(w) \/ IG!Pause(w)
         \/ IG!Paused(w) \/ IG!Resume(w)
  PROVE  IngestionInv'
  <1>1. /\ igThread \in [Listening -> IG!Listener] /\ igQueue \in Seq(IG!Granule)
           /\ igListener \in [Ingester -> Listening \cup {Nil}]
        /\ igPausing \subseteq Ingester /\ igKnown \subseteq Ingester /\ igCrashes \in 0..MaxCrashes
    BY DEF IngestionInv, IG!TypeOK
  <1>2. CASE IG!Crash(w)
    <2>1. PICK l \in Listening : /\ igThread' = IG!Started(IG!Ended({w}), w, l)
                              /\ igListener' = [igListener EXCEPT ![w] = l]
      BY <1>2 DEF IG!Crash
    <2>2. /\ igCrashes' \in 0..MaxCrashes /\ igQueue' = IG!Given(IG!OfWorkers({w}))
             /\ igKnown' = igKnown \ {w}
          /\ igPausing' = igPausing \ {w}
          /\ UNCHANGED <<IG!service, igSent, igRows, igRevision, igRunning, igFailures, IG!history>>
      BY <1>1, <1>2 DEF IG!Crash, IG!IngestionAssumption
    <2>3. igQueue' \in Seq(IG!Granule)
      BY <2>2, GivenType DEF IG!OfWorkers
    <2>4. IG!Ended({w}) \in [Listening -> IG!Listener]
            /\ \A m \in Listening : IG!Ended({w})[m] = igThread[m] \/ IG!Ended({w})[m].pc = "dead"
      BY EndedThreads
    <2>5. /\ igThread' \in [Listening -> IG!Listener] /\ igThread'[l].pc = "idle"
          /\ igThread'[l].worker = w
          /\ \A m \in Listening : m # l => igThread'[m] = IG!Ended({w})[m]
      <3>1. PICK g \in [Listening -> IG!Listener] : g = IG!Ended({w})
        BY <2>4
      <3>2. igThread' = IG!Started(g, w, l)
        BY <2>1, <3>1
      <3>3. QED
        BY <3>1, <3>2, StartedThreads
    <2>6. PICK f \in [Listening -> IG!Listener] : f = igThread'
      BY <2>5
    <2>7. \A m \in Listening : Inherits(f[m], igThread[m])
      BY <2>4, <2>5, <2>6 DEF Inherits
    <2>8. igListener' \in [Ingester -> Listening \cup {Nil}] /\ igPausing' \subseteq Ingester
            /\ igKnown' \subseteq Ingester
      BY <1>1, <2>1, <2>2
    <2>9. QED
      BY <2>2, <2>3, <2>6, <2>7, <2>8, WorkerStepped
  <1>3. CASE IG!Pause(w)
    <2>. DEFINE l == igListener[w]
                t == IF IG!Busy(igThread[l]) THEN [igThread[l] EXCEPT !.open = FALSE]
                     ELSE [IG!New EXCEPT !.pc = "dead"]
    <2>1. /\ l \in Listening /\ igPausing' = igPausing \cup {w} /\ igQueue' = IG!Given({l})
          /\ igThread' = [igThread EXCEPT ![l] = t]
          /\ UNCHANGED <<IG!service, igSent, igRows, igRevision, igRunning, igListener, igKnown,
                         igFailures, igCrashes, IG!history>>
      BY <1>1, <1>3 DEF IG!Pause, IG!faults
    <2>2. t \in IG!Listener /\ Inherits(t, igThread[l])
      <3>. HIDE DEF l
      <3>0. igThread[l] \in IG!Listener
        BY <1>1, <2>1
      <3>1. [igThread[l] EXCEPT !.open = FALSE] \in IG!Listener
            /\ Inherits([igThread[l] EXCEPT !.open = FALSE], igThread[l])
        BY <3>0 DEF IG!Listener, Inherits
      <3>2. [IG!New EXCEPT !.pc = "dead"] \in IG!Listener
              /\ Inherits([IG!New EXCEPT !.pc = "dead"], igThread[l])
        BY DEF IG!Listener, Inherits, IG!New
      <3>3. QED
        BY <3>1, <3>2
    <2>3. igQueue' \in Seq(IG!Granule)
      BY <2>1, GivenType
    <2>. HIDE DEF t, l
    <2>4. PICK f \in [Listening -> IG!Listener] : f = [igThread EXCEPT ![l] = t]
      BY <1>1, <2>2
    <2>5. \A m \in Listening : Inherits(f[m], igThread[m])
      BY <1>1, <2>1, <2>2, <2>4 DEF Inherits
    <2>6. QED
      BY <1>1, <2>1, <2>3, <2>4, <2>5, WorkerStepped
  <1>4. CASE IG!Paused(w)
    <2>. DEFINE l == igListener[w]
    <2>1. /\ igPausing' = igPausing \ {w} /\ igListener' = [igListener EXCEPT ![w] = Nil]
          /\ igThread' = [igThread EXCEPT ![l].stale = igThread[l].pc = "append"]
          /\ UNCHANGED <<IG!service, igSent, igQueue, igRows, igRevision, igRunning, igKnown,
                         igFailures, igCrashes, IG!history>>
      BY <1>4 DEF IG!Paused, IG!faults, IG!data
    <2>2. ASSUME NEW m \in Listening
          PROVE  igThread'[m] \in IG!Listener /\ Inherits(igThread'[m], igThread[m])
      <3>1. [igThread[m] EXCEPT !.stale = igThread[l].pc = "append"] \in IG!Listener
            /\ Inherits([igThread[m] EXCEPT !.stale = igThread[l].pc = "append"], igThread[m])
        BY <1>1 DEF IG!Listener, Inherits
      <3>2. QED
        BY <1>1, <2>1, <3>1 DEF Inherits
    <2>3. PICK f \in [Listening -> IG!Listener] : f = igThread'
            /\ \A m \in Listening : Inherits(f[m], igThread[m])
      BY <1>1, <2>1, <2>2
    <2>4. igListener' \in [Ingester -> Listening \cup {Nil}]
      BY <1>1, <2>1
    <2>5. QED
      BY <1>1, <2>1, <2>3, <2>4, WorkerStepped
  <1>5. CASE IG!Resume(w)
    <2>1. PICK l \in Listening : igThread' = IG!Started(igThread, w, l)
            /\ igListener' = [igListener EXCEPT ![w] = l]
      BY <1>5 DEF IG!Resume
    <2>2. UNCHANGED <<IG!service, igSent, igQueue, igRows, igRevision, igRunning, igPausing,
                      igKnown, igFailures, igCrashes, IG!history>>
      BY <1>5 DEF IG!Resume, IG!data, IG!faults
    <2>3. PICK f \in [Listening -> IG!Listener] : f = igThread' /\ f[l].pc = "idle"
            /\ f[l].worker = w
                                            /\ \A m \in Listening : m # l => f[m] = igThread[m]
      BY <1>1, <2>1, StartedThreads
    <2>4. \A m \in Listening : Inherits(f[m], igThread[m])
      BY <2>3 DEF Inherits
    <2>5. igListener' \in [Ingester -> Listening \cup {Nil}]
      BY <1>1, <2>1
    <2>6. QED
      BY <1>1, <2>2, <2>3, <2>4, <2>5, WorkerStepped
  <1>6. QED
    BY <1>2, <1>3, <1>4, <1>5

LEMMA StepPublish ==
  ASSUME IG!IngestionAssumption, IngestionInv, IG!Publish
  PROVE  IngestionInv'
  <1>1. /\ igSent \in 0..MaxGranules /\ igSent < MaxGranules /\ igSent' = igSent + 1
           /\ igQueue' = Append(igQueue, igSent')
        /\ UNCHANGED <<IG!service, igRows, igRevision, igRunning, igListener, igPausing, igKnown,
                       igThread, igFailures, igCrashes, IG!history>>
    BY DEF IG!Publish, IngestionInv, IG!TypeOK, IG!procs, IG!faults
  <1>2. igSent' \in IG!Granule /\ igSent' \in 0..MaxGranules
    BY <1>1 DEF IG!Granule, IG!IngestionAssumption
  <1>3. igQueue' \in Seq(IG!Granule)
    BY <1>1, <1>2, AppendProperties DEF IngestionInv, IG!TypeOK
  <1>4. IG!TypeOK'
    BY <1>1, <1>2, <1>3 DEF IngestionInv, IG!TypeOK, IG!service, IG!history
  <1>5. IG!Ingested' /\ Threads' /\ Requests'
    BY <1>1 DEF IngestionInv, IG!Ingested, Threads, Requests, IG!service, IG!history
  <1>6. QED
    BY <1>4, <1>5 DEF IngestionInv

LEMMA StepService ==
  ASSUME IG!IngestionAssumption, IngestionInv,
         \/ IG!Fail \/ IG!PersistDataStream \/ IG!Subscribe \/ IG!Associate \/ IG!ExistingDataset
              \/ IG!CreateWorker \/ IG!PersistStream
         \/ IG!UnpersistDataStream \/ IG!UnpersistStream \/ IG!DeactivateSubscription
              \/ IG!DeleteSubscription \/ IG!RemoveStream
  PROVE  IngestionInv'
  <1>1. UNCHANGED <<igSent, igQueue, igRows, igRevision, igRunning, igListener, igPausing,
                    igKnown, igThread, igCrashes, igSettled, igExcused>>
    BY DEF IG!Fail, IG!PersistDataStream, IG!Subscribe, IG!Associate, IG!ExistingDataset,
           IG!CreateWorker, IG!PersistStream,
           IG!UnpersistDataStream, IG!UnpersistStream, IG!DeactivateSubscription,
           IG!DeleteSubscription, IG!RemoveStream,
           IG!data, IG!procs, IG!history, IG!faults
  <1>2. IG!Ingested' /\ Threads'
    BY <1>1 DEF IngestionInv, IG!Ingested, Threads
  <1>3. /\ {igPersisted, igBound, igLinked, igStopped}' \subseteq BOOLEAN
        /\ igSubs' \in [mine : Nat, loose : Nat] /\ igAssociated' \subseteq Ingester
        /\ igRequest' \in [step : IG!Step, found : Nat, worker : Ingester \cup {Nil}]
        /\ igFailures' \in 0..MaxRaised /\ Requests'
    <2>1. CASE IG!Fail
      BY <2>1 DEF IG!Fail, IngestionInv, IG!TypeOK, Requests, Persisting, IG!Idle, IG!Step,
         IG!data, IG!procs, IG!history, IG!faults, IG!IngestionAssumption
    <2>2. CASE IG!PersistDataStream
      BY <2>2 DEF IG!PersistDataStream, IG!GoOn, IngestionInv, IG!TypeOK, Requests, Persisting,
         IG!Step, IG!data, IG!procs, IG!history, IG!faults
    <2>3. CASE IG!Subscribe
      <3>1. /\ igSubs \in [mine : Nat, loose : Nat]
               /\ igRequest \in [step : IG!Step, found : Nat, worker : Ingester \cup {Nil}]
            /\ Requests /\ {igPersisted, igBound, igLinked, igStopped} \subseteq BOOLEAN
                 /\ igAssociated \subseteq Ingester
            /\ igFailures \in 0..MaxRaised
        BY DEF IngestionInv, IG!TypeOK
      <3>2. igSubs' \in [mine : Nat, loose : Nat] /\ igSubs'.mine = igSubs.mine
              /\ igSubs'.loose = igSubs.loose + 1
        BY <2>3, <3>1 DEF IG!Subscribe, Requests
      <3>3. igRequest' \in [step : IG!Step, found : Nat, worker : Ingester \cup {Nil}]
            /\ igRequest.step = "subscribe" /\ igRequest'.step = "associate"
        BY <2>3, <3>1 DEF IG!Subscribe, IG!GoOn, Requests, IG!Step
      <3>4. UNCHANGED <<igPersisted, igLinked, igStopped, igAssociated, igFailures, igRunning>>
              /\ igBound' \in BOOLEAN
        BY <2>3, <3>1 DEF IG!Subscribe, IG!history, IG!faults, IG!procs
      <3>5. QED
        BY <3>1, <3>2, <3>3, <3>4 DEF Requests, Persisting
    <2>4. CASE IG!Associate
      <3>1. /\ igSubs \in [mine : Nat, loose : Nat]
               /\ igRequest \in [step : IG!Step, found : Nat, worker : Ingester \cup {Nil}]
            /\ Requests /\ {igPersisted, igBound, igLinked, igStopped} \subseteq BOOLEAN
                 /\ igAssociated \subseteq Ingester
            /\ igFailures \in 0..MaxRaised
        BY DEF IngestionInv, IG!TypeOK
      <3>2. igSubs' \in [mine : Nat, loose : Nat] /\ igSubs'.mine = igSubs.mine + 1
        BY <2>4, <3>1 DEF IG!Associate, Requests
      <3>3. igRequest' \in [step : IG!Step, found : Nat, worker : Ingester \cup {Nil}]
            /\ igRequest.step = "associate" /\ igRequest'.step = "dataset"
        BY <2>4, <3>1 DEF IG!Associate, IG!GoOn, Requests, IG!Step
      <3>4. UNCHANGED <<igPersisted, igLinked, igStopped, igAssociated, igFailures, igRunning>>
              /\ igBound' \in BOOLEAN
        BY <2>4, <3>1 DEF IG!Associate, IG!history, IG!faults, IG!procs
      <3>5. QED
        BY <3>1, <3>2, <3>3, <3>4 DEF Requests, Persisting
    <2>5. CASE IG!ExistingDataset
      BY <2>5 DEF IG!ExistingDataset, IG!GoOn, IngestionInv, IG!TypeOK, Requests, Persisting,
         IG!Step, IG!data, IG!procs, IG!history, IG!faults
    <2>6. CASE IG!CreateWorker
      BY <2>6 DEF IG!CreateWorker, IngestionInv, IG!TypeOK, Requests, Persisting, IG!Step, IG!data,
         IG!procs, IG!history, IG!faults
    <2>7. CASE IG!PersistStream
      BY <2>7 DEF IG!PersistStream, IG!Idle, IngestionInv, IG!TypeOK, Requests, Persisting,
         IG!Step, IG!data, IG!procs, IG!history, IG!faults
    <2>8. CASE IG!UnpersistDataStream
      BY <2>8 DEF IG!UnpersistDataStream, IG!Idle, IngestionInv, IG!TypeOK, Requests, Persisting,
         IG!Step, IG!data, IG!procs, IG!history, IG!faults
    <2>9. CASE IG!UnpersistStream
      BY <2>9 DEF IG!UnpersistStream, IG!GoOn, IngestionInv, IG!TypeOK, Requests, Persisting,
         IG!Step, IG!data, IG!procs, IG!history, IG!faults
    <2>10. CASE IG!DeactivateSubscription
      BY <2>10 DEF IG!DeactivateSubscription, IG!GoOn, IngestionInv, IG!TypeOK, Requests,
         Persisting, IG!Step, IG!data, IG!procs, IG!history, IG!faults
    <2>11. CASE IG!DeleteSubscription
      <3>1. /\ igSubs \in [mine : Nat, loose : Nat]
               /\ igRequest \in [step : IG!Step, found : Nat, worker : Ingester \cup {Nil}]
            /\ Requests /\ {igPersisted, igBound, igLinked, igStopped} \subseteq BOOLEAN
                 /\ igAssociated \subseteq Ingester
            /\ igFailures \in 0..MaxRaised
        BY DEF IngestionInv, IG!TypeOK
      <3>2. igSubs' \in [mine : Nat, loose : Nat] /\ igSubs'.mine = igSubs.mine - 1
        BY <2>11, <3>1 DEF IG!DeleteSubscription, Requests
      <3>3. igRequest' \in [step : IG!Step, found : Nat, worker : Ingester \cup {Nil}]
            /\ igRequest.step = "forget" /\ igRequest'.found = igRequest.found - 1
            /\ igRequest'.step = IF igRequest.found > 1 THEN "kill" ELSE "unlink"
        <4>1. igRequest.step = "forget" /\ igRequest.found > 0 /\ igRequest.found - 1 \in Nat
          BY <2>11, <3>1 DEF IG!DeleteSubscription, Requests
        <4>2. igRequest' = [igRequest EXCEPT !.found = igRequest.found - 1,
                            !.step = IF igRequest.found > 1 THEN "kill" ELSE "unlink"]
          BY <2>11 DEF IG!DeleteSubscription
        <4>3. QED
          BY <3>1, <4>1, <4>2 DEF IG!Step
      <3>4. UNCHANGED <<igPersisted, igLinked, igStopped, igAssociated, igFailures, igRunning>>
              /\ igBound' \in BOOLEAN
        BY <2>11, <3>1 DEF IG!DeleteSubscription, IG!history, IG!faults, IG!procs
      <3>5. QED
        BY <3>1, <3>2, <3>3, <3>4 DEF Requests, Persisting
    <2>12. CASE IG!RemoveStream
      BY <2>12 DEF IG!RemoveStream, IG!Idle, IngestionInv, IG!TypeOK, Requests, Persisting,
         IG!Step, IG!data, IG!procs, IG!history, IG!faults
    <2>13. QED
      BY <2>1, <2>2, <2>3, <2>4, <2>5, <2>6, <2>7, <2>8, <2>9, <2>10, <2>11, <2>12
  <1>4. IG!TypeOK'
    BY <1>1, <1>3 DEF IngestionInv, IG!TypeOK
  <1>5. QED
    BY <1>2, <1>3, <1>4 DEF IngestionInv

LEMMA StepSchedule ==
  ASSUME IG!IngestionAssumption, IngestionInv, IG!ScheduleWorker
  PROVE  IngestionInv'
  <1>. DEFINE w == igRequest.worker
  <1>1. w \in Ingester /\ ~igStopped /\ igSubs.mine > 0 /\ igRequest.step = "schedule"
        /\ igThread \in [Listening -> IG!Listener]
             /\ igListener \in [Ingester -> Listening \cup {Nil}]
        /\ igRequest \in [step : IG!Step, found : Nat, worker : Ingester \cup {Nil}]
    BY DEF IG!ScheduleWorker, IngestionInv, Requests, Persisting, IG!TypeOK
  <1>2. PICK l \in Listening : igThread' = IG!Started(igThread, w, l)
          /\ igListener' = [igListener EXCEPT ![w] = l]
    BY DEF IG!ScheduleWorker
  <1>3. /\ igRequest' = [igRequest EXCEPT !.step = "mark"] /\ igRunning' = igRunning \cup {w}
        /\ UNCHANGED <<igPersisted, igBound, igSubs, igLinked, igAssociated, igSent, igQueue,
                       igRows, igRevision, igPausing, igKnown,
                       igFailures, igCrashes, igSettled, igExcused, igStopped>>
    BY DEF IG!ScheduleWorker, IG!GoOn, IG!data, IG!faults, IG!history
  <1>4. PICK f \in [Listening -> IG!Listener] : f = igThread' /\ f[l].pc = "idle" /\ f[l].worker = w
                                          /\ \A m \in Listening : m # l => f[m] = igThread[m]
    BY <1>1, <1>2, StartedThreads
  <1>5. Threads'
    <2>1. \A m \in Listening : Inherits(f[m], igThread[m])
      BY <1>1, <1>4 DEF Inherits
    <2>2. QED
      BY <1>3, <1>4, <2>1, ThreadsChange
  <1>6. /\ igRequest' \in [step : IG!Step, found : Nat, worker : Ingester \cup {Nil}]
           /\ igRequest'.step = "mark"
        /\ igListener' \in [Ingester -> Listening \cup {Nil}]
    BY <1>1, <1>2, <1>3 DEF IG!Step
  <1>7. IG!TypeOK'
    BY <1>1, <1>3, <1>4, <1>6 DEF IngestionInv, IG!TypeOK
  <1>8. Requests'
    BY <1>1, <1>3, <1>6 DEF Requests, Persisting
  <1>9. IG!Ingested'
    BY <1>3 DEF IngestionInv, IG!Ingested
  <1>10. QED
    BY <1>5, <1>7, <1>8, <1>9 DEF IngestionInv

LEMMA StepKill ==
  ASSUME IG!IngestionAssumption, IngestionInv, IG!KillWorker
  PROVE  IngestionInv'
  <1>1. /\ igRequest.step = "kill" /\ igRequest' = [igRequest EXCEPT !.step = "deactivate"]
        /\ igRunning' = {} /\ igListener' = [w \in Ingester |-> Nil] /\ igPausing' = {}
             /\ igKnown' = {}
        /\ igQueue' = IG!Given(IG!OfWorkers(igRunning)) /\ igThread' = IG!Ended(igRunning)
        /\ UNCHANGED <<igPersisted, igBound, igSubs, igLinked, igAssociated, igSent, igRows,
                       igRevision, igFailures, igCrashes,
                       igSettled, igExcused, igStopped>>
    BY DEF IG!KillWorker, IG!GoOn, IG!faults, IG!history
  <1>2. igQueue' \in Seq(IG!Granule)
    BY <1>1, GivenType DEF IG!OfWorkers
  <1>3. PICK f \in [Listening -> IG!Listener] : f = igThread'
          /\ \A m \in Listening : f[m] = igThread[m] \/ f[m].pc = "dead"
    BY <1>1, EndedThreads
  <1>4. Threads'
    <2>1. \A m \in Listening : Inherits(f[m], igThread[m])
      BY <1>3 DEF Inherits
    <2>2. QED
      BY <1>1, <1>3, <2>1, ThreadsChange
  <1>5. IG!TypeOK'
    BY <1>1, <1>2, <1>3 DEF IngestionInv, IG!TypeOK, IG!Step
  <1>6. Requests'
    BY <1>1 DEF IngestionInv, Requests, Persisting, IG!TypeOK
  <1>7. IG!Ingested'
    BY <1>1 DEF IngestionInv, IG!Ingested
  <1>8. QED
    BY <1>4, <1>5, <1>6, <1>7 DEF IngestionInv

LEMMA InitIngestion == IG!IngestionAssumption /\ IG!Init => IngestionInv
  <1>. SUFFICES ASSUME IG!IngestionAssumption, IG!Init PROVE IngestionInv
    OBVIOUS
  <1>1. IG!TypeOK
    <2>1. IG!New \in IG!Listener
            /\ IG!Idle \in [step : IG!Step, found : Nat, worker : Ingester \cup {Nil}]
      BY DEF IG!Idle, IG!Step, IG!New, IG!Listener
    <2>2. 0 \in 0..MaxGranules /\ 0 \in 0..MaxRaised /\ 0 \in 0..MaxCrashes
      BY DEF IG!IngestionAssumption
    <2>3. [mine |-> 0, loose |-> 0] \in [mine : Nat, loose : Nat]
      OBVIOUS
    <2>4. /\ {igPersisted, igBound, igLinked, igStopped} \subseteq BOOLEAN
          /\ igSubs \in [mine : Nat, loose : Nat] /\ igAssociated \subseteq Ingester
          /\ igRequest \in [step : IG!Step, found : Nat, worker : Ingester \cup {Nil}]
      BY <2>1, <2>3 DEF IG!Init
    <2>5. /\ igSent \in 0..MaxGranules /\ igQueue \in Seq(IG!Granule)
          /\ igRows \in Seq(IG!Granule \cup {IG!Fill}) /\ igRevision \in Nat
          /\ igFailures \in 0..MaxRaised /\ igCrashes \in 0..MaxCrashes
          /\ igSettled \subseteq IG!Granule /\ igExcused \subseteq IG!Granule
      BY <2>2 DEF IG!Init
    <2>6. /\ igRunning \subseteq Ingester /\ igPausing \subseteq Ingester
             /\ igKnown \subseteq Ingester
          /\ igListener \in [Ingester -> Listening \cup {Nil}]
               /\ igThread \in [Listening -> IG!Listener]
      BY <2>1 DEF IG!Init
    <2>7. QED
      BY <2>4, <2>5, <2>6 DEF IG!TypeOK
  <1>2. IG!Ingested /\ Requests
    BY DEF IG!Init, IG!Ingested, Requests, IG!Idle, Persisting
  <1>3. Threads
    BY DEF IG!Init, Threads, IG!New, IG!Busy
  <1>4. QED
    BY <1>1, <1>2, <1>3 DEF IngestionInv

LEMMA StepIngestion ==
  ASSUME IG!IngestionAssumption, IngestionInv, [IG!Next]_(IG!vars)
  PROVE  IngestionInv'
  <1>1. CASE UNCHANGED IG!vars
    BY <1>1 DEF IG!vars, IG!service, IG!data, IG!procs, IG!faults, IG!history, IngestionInv,
       IG!TypeOK, IG!Ingested, Threads, Requests
  <1>2. CASE IG!Next
    BY <1>2, StepThread, StepWorker, StepPublish, StepService, StepSchedule, StepKill DEF IG!Next
  <1>3. QED
    BY <1>1, <1>2

LEMMA IngestionInvariant == IG!Spec => []IngestionInv
  <1>1. IngestionInv /\ [IG!Next]_(IG!vars) => IngestionInv'
    BY SuiteAssumption, StepIngestion
  <1>2. IG!IngestionAssumption
    BY SuiteAssumption
  <1>3. QED
    BY InitIngestion, <1>1, <1>2, PTL DEF IG!Spec

(* Subscriptions, workers, threads and the coverage of an ingested stream  *)
(* are always of their kind (ingestion_management_service.py,              *)
(* science_granule_ingestion_worker.py).                                   *)
THEOREM IngestionTypeCorrect == IG!Spec => []IG!TypeOK
  BY IngestionInvariant, PTL DEF IngestionInv

(* A granule that was acknowledged is in its dataset, was given up after   *)
(* all its retries, or had no dataset (persist_or_timeout), for any number *)
(* of granules, workers, retries, failures, crashes, pauses and requests.  *)
THEOREM SettledGranulesAreIngested == IG!Spec => []Ingested
  <1>1. IngestionInv => Ingested
    BY DEF IngestionInv, Ingested
  <1>2. QED
    BY IngestionInvariant, <1>1, PTL

(* When unpersist_data_stream has returned no worker of the stream is left,*)
(* whatever requests have failed half-way before, and whatever crashed.    *)
THEOREM UnpersistingStops == IG!Spec => []UnpersistStops
  <1>1. IngestionInv => UnpersistStops
    BY DEF IngestionInv, Requests, UnpersistStops, IG!UnpersistStops
  <1>2. QED
    BY IngestionInvariant, <1>1, PTL

-----------------------------------------------------------------------------
(* The children of a platform                                              *)

(* Pids only grow, and no client has one that was not given yet; a command *)
(* goes through its steps.                                                 *)
PidsGrow == \A c \in PC!Child :
  /\ pcAlive[c] <= pcPids[c]
  /\ pcClient[c] # PC!Invalid => pcClient[c] <= pcPids[c]
  /\ pcValidator[c] # Nil => pcValidator[c].got <= pcPids[c]
  /\ pcWork # Nil => pcWork.asked[c] <= pcPids[c]
WorkSteps == pcWork # Nil =>
  /\ pcWork.next = "watch" => pcWork.op = "LAUNCH"
  /\ pcWork.next = "terminate" => pcWork.op = "SHUTDOWN"
  /\ pcWork.next \in {"execute", "verify"} => pcWork.op # "LAUNCH"
ChildrenInv == PC!TypeOK /\ PidsGrow /\ WorkSteps /\ PC!ChildrenFirst

LEMMA InitChildren == PC!ChildAssumption /\ PC!BoundAssumption /\ PC!Init => ChildrenInv
  <1>. SUFFICES ASSUME PC!ChildAssumption, PC!BoundAssumption, PC!Init PROVE ChildrenInv
    OBVIOUS
  <1>1. MaxPid \in Nat /\ 0 \in 0..MaxPid /\ 0 \in 0..PC!Invalid
    BY DEF PC!BoundAssumption, PC!Invalid
  <1>2. PC!TypeOK
    BY <1>1 DEF PC!Init, PC!TypeOK, PC!AgentState
  <1>3. PidsGrow /\ WorkSteps /\ PC!ChildrenFirst
    BY <1>1 DEF PC!Init, PidsGrow, WorkSteps, PC!ChildrenFirst
  <1>4. QED
    BY <1>2, <1>3 DEF ChildrenInv

(* Events and validations leave the commands alone.                        *)
LEMMA StepEvents ==
  ASSUME PC!ChildAssumption, PC!BoundAssumption, ChildrenInv, NEW c \in PC!Child,
         NEW p \in 1..MaxPid,
         \/ PC!ChildTells(c) \/ PC!ChildRunning(c) \/ PC!ValidatorLooks(c)
              \/ PC!ValidatorStores(c) \/ PC!Terminated(c, p)
  PROVE  ChildrenInv'
  <1>1. /\ MaxPid \in Nat /\ PC!Invalid = MaxPid + 1 /\ PC!TypeOK /\ PidsGrow
        /\ 0 \in 0..MaxPid /\ 0 \in 0..PC!Invalid /\ PC!Invalid \in 0..PC!Invalid
             /\ 0..MaxPid \subseteq 0..PC!Invalid
        /\ 1 \in 1..MaxAttempts
    BY DEF PC!BoundAssumption, PC!Invalid, ChildrenInv
  <1>2. UNCHANGED <<pcStarted, pcAlive, pcPids, pcAgent, pcWork>>
    BY DEF PC!ChildTells, PC!ChildRunning, PC!ValidatorLooks, PC!ValidatorStores, PC!Terminated,
           PC!processes
  <1>3. WorkSteps' /\ PC!ChildrenFirst'
    BY <1>2 DEF ChildrenInv, WorkSteps, PC!ChildrenFirst
  <1>4. PC!TypeOK'
    <2>1. CASE PC!ChildTells(c)
      BY <1>1, <2>1 DEF PC!ChildTells, PC!TypeOK, PC!processes, PC!validation
    <2>2. CASE PC!ChildRunning(c)
      <3>1. [turn |-> 1, got |-> 0] \in [turn : 1..MaxAttempts, got : 0..MaxPid]
        BY <1>1
      <3>2. QED
        BY <1>1, <2>2, <3>1 DEF PC!ChildRunning, PC!TypeOK, PC!processes, PC!validation
    <2>3. CASE PC!ValidatorLooks(c)
      <3>1. pcValidator' \in [PC!Child -> [turn : 1..MaxAttempts, got : 0..MaxPid] \cup {Nil}]
              /\ pcValidating' \subseteq PC!Child
        <4>1. pcValidator[c] \in [turn : 1..MaxAttempts, got : 0..MaxPid]
                /\ pcAlive[c] \in 0..MaxPid /\ MaxAttempts \in Nat
          BY <1>1, <2>3 DEF PC!ValidatorLooks, PC!TypeOK, PC!BoundAssumption
        <4>2. CASE pcAlive[c] # 0
          <5>1. pcValidator' = [pcValidator EXCEPT ![c].got = pcAlive[c]] /\ UNCHANGED pcValidating
            BY <2>3, <4>2 DEF PC!ValidatorLooks
          <5>2. [pcValidator[c] EXCEPT !.got = pcAlive[c]] \in [turn : 1..MaxAttempts,
                 got : 0..MaxPid]
            BY <4>1
          <5>3. QED
            BY <1>1, <5>1, <5>2 DEF PC!TypeOK
        <4>3. CASE pcAlive[c] = 0 /\ pcValidator[c].turn < MaxAttempts
          <5>1. pcValidator' = [pcValidator EXCEPT ![c].turn = pcValidator[c].turn + 1]
                  /\ UNCHANGED pcValidating
            BY <1>1, <2>3, <4>3 DEF PC!ValidatorLooks, PC!TypeOK
          <5>2. [pcValidator[c] EXCEPT !.turn = pcValidator[c].turn + 1] \in [turn : 1..MaxAttempts, got : 0..MaxPid]
            BY <4>1, <4>3
          <5>3. QED
            BY <1>1, <5>1, <5>2 DEF PC!TypeOK
        <4>4. CASE pcAlive[c] = 0 /\ ~(pcValidator[c].turn < MaxAttempts)
          BY <1>1, <2>3, <4>4 DEF PC!ValidatorLooks, PC!TypeOK
        <4>5. QED
          BY <4>2, <4>3, <4>4
      <3>2. QED
        BY <1>1, <2>3, <3>1 DEF PC!ValidatorLooks, PC!TypeOK, PC!processes, PC!events
    <2>4. CASE PC!ValidatorStores(c)
      <3>1. pcValidator[c].got \in 0..MaxPid
        BY <1>1, <2>4 DEF PC!ValidatorStores, PC!TypeOK
      <3>2. QED
        BY <1>1, <2>4, <3>1 DEF PC!ValidatorStores, PC!TypeOK, PC!processes, PC!events
    <2>5. CASE PC!Terminated(c, p)
      BY <1>1, <2>5 DEF PC!Terminated, PC!TypeOK, PC!processes, PC!validation
    <2>6. QED
      BY <2>1, <2>2, <2>3, <2>4, <2>5
  <1>5. PidsGrow'
    <2>1. CASE PC!ChildTells(c) \/ PC!Terminated(c, p)
      BY <1>1, <1>2, <2>1 DEF PC!ChildTells, PC!Terminated, PidsGrow, PC!TypeOK, PC!validation
    <2>2. CASE PC!ChildRunning(c)
      BY <1>1, <1>2, <2>2 DEF PC!ChildRunning, PidsGrow, PC!TypeOK, PC!validation
    <2>3. CASE PC!ValidatorLooks(c)
      <3>1. pcValidator[c] \in [turn : 1..MaxAttempts, got : 0..MaxPid]
              /\ pcValidator \in [PC!Child -> [turn : 1..MaxAttempts, got : 0..MaxPid] \cup {Nil}]
            /\ pcValidator[c].got <= pcPids[c] /\ UNCHANGED pcClient
        BY <1>1, <2>3 DEF PC!ValidatorLooks, PC!TypeOK, PidsGrow
      <3>2. \A d \in PC!Child : d # c => pcValidator'[d] = pcValidator[d]
        BY <2>3, <3>1 DEF PC!ValidatorLooks
      <3>3. pcValidator'[c] # Nil => pcValidator'[c].got \in {pcAlive[c], pcValidator[c].got}
        <4>1. CASE pcAlive[c] # 0
          BY <2>3, <3>1, <4>1 DEF PC!ValidatorLooks
        <4>2. CASE pcAlive[c] = 0 /\ pcValidator[c].turn < MaxAttempts
          BY <2>3, <3>1, <4>2 DEF PC!ValidatorLooks
        <4>3. CASE pcAlive[c] = 0 /\ ~(pcValidator[c].turn < MaxAttempts)
          BY <2>3, <3>1, <4>3 DEF PC!ValidatorLooks
        <4>4. QED
          BY <4>1, <4>2, <4>3
      <3>4. QED
        BY <1>1, <1>2, <3>1, <3>2, <3>3 DEF PidsGrow
    <2>4. CASE PC!ValidatorStores(c)
      BY <1>1, <1>2, <2>4 DEF PC!ValidatorStores, PidsGrow, PC!TypeOK
    <2>5. QED
      BY <2>1, <2>2, <2>3, <2>4
  <1>6. QED
    BY <1>3, <1>4, <1>5 DEF ChildrenInv

LEMMA SpawnedPids ==
  ASSUME PC!ChildAssumption, PC!BoundAssumption, ChildrenInv, NEW c \in PC!Child, PC!Spawned(c)
  PROVE  /\ pcAlive' \in [PC!Child -> 0..MaxPid] /\ pcPids' \in [PC!Child -> 0..MaxPid]
            /\ pcAgent' \in [PC!Child -> PC!AgentState]
         /\ pcPids'[c] = pcPids[c] + 1 /\ pcAlive'[c] = pcPids[c] + 1 /\ pcPids[c] \in Nat
         /\ \A d \in PC!Child \ {c} : pcPids'[d] = pcPids[d] /\ pcAlive'[d] = pcAlive[d]
              /\ pcAgent'[d] = pcAgent[d]
         /\ \A d \in PC!Child : pcPids[d] <= pcPids'[d] /\ pcAlive'[d] <= pcPids'[d]
  <1>1. pcPids[c] \in 0..MaxPid /\ pcPids[c] < MaxPid /\ MaxPid \in Nat /\ PC!TypeOK /\ PidsGrow
    BY DEF PC!Spawned, ChildrenInv, PC!TypeOK, PC!BoundAssumption
  <1>2. pcPids[c] + 1 \in 0..MaxPid /\ pcPids[c] \in Nat
    BY <1>1
  <1>3. /\ pcPids' = [pcPids EXCEPT ![c] = pcPids[c] + 1]
           /\ pcAlive' = [pcAlive EXCEPT ![c] = pcPids[c] + 1]
        /\ pcAgent' = [pcAgent EXCEPT ![c] = "UNINITIALIZED"]
    BY <1>1 DEF PC!Spawned, PC!TypeOK
  <1>4. QED
    BY <1>1, <1>2, <1>3 DEF PC!TypeOK, PidsGrow, PC!AgentState

(* A child that has another process, or none, is nothing that the command  *)
(* has asked.                                                              *)
LEMMA StepProcess ==
  ASSUME PC!ChildAssumption, PC!BoundAssumption, ChildrenInv, NEW c \in PC!Child, PC!ChildDies(c)
         \/ PC!ChildStarts(c)
  PROVE  ChildrenInv'
  <1>1. MaxPid \in Nat /\ PC!TypeOK /\ PidsGrow /\ 0 \in 0..MaxPid
    BY DEF PC!BoundAssumption, ChildrenInv
  <1>2. CASE PC!ChildDies(c)
    <2>1. /\ pcAlive' = [pcAlive EXCEPT ![c] = 0]
             /\ pcDead' \subseteq pcDead \cup {<<c, pcAlive[c]>>} /\ pcAlive[c] # 0
          /\ UNCHANGED <<pcStarted, pcPids, pcAgent, pcClient, pcWatched, pcSaid, pcValidating,
                         pcValidator, pcWork>>
      BY <1>2 DEF PC!ChildDies, PC!Killed, PC!validation
    <2>2. pcAlive[c] \in 1..MaxPid
      BY <1>1, <2>1 DEF PC!TypeOK
    <2>3. PC!TypeOK'
      BY <1>1, <2>1, <2>2 DEF PC!TypeOK
    <2>4. PidsGrow'
      BY <1>1, <2>1 DEF PidsGrow, PC!TypeOK
    <2>5. WorkSteps' /\ PC!ChildrenFirst'
      BY <1>1, <2>1 DEF ChildrenInv, WorkSteps, PC!ChildrenFirst, PC!TypeOK
    <2>6. QED
      BY <2>3, <2>4, <2>5 DEF ChildrenInv
  <1>3. CASE PC!ChildStarts(c)
    <2>1. PC!Spawned(c)
            /\ UNCHANGED <<pcStarted, pcClient, pcWatched, pcDead, pcSaid, pcValidating,
                           pcValidator, pcWork>>
      BY <1>3 DEF PC!ChildStarts, PC!events, PC!validation
    <2>2. PC!TypeOK'
      BY <1>1, <2>1, SpawnedPids DEF PC!TypeOK
    <2>3. PidsGrow'
      <3>1. /\ \A d \in PC!Child : pcPids[d] <= pcPids'[d] /\ pcAlive'[d] <= pcPids'[d]
            /\ pcPids \in [PC!Child -> 0..MaxPid] /\ pcPids' \in [PC!Child -> 0..MaxPid]
                 /\ pcClient \in [PC!Child -> 0..PC!Invalid]
            /\ pcValidator \in [PC!Child -> [turn : 1..MaxAttempts, got : 0..MaxPid] \cup {Nil}]
            /\ pcWork # Nil => pcWork.asked \in [PC!Child -> 0..MaxPid]
        BY <1>1, <2>1, SpawnedPids DEF PC!TypeOK, PC!Work
      <3>2. ASSUME NEW d \in PC!Child
            PROVE  /\ pcClient[d] # PC!Invalid => pcClient[d] <= pcPids'[d]
                   /\ pcValidator[d] # Nil => pcValidator[d].got <= pcPids'[d]
                   /\ pcWork # Nil => pcWork.asked[d] <= pcPids'[d]
        <4>1. pcPids[d] \in Nat /\ pcPids'[d] \in Nat /\ pcPids[d] <= pcPids'[d]
                /\ pcClient[d] \in Int
          BY <1>1, <3>1 DEF PC!Invalid
        <4>2. pcClient[d] # PC!Invalid => pcClient[d] <= pcPids'[d]
          BY <1>1, <4>1 DEF PidsGrow
        <4>3. ASSUME pcValidator[d] # Nil PROVE pcValidator[d].got <= pcPids'[d]
          <5>1. pcValidator[d].got \in Nat /\ pcValidator[d].got <= pcPids[d]
            BY <1>1, <3>1, <4>3 DEF PidsGrow
          <5>2. QED
            BY <4>1, <5>1
        <4>4. ASSUME pcWork # Nil PROVE pcWork.asked[d] <= pcPids'[d]
          <5>1. pcWork.asked[d] \in Nat /\ pcWork.asked[d] <= pcPids[d]
            BY <1>1, <3>1, <4>4 DEF PidsGrow
          <5>2. QED
            BY <4>1, <5>1
        <4>5. QED
          BY <4>2, <4>3, <4>4
      <3>3. QED
        BY <2>1, <3>1, <3>2 DEF PidsGrow
    <2>4. WorkSteps'
      BY <2>1 DEF ChildrenInv, WorkSteps
    <2>5. PC!ChildrenFirst'
      <3>1. ASSUME pcWork # Nil PROVE pcWork.asked[c] # pcAlive'[c]
        <4>1. pcWork.asked[c] <= pcPids[c] /\ pcWork.asked[c] \in Nat
          BY <1>1, <3>1 DEF PidsGrow, PC!TypeOK, PC!Work
        <4>2. pcPids[c] \in Nat /\ pcAlive'[c] = pcPids[c] + 1
          BY <2>1, SpawnedPids
        <4>3. QED
          BY <4>1, <4>2
      <3>2. \A d \in PC!Child \ {c} : pcAlive'[d] = pcAlive[d] /\ pcAgent'[d] = pcAgent[d]
        BY <2>1, SpawnedPids
      <3>3. QED
        BY <2>1, <3>1, <3>2 DEF ChildrenInv, PC!ChildrenFirst
    <2>6. QED
      BY <2>2, <2>3, <2>4, <2>5 DEF ChildrenInv
  <1>4. QED
    BY <1>2, <1>3

Settles(w, c) == c \in w.todo \cup w.errors \/ w.child = c \/ pcAgent[c] = PC!Leads[w.op]
Stepped(w) ==
  /\ w.next = "watch" => w.op = "LAUNCH"
  /\ w.next = "terminate" => w.op = "SHUTDOWN"
  /\ w.next \in {"execute", "verify"} => w.op # "LAUNCH"

(* A step of the command that leaves the processes alone.                  *)
LEMMA CommandStep ==
  ASSUME ChildrenInv,
         UNCHANGED <<pcAlive, pcPids, pcAgent, pcClient, pcDead, pcSaid, pcValidating,
                     pcValidator>>,
         pcStarted' \in BOOLEAN, pcWatched' \in [PC!Child -> SUBSET (1..MaxPid)],
         NEW w, pcWork' = w, w = Nil \/ (/\ w \in PC!Work /\ Stepped(w)
                                         /\ \A c \in PC!Child : w.asked[c] <= pcPids[c]
                                         /\ w.op \in {"GO_INACTIVE", "RESET"} => \A c \in PC!Child :
                                              w.asked[c] # 0 /\ w.asked[c] = pcAlive[c] => Settles(w, c))
  PROVE  ChildrenInv'
  <1>1. PC!TypeOK'
    BY DEF ChildrenInv, PC!TypeOK
  <1>2. PidsGrow'
    BY DEF ChildrenInv, PidsGrow, PC!Child
  <1>3. WorkSteps'
    BY DEF ChildrenInv, WorkSteps, Stepped
  <1>4. PC!ChildrenFirst'
    BY DEF PC!ChildrenFirst, Settles, PC!Child, PC!Leads
  <1>5. QED
    BY <1>1, <1>2, <1>3, <1>4 DEF ChildrenInv

(* A group's turn begins.                                                  *)
LEMMA GroupBegins ==
  ASSUME PC!ChildAssumption, PC!BoundAssumption, ChildrenInv,
         UNCHANGED <<PC!processes, pcClient, PC!events, PC!validation>>, pcStarted' \in BOOLEAN,
         NEW op \in PC!Op, NEW group \in {"instruments", "platforms"}, NEW turn \in {1, 2},
         NEW asked \in [PC!Child -> 0..MaxPid], NEW errors \in SUBSET PC!Child,
         pcWork' = PC!Group(op, group, turn, asked, errors),
         \A c \in PC!Child : asked[c] <= pcPids[c],
         op \in {"GO_INACTIVE", "RESET"} =>
           \A c \in PC!Child : asked[c] # 0 /\ asked[c] = pcAlive[c] => c \in errors
           \/ pcAgent[c] = PC!Leads[op]
  PROVE  ChildrenInv'
  <1>. DEFINE G == IF op = "LAUNCH" \/ (op = "SHUTDOWN" /\ group = "platforms")
                   THEN PC!Members(group) ELSE PC!Valid(PC!Members(group))
              w == PC!Group(op, group, turn, asked, errors)
              now == [c \in PC!Child |-> IF c \in PC!Valid(G) THEN pcClient[c] ELSE asked[c]]
  <1>1. /\ MaxPid \in Nat /\ PC!Invalid = MaxPid + 1 /\ pcClient \in [PC!Child -> 0..PC!Invalid]
           /\ PidsGrow
        /\ pcWatched \in [PC!Child -> SUBSET (1..MaxPid)]
    BY DEF PC!BoundAssumption, PC!Invalid, ChildrenInv, PC!TypeOK
  <1>2. G \subseteq PC!Child
    BY DEF PC!Members, PC!Valid, PC!Child
  <1>3. /\ w = [op |-> op, group |-> group, todo |-> G, child |-> Nil, next |-> "state",
                errors |-> errors,
                turn |-> turn, asked |-> now]
    BY DEF PC!Group
  <1>4. now \in [PC!Child -> 0..MaxPid] /\ \A c \in PC!Child : now[c] <= pcPids[c]
          /\ (now[c] = asked[c] \/ c \in G)
    <2>. HIDE DEF G
    <2>1. QED
      BY <1>1, <1>2 DEF PC!Valid, PidsGrow
  <1>. HIDE DEF G, now
  <1>5. w \in PC!Work
    BY <1>2, <1>3, <1>4 DEF PC!Work
  <1>6. w.asked = now /\ w.todo = G /\ w.errors = errors /\ w.op = op /\ w.next = "state"
    BY <1>3
  <1>. HIDE DEF w
  <1>7. Stepped(w)
    BY <1>6 DEF Stepped
  <1>8. \A c \in PC!Child : w.asked[c] <= pcPids[c]
    BY <1>4, <1>6
  <1>9. w.op \in {"GO_INACTIVE", "RESET"} =>
          \A c \in PC!Child : w.asked[c] # 0 /\ w.asked[c] = pcAlive[c] => Settles(w, c)
    BY <1>4, <1>6 DEF Settles
  <1>10. pcWork' = w
    BY DEF w
  <1>11. UNCHANGED <<pcAlive, pcPids, pcAgent, pcClient, pcDead, pcSaid, pcValidating,
                     pcValidator>> /\ pcWatched' = pcWatched
    BY DEF PC!processes, PC!events, PC!validation
  <1>12. QED
    BY <1>1, <1>5, <1>7, <1>8, <1>9, <1>10, <1>11, CommandStep

LEMMA StepGroup ==
  ASSUME PC!ChildAssumption, PC!BoundAssumption, ChildrenInv,
         PC!BeginLaunch \/ PC!EndGroup \/ \E op \in PC!Op : PC!Begin(op)
  PROVE  ChildrenInv'
  <1>. DEFINE none == [c \in PC!Child |-> 0]
  <1>1. none \in [PC!Child -> 0..MaxPid] /\ \A c \in PC!Child : none[c] = 0 /\ none[c] <= pcPids[c]
    BY DEF ChildrenInv, PC!TypeOK, PC!BoundAssumption
  <1>2. CASE PC!BeginLaunch
    <2>1. pcStarted' = TRUE /\ pcWork' = PC!Group("LAUNCH", "platforms", 1, none, {})
            /\ UNCHANGED <<PC!processes, pcClient, PC!events, PC!validation>>
      BY <1>2 DEF PC!BeginLaunch
    <2>. HIDE DEF none
    <2>2. QED
      BY <1>1, <2>1, GroupBegins DEF PC!Op
  <1>3. ASSUME NEW op \in PC!Op, PC!Begin(op) PROVE ChildrenInv'
    <2>1. /\ pcStarted' \in BOOLEAN /\ pcWork' = PC!Group(op, PC!FirstGroup(op), 1, none, {})
          /\ UNCHANGED <<PC!processes, pcClient, PC!events, PC!validation>>
      BY <1>3 DEF PC!Begin, ChildrenInv, PC!TypeOK
    <2>2. PC!FirstGroup(op) \in {"instruments", "platforms"}
      BY DEF PC!FirstGroup
    <2>. HIDE DEF none
    <2>3. QED
      BY <1>1, <2>1, <2>2, GroupBegins
  <1>4. CASE PC!EndGroup
    <2>1. /\ pcWork \in PC!Work /\ pcWork # Nil /\ pcWork.todo = {} /\ pcWork.child = Nil
          /\ UNCHANGED <<pcStarted, PC!processes, pcClient, PC!events, PC!validation>>
               /\ pcStarted' \in BOOLEAN
          /\ pcWatched' \in [PC!Child -> SUBSET (1..MaxPid)]
      BY <1>4 DEF PC!EndGroup, ChildrenInv, PC!TypeOK, PC!events
    <2>2. CASE pcWork' = Nil
      BY <2>1, <2>2, CommandStep DEF PC!processes, PC!events, PC!validation
    <2>3. CASE pcWork' = PC!Group(pcWork.op, PC!Other(pcWork.group), 2, pcWork.asked, pcWork.errors)
      <3>1. /\ pcWork.op \in PC!Op /\ PC!Other(pcWork.group) \in {"instruments", "platforms"}
            /\ pcWork.asked \in [PC!Child -> 0..MaxPid] /\ pcWork.errors \in SUBSET PC!Child
        BY <2>1 DEF PC!Work, PC!Other
      <3>2. \A c \in PC!Child : pcWork.asked[c] <= pcPids[c]
        BY <2>1 DEF ChildrenInv, PidsGrow
      <3>3. pcWork.op \in {"GO_INACTIVE", "RESET"} =>
              \A c \in PC!Child : pcWork.asked[c] # 0 /\ pcWork.asked[c] = pcAlive[c]
                                 => c \in pcWork.errors \/ pcAgent[c] = PC!Leads[pcWork.op]
        BY <2>1 DEF ChildrenInv, PC!ChildrenFirst, PC!ChildAssumption
      <3>4. QED
        BY <2>1, <2>3, <3>1, <3>2, <3>3, GroupBegins
    <2>4. QED
      BY <1>4, <2>2, <2>3 DEF PC!EndGroup
  <1>5. QED
    BY <1>2, <1>3, <1>4

(* What the command does with a child that leaves the processes alone.     *)
LEMMA StepAsk ==
  ASSUME PC!ChildAssumption, PC!BoundAssumption, ChildrenInv, NEW c \in PC!Child,
         PC!Pick(c) \/ PC!Watch(c) \/ PC!AskState(c) \/ PC!Verify(c)
  PROVE  ChildrenInv'
  <1>1. /\ pcWork \in PC!Work /\ pcWork # Nil /\ Stepped(pcWork) /\ PC!TypeOK /\ PidsGrow
           /\ MaxPid \in Nat
        /\ \A d \in PC!Child : pcWork.asked[d] <= pcPids[d]
        /\ pcWork.op \in {"GO_INACTIVE", "RESET"} =>
             \A d \in PC!Child : pcWork.asked[d] # 0 /\ pcWork.asked[d] = pcAlive[d]
             => Settles(pcWork, d)
        /\ UNCHANGED <<pcAlive, pcPids, pcAgent, pcClient, pcDead, pcSaid, pcValidating,
                       pcValidator>> /\ pcStarted' \in BOOLEAN
    BY DEF PC!Pick, PC!Watch, PC!AskState, PC!Verify, PC!Now, ChildrenInv, PC!TypeOK, WorkSteps,
           Stepped, PidsGrow, PC!ChildrenFirst, Settles,
           PC!processes, PC!events, PC!validation, PC!BoundAssumption
  <1>2. pcWatched' \in [PC!Child -> SUBSET (1..MaxPid)]
    <2>1. CASE PC!Watch(c)
      <3>1. pcAlive[c] \in 0..MaxPid /\ pcWatched \in [PC!Child -> SUBSET (1..MaxPid)]
        BY <1>1 DEF PC!TypeOK
      <3>2. pcAlive[c] = 0 \/ pcAlive[c] \in 1..MaxPid
        BY <1>1, <3>1
      <3>3. QED
        BY <2>1, <3>1, <3>2 DEF PC!Watch
    <2>2. CASE ~PC!Watch(c)
      BY <1>1, <2>2 DEF PC!Pick, PC!AskState, PC!Verify, PC!TypeOK, PC!events
    <2>3. QED
      BY <2>1, <2>2
  <1>3. CASE pcWork' = Nil
    BY <1>1, <1>2, <1>3, CommandStep
  <1>4. ASSUME NEW w \in PC!Work, pcWork' = w, Stepped(w), w.op = pcWork.op, w.asked = pcWork.asked,
               w.op \in {"GO_INACTIVE", "RESET"} =>
                 \A d \in PC!Child : pcWork.asked[d] # 0 /\ pcWork.asked[d] = pcAlive[d]
                 /\ Settles(pcWork, d) => Settles(w, d)
        PROVE  ChildrenInv'
    BY <1>1, <1>2, <1>4, CommandStep
  <1>5. CASE PC!Pick(c)
    <2>. DEFINE again == pcWork.op \in {"INITIALIZE", "SHUTDOWN"}
                first == IF pcWork.op = "SHUTDOWN" /\ c \in Platform THEN "execute" ELSE "state"
    <2>1. CASE again /\ pcClient[c] = PC!Invalid /\ pcWork.op = "SHUTDOWN"
      <3>. DEFINE w == [pcWork EXCEPT !.todo = @ \ {c}]
      <3>1. pcWork' = w
        BY <1>5, <2>1 DEF PC!Pick
      <3>2. w \in PC!Work /\ w.op = "SHUTDOWN" /\ w.op = pcWork.op /\ w.asked = pcWork.asked
              /\ w.next = pcWork.next
        BY <1>1, <2>1 DEF PC!Work
      <3>. HIDE DEF w
      <3>3. QED
        BY <1>1, <1>4, <3>1, <3>2 DEF Stepped
    <2>2. CASE again /\ pcClient[c] = PC!Invalid /\ pcWork.op # "SHUTDOWN"
      BY <1>3, <1>5, <2>2 DEF PC!Pick
    <2>3. CASE ~(again /\ pcClient[c] = PC!Invalid)
      <3>. DEFINE a == IF again THEN pcClient[c] ELSE pcWork.asked[c]
                  w == [pcWork EXCEPT !.todo = @ \ {c}, !.child = c, !.next = first, !.asked[c] = a]
      <3>1. pcWork' = w
        BY <1>5, <2>3 DEF PC!Pick
      <3>2. a \in 0..MaxPid /\ a <= pcPids[c]
        BY <1>1, <2>3 DEF PC!TypeOK, PC!Work, PC!Invalid, PidsGrow
      <3>3. first \in {"state", "execute"} /\ (first = "execute" => pcWork.op = "SHUTDOWN")
        OBVIOUS
      <3>. HIDE DEF a, first
      <3>4. /\ w \in PC!Work /\ w.op = pcWork.op /\ w.next = first /\ w.child = c
               /\ w.todo = pcWork.todo \ {c}
            /\ w.errors = pcWork.errors /\ w.asked = [pcWork.asked EXCEPT ![c] = a]
        BY <1>1, <3>2, <3>3 DEF PC!Work
      <3>. HIDE DEF w
      <3>5. Stepped(w)
        BY <3>3, <3>4 DEF Stepped
      <3>6. pcWork.asked \in [PC!Child -> 0..MaxPid]
        BY <1>1 DEF PC!Work
      <3>7. \A d \in PC!Child : w.asked[d] <= pcPids[d]
        BY <1>1, <3>2, <3>4, <3>6
      <3>8. w.op \in {"GO_INACTIVE", "RESET"} =>
              \A d \in PC!Child : w.asked[d] # 0 /\ w.asked[d] = pcAlive[d] => Settles(w, d)
        <4>1. \A d \in PC!Child \ {c} : w.asked[d] = pcWork.asked[d]
          BY <3>4, <3>6
        <4>2. pcWork.child = Nil /\ Nil \notin PC!Child
          BY <1>5 DEF PC!Pick, PC!ChildAssumption
        <4>3. QED
          BY <1>1, <3>4, <4>1, <4>2 DEF Settles
      <3>9. QED
        BY <1>1, <1>2, <3>1, <3>4, <3>5, <3>7, <3>8, CommandStep
    <2>4. QED
      BY <2>1, <2>2, <2>3
  <1>6. ASSUME PC!Now(c, pcWork.next), PC!Done, pcWork.op \in {"GO_INACTIVE", "RESET"}
               /\ PC!Reached(c) => pcAgent[c] = PC!Leads[pcWork.op]
        PROVE  ChildrenInv'
    <2>. DEFINE w == [pcWork EXCEPT !.child = Nil]
    <2>1. pcWork' = w /\ pcWork.child = c
      BY <1>6 DEF PC!Done, PC!Now
    <2>2. /\ w \in PC!Work /\ w.op = pcWork.op /\ w.next = pcWork.next /\ w.asked = pcWork.asked
             /\ w.todo = pcWork.todo
          /\ w.errors = pcWork.errors
      BY <1>1 DEF PC!Work
    <2>. HIDE DEF w
    <2>3. QED
      BY <1>1, <1>4, <1>6, <2>1, <2>2 DEF Stepped, Settles, PC!Reached
  <1>7. ASSUME PC!Now(c, pcWork.next), PC!Fails PROVE ChildrenInv'
    <2>. DEFINE w == [pcWork EXCEPT !.child = Nil, !.errors = @ \cup {pcWork.child}]
    <2>1. pcWork' = w /\ pcWork.child = c
      BY <1>7 DEF PC!Fails, PC!Now
    <2>2. /\ w \in PC!Work /\ w.op = pcWork.op /\ w.next = pcWork.next /\ w.asked = pcWork.asked
             /\ w.todo = pcWork.todo
          /\ w.errors = pcWork.errors \cup {c}
      BY <1>1, <2>1 DEF PC!Work
    <2>. HIDE DEF w
    <2>3. QED
      BY <1>1, <1>4, <2>1, <2>2 DEF Stepped, Settles
  <1>8. ASSUME PC!Now(c, pcWork.next), NEW step \in {"execute", "verify", "terminate"},
               PC!Then(step),
               pcWork.op # "LAUNCH", step = "terminate" => pcWork.op = "SHUTDOWN"
        PROVE  ChildrenInv'
    <2>. DEFINE w == [pcWork EXCEPT !.next = step]
    <2>1. pcWork' = w /\ pcWork.child = c
      BY <1>8 DEF PC!Then, PC!Now
    <2>2. /\ w \in PC!Work /\ w.op = pcWork.op /\ w.next = step /\ w.asked = pcWork.asked
             /\ w.todo = pcWork.todo
          /\ w.errors = pcWork.errors /\ w.child = pcWork.child
      BY <1>1 DEF PC!Work
    <2>. HIDE DEF w
    <2>3. QED
      BY <1>1, <1>4, <1>8, <2>1, <2>2 DEF Stepped, Settles
  <1>9. CASE PC!Watch(c)
    <2>1. PC!Now(c, pcWork.next) /\ PC!Done /\ pcWork.op = "LAUNCH"
      BY <1>1, <1>9 DEF PC!Watch, PC!Now, Stepped
    <2>2. QED
      BY <1>6, <2>1
  <1>10. CASE PC!AskState(c)
    <2>1. PC!Now(c, pcWork.next) /\ pcWork.op # "LAUNCH"
      BY <1>10 DEF PC!AskState, PC!Now
    <2>2. \/ PC!Then("execute")
          \/ PC!Fails
          \/ pcWork' = Nil
          \/ pcWork.op = "SHUTDOWN" /\ PC!Then("terminate")
          \/ pcAgent[c] = PC!Leads[pcWork.op] /\ PC!Done
      BY <1>10, <2>1 DEF PC!AskState, PC!LaunchRaises
    <2>3. QED
      BY <1>3, <1>6, <1>7, <1>8, <2>1, <2>2
  <1>11. CASE PC!Verify(c)
    <2>1. PC!Now(c, pcWork.next) /\ pcWork.op # "LAUNCH"
      BY <1>1, <1>11 DEF PC!Verify, PC!Now, Stepped
    <2>2. \/ PC!Fails
          \/ pcWork.op = "SHUTDOWN" /\ PC!Then("terminate")
          \/ (pcWork.op = "INITIALIZE" \/ pcAgent[c] = PC!Leads[pcWork.op] \/ PC!Unchecked(pcWork.op, c)) /\ PC!Done
      BY <1>11, <2>1 DEF PC!Verify
    <2>3. QED
      BY <1>6, <1>7, <1>8, <2>1, <2>2 DEF PC!Unchecked
  <1>12. QED
    BY <1>5, <1>9, <1>10, <1>11

LEMMA StepLaunch ==
  ASSUME PC!ChildAssumption, PC!BoundAssumption, ChildrenInv, NEW c \in PC!Child, PC!Launch(c)
  PROVE  ChildrenInv'
  <1>1. /\ pcWork \in PC!Work /\ pcWork # Nil /\ PC!TypeOK /\ PidsGrow /\ MaxPid \in Nat
        /\ pcWork.child = c /\ pcWork.op = "LAUNCH"
        /\ UNCHANGED <<pcStarted, pcWatched, pcDead, pcSaid, pcValidating, pcValidator>>
    BY DEF PC!Launch, PC!Now, ChildrenInv, PC!TypeOK, PC!events, PC!validation, PC!BoundAssumption
  <1>2. /\ pcAlive' \in [PC!Child -> 0..MaxPid] /\ pcPids' \in [PC!Child -> 0..MaxPid]
           /\ pcAgent' \in [PC!Child -> PC!AgentState]
        /\ \A d \in PC!Child : pcPids[d] <= pcPids'[d] /\ pcAlive'[d] <= pcPids'[d]
    <2>1. CASE UNCHANGED PC!processes
      BY <1>1, <2>1 DEF PC!processes, PC!TypeOK, PidsGrow
    <2>2. CASE PC!Spawned(c)
      BY <2>2, SpawnedPids
    <2>3. QED
      BY <2>1, <2>2 DEF PC!Launch, PC!Found, PC!AwaitedInVain
  <1>3. /\ pcClient' \in [PC!Child -> 0..PC!Invalid]
        /\ \A d \in PC!Child : pcClient'[d] = pcClient[d] \/ pcClient'[d] <= pcPids'[d]
    <2>1. pcClient \in [PC!Child -> 0..PC!Invalid] /\ PC!Invalid = MaxPid + 1
      BY <1>1 DEF PC!TypeOK, PC!Invalid
    <2>2. CASE UNCHANGED pcClient
      BY <2>1, <2>2
    <2>3. CASE PC!Found(c)
      <3>1. pcClient' = [pcClient EXCEPT ![c] = pcAlive[c]] /\ UNCHANGED <<pcAlive, pcPids>>
              /\ pcAlive[c] \in 0..MaxPid
        BY <1>1, <2>3 DEF PC!Found, PC!processes, PC!TypeOK
      <3>2. pcAlive[c] \in 0..PC!Invalid
        BY <1>1, <2>1, <3>1
      <3>3. QED
        BY <1>2, <2>1, <3>1, <3>2
    <2>4. CASE PC!Spawned(c) /\ pcClient' = [pcClient EXCEPT ![c] = pcPids[c] + 1]
      <3>1. pcPids'[c] = pcPids[c] + 1 /\ pcPids'[c] \in 0..MaxPid /\ pcPids[c] \in Nat
        BY <1>2, <2>4, SpawnedPids
      <3>2. pcPids[c] + 1 \in 0..PC!Invalid /\ pcPids[c] + 1 <= pcPids'[c]
        BY <1>1, <2>1, <3>1
      <3>3. QED
        BY <2>1, <2>4, <3>2
    <2>5. QED
      BY <2>2, <2>3, <2>4 DEF PC!Launch, PC!AwaitedInVain
  <1>4. pcWork' \in PC!Work /\ pcWork'.op = "LAUNCH" /\ pcWork'.asked = pcWork.asked
          /\ pcWork'.next \in {"state", "watch"}
    <2>1. pcWork.next = "state"
      BY DEF PC!Launch, PC!Now
    <2>2. pcWork' = [pcWork EXCEPT !.next = "watch"]
            \/ pcWork' = [pcWork EXCEPT !.child = Nil, !.todo = {}]
      BY <1>1 DEF PC!Launch, PC!AwaitedInVain, PC!LaunchRaises, PC!Then
    <2>3. QED
      BY <1>1, <2>1, <2>2 DEF PC!Work
  <1>5. PC!TypeOK'
    BY <1>1, <1>2, <1>3, <1>4 DEF PC!TypeOK
  <1>6. PidsGrow'
    <2>1. ASSUME NEW d \in PC!Child
          PROVE  /\ pcClient'[d] # PC!Invalid => pcClient'[d] <= pcPids'[d]
                 /\ pcValidator[d] # Nil => pcValidator[d].got <= pcPids'[d]
                 /\ pcWork.asked[d] <= pcPids'[d]
      <3>1. /\ pcPids[d] \in Nat /\ pcPids'[d] \in Nat /\ pcPids[d] <= pcPids'[d]
               /\ pcClient[d] \in Int
            /\ pcWork.asked[d] \in Nat
        BY <1>1, <1>2 DEF PC!TypeOK, PC!Invalid, PC!Work
      <3>2. pcClient'[d] # PC!Invalid => pcClient'[d] <= pcPids'[d]
        BY <1>1, <1>3, <3>1 DEF PidsGrow
      <3>3. ASSUME pcValidator[d] # Nil PROVE pcValidator[d].got <= pcPids'[d]
        <4>1. pcValidator[d].got \in Nat /\ pcValidator[d].got <= pcPids[d]
          BY <1>1, <3>3 DEF PidsGrow, PC!TypeOK
        <4>2. QED
          BY <3>1, <4>1
      <3>4. pcWork.asked[d] <= pcPids'[d]
        BY <1>1, <3>1 DEF PidsGrow
      <3>5. QED
        BY <3>2, <3>3, <3>4
    <2>2. QED
      BY <1>1, <1>2, <1>4, <2>1 DEF PidsGrow
  <1>7. WorkSteps' /\ PC!ChildrenFirst'
    BY <1>4 DEF WorkSteps, PC!ChildrenFirst
  <1>8. QED
    BY <1>5, <1>6, <1>7 DEF ChildrenInv

LEMMA StepExecute ==
  ASSUME PC!ChildAssumption, PC!BoundAssumption, ChildrenInv, NEW c \in PC!Child, PC!Execute(c)
  PROVE  ChildrenInv'
  <1>1. /\ pcWork \in PC!Work /\ pcWork # Nil /\ PC!TypeOK /\ PidsGrow /\ pcWork.child = c
           /\ pcWork.op \in PC!Op \ {"LAUNCH"}
        /\ UNCHANGED <<pcStarted, pcAlive, pcPids, pcClient, pcWatched, pcDead, pcSaid,
                       pcValidating, pcValidator>>
    BY DEF PC!Execute, PC!Now, ChildrenInv, WorkSteps, PC!TypeOK, PC!events, PC!validation, PC!Work
  <1>2. pcAgent' \in [PC!Child -> PC!AgentState]
          /\ \A d \in PC!Child \ {c} : pcAgent'[d] = pcAgent[d]
    <2>1. PC!Leads[pcWork.op] \in PC!AgentState
      BY <1>1 DEF PC!Leads, PC!Op, PC!AgentState
    <2>2. QED
      BY <1>1, <2>1 DEF PC!Execute, PC!TypeOK
  <1>3. PICK w \in PC!Work : /\ pcWork' = w /\ w.op = pcWork.op /\ w.asked = pcWork.asked
          /\ w.todo = pcWork.todo
                          /\ w.next \in {"verify", "execute"}
                          /\ \/ w.child = c /\ w.errors = pcWork.errors
                             \/ w.errors = pcWork.errors \cup {c} /\ w.child = Nil
    <2>1. pcWork.next = "execute"
      BY DEF PC!Execute, PC!Now
    <2>2. \/ pcWork' = [pcWork EXCEPT !.next = "verify"]
          \/ pcWork' = [pcWork EXCEPT !.child = Nil, !.errors = pcWork.errors \cup {c}]
      BY <1>1 DEF PC!Execute, PC!Then, PC!Fails, PC!Work
    <2>3. [pcWork EXCEPT !.next = "verify"] \in PC!Work
      BY <1>1 DEF PC!Work
    <2>4. pcWork.errors \cup {c} \subseteq PC!Child
      BY <1>1 DEF PC!Work
    <2>5. [pcWork EXCEPT !.child = Nil, !.errors = pcWork.errors \cup {c}] \in PC!Work
      BY <1>1, <2>4 DEF PC!Work
    <2>6. CASE pcWork' = [pcWork EXCEPT !.next = "verify"]
      BY <1>1, <2>3, <2>6 DEF PC!Work
    <2>7. CASE pcWork' = [pcWork EXCEPT !.child = Nil, !.errors = pcWork.errors \cup {c}]
      BY <1>1, <2>1, <2>5, <2>7 DEF PC!Work
    <2>8. QED
      BY <2>2, <2>6, <2>7
  <1>4. PC!TypeOK'
    BY <1>1, <1>2, <1>3 DEF PC!TypeOK
  <1>5. PidsGrow' /\ WorkSteps'
    BY <1>1, <1>3 DEF PidsGrow, WorkSteps
  <1>6. PC!ChildrenFirst'
    <2>1. ASSUME NEW d \in PC!Child, w.op \in {"GO_INACTIVE", "RESET"}, w.asked[d] # 0,
                 w.asked[d] = pcAlive[d]
          PROVE  d \in w.todo \cup w.errors \/ w.child = d \/ pcAgent'[d] = PC!Leads[w.op]
      <3>1. CASE d = c
        BY <1>3, <3>1
      <3>2. CASE d # c
        <4>1. d \in pcWork.todo \cup pcWork.errors \/ pcWork.child = d
                \/ pcAgent[d] = PC!Leads[pcWork.op]
          BY <1>1, <1>3, <2>1 DEF ChildrenInv, PC!ChildrenFirst
        <4>2. QED
          BY <1>1, <1>2, <1>3, <3>2, <4>1
      <3>3. QED
        BY <3>1, <3>2
    <2>2. QED
      BY <1>1, <1>3, <2>1 DEF PC!ChildrenFirst
  <1>7. QED
    BY <1>4, <1>5, <1>6 DEF ChildrenInv

LEMMA StepTerminate ==
  ASSUME PC!ChildAssumption, PC!BoundAssumption, ChildrenInv, NEW c \in PC!Child, PC!Terminate(c)
  PROVE  ChildrenInv'
  <1>1. /\ pcWork \in PC!Work /\ pcWork # Nil /\ PC!TypeOK /\ PidsGrow /\ pcWork.child = c
           /\ pcWork.op = "SHUTDOWN"
        /\ MaxPid \in Nat
        /\ UNCHANGED <<pcStarted, pcPids, pcAgent, pcClient, pcWatched, pcSaid, pcValidating,
                       pcValidator>>
    BY DEF PC!Terminate, PC!Now, ChildrenInv, WorkSteps, PC!TypeOK, PC!validation,
           PC!BoundAssumption
  <1>2. /\ pcAlive' \in [PC!Child -> 0..MaxPid] /\ \A d \in PC!Child : pcAlive'[d] <= pcPids[d]
        /\ pcDead' \subseteq PC!Child \X (1..MaxPid)
    <2>1. CASE PC!Reached(c) /\ PC!Killed(c)
      <3>1. pcAlive' = [pcAlive EXCEPT ![c] = 0]
              /\ pcDead' \subseteq pcDead \cup (IF pcAlive[c] \in pcWatched[c] THEN {<<c,
                                                           pcAlive[c]>>} ELSE {})
        BY <2>1 DEF PC!Killed
      <3>2. pcWatched[c] \subseteq 1..MaxPid /\ 0 \in 0..MaxPid
        BY <1>1 DEF PC!TypeOK
      <3>3. QED
        BY <1>1, <3>1, <3>2 DEF PC!TypeOK, PidsGrow
    <2>2. CASE UNCHANGED <<pcAlive, pcDead>>
      BY <1>1, <2>2 DEF PC!TypeOK, PidsGrow
    <2>3. QED
      BY <2>1, <2>2 DEF PC!Terminate
  <1>3. pcWork' \in PC!Work /\ pcWork'.op = pcWork.op /\ pcWork'.asked = pcWork.asked
          /\ pcWork'.next = pcWork.next
    <2>1. \/ pcWork' = [pcWork EXCEPT !.child = Nil]
          \/ pcWork' = [pcWork EXCEPT !.child = Nil, !.errors = pcWork.errors \cup {c}]
      BY <1>1 DEF PC!Terminate, PC!NotTerminated, PC!Done, PC!Fails, PC!Work
    <2>2. pcWork.errors \cup {c} \subseteq PC!Child
      BY <1>1 DEF PC!Work
    <2>3. CASE pcWork' = [pcWork EXCEPT !.child = Nil]
      BY <1>1, <2>3 DEF PC!Work
    <2>4. CASE pcWork' = [pcWork EXCEPT !.child = Nil, !.errors = pcWork.errors \cup {c}]
      BY <1>1, <2>2, <2>4 DEF PC!Work
    <2>5. QED
      BY <2>1, <2>3, <2>4
  <1>4. PC!TypeOK'
    BY <1>1, <1>2, <1>3 DEF PC!TypeOK
  <1>5. PidsGrow' /\ WorkSteps' /\ PC!ChildrenFirst'
    BY <1>1, <1>2, <1>3 DEF ChildrenInv, PidsGrow, WorkSteps, PC!ChildrenFirst
  <1>6. QED
    BY <1>4, <1>5 DEF ChildrenInv

LEMMA StepChildrenInv ==
  ASSUME PC!ChildAssumption, PC!BoundAssumption, ChildrenInv, [PC!Next]_(PC!vars)
  PROVE  ChildrenInv'
  <1>1. CASE UNCHANGED PC!vars
    BY <1>1 DEF PC!vars, PC!processes, PC!events, PC!validation, ChildrenInv, PC!TypeOK, PidsGrow,
       WorkSteps, PC!ChildrenFirst
  <1>2. ASSUME NEW c \in PC!Child, PC!Step(c) PROVE ChildrenInv'
    BY <1>2, StepAsk, StepLaunch, StepExecute, StepTerminate DEF PC!Step
  <1>3. ASSUME NEW c \in PC!Child, PC!ChildTells(c) \/ PC!ChildRunning(c) \/ PC!ValidatorLooks(c)
               \/ PC!ValidatorStores(c)
        PROVE  ChildrenInv'
    <2>1. 1 \in 1..MaxPid
      BY DEF PC!BoundAssumption
    <2>2. QED
      BY <1>3, <2>1, StepEvents
  <1>4. CASE PC!Next
    BY <1>2, <1>3, <1>4, StepGroup, StepProcess, StepEvents DEF PC!Next
  <1>5. QED
    BY <1>1, <1>4

LEMMA ChildrenInvariant == PC!Spec => []ChildrenInv
  <1>1. ChildrenInv /\ [PC!Next]_(PC!vars) => ChildrenInv'
    BY SuiteAssumption, StepChildrenInv
  <1>2. PC!ChildAssumption /\ PC!BoundAssumption
    BY SuiteAssumption
  <1>3. QED
    BY InitChildren, <1>1, <1>2, PTL DEF PC!Spec

(* The children's processes, agents, clients and validations, and the      *)
(* command that goes through them, are always of their kind                *)
(* (platform_agent.py).                                                    *)
THEOREM ChildrenTypeCorrect == PC!Spec => []PC!TypeOK
  BY ChildrenInvariant, PTL DEF ChildrenInv

(* A platform that goes inactive or resets comes after its children: each  *)
(* that its command went through without an error, and whose process is    *)
(* the same, is in the state the command leads to. For any number of       *)
(* instruments, sub-platforms, deaths, restarts and validations.           *)
THEOREM ChildrenComeFirst == PC!Spec => []ChildrenFirst
  <1>1. ChildrenInv => ChildrenFirst
    BY DEF ChildrenInv, ChildrenFirst
  <1>2. QED
    BY ChildrenInvariant, <1>1, PTL
===============================================================================
