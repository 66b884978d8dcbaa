--------------------------- MODULE QueueOpsProofs ---------------------------
(***************************************************************************)
(* What appending, popping the head and taking elements off do to the      *)
(* elements of a queue and to its being free of duplicates.                *)
(***************************************************************************)
EXTENDS QueueOps, SequenceTheorems, TLAPS

(* enqueue: the head of a non-empty queue and its elements survive.        *)
LEMMA AppendFacts ==
  ASSUME NEW S, NEW s \in Seq(S), NEW e \in S
  PROVE  /\ Append(s, e) \in Seq(S)
         /\ Append(s, e) # <<>>
         /\ s # <<>> => Head(Append(s, e)) = Head(s)
         /\ Range(Append(s, e)) = Range(s) \cup {e}
         /\ IsInjective(s) /\ e \notin Range(s) => IsInjective(Append(s, e))
<1>1. /\ Append(s, e) \in Seq(S) /\ Append(s, e) # <<>>
      /\ Len(Append(s, e)) = Len(s) + 1
      /\ \A i \in 1..Len(s) : Append(s, e)[i] = s[i]
      /\ Append(s, e)[Len(s) + 1] = e
  BY AppendProperties
<1>2. Len(s) \in Nat /\ DOMAIN s = 1..Len(s) /\ DOMAIN Append(s, e) = 1..(Len(s) + 1)
  BY <1>1
<1>3. Range(Append(s, e)) = Range(s) \cup {e}
  <2>1. Range(Append(s, e)) \subseteq Range(s) \cup {e}
    BY <1>1, <1>2 DEF Range
  <2>2. Range(s) \cup {e} \subseteq Range(Append(s, e))
    BY <1>1, <1>2 DEF Range
  <2>3. QED
    BY <2>1, <2>2
<1>4. s # <<>> => Head(Append(s, e)) = Head(s)
  BY <1>1, <1>2
<1>5. ASSUME IsInjective(s), e \notin Range(s) PROVE IsInjective(Append(s, e))
  <2>1. \A i \in 1..Len(s) : s[i] # e
    BY <1>2, <1>5 DEF Range
  <2>2. \A i, j \in 1..Len(s) : s[i] = s[j] => i = j
    BY <1>2, <1>5 DEF IsInjective
  <2>3. QED
    BY <1>1, <1>2, <2>1, <2>2 DEF IsInjective
<1>6. QED
  BY <1>1, <1>3, <1>4, <1>5

(* The ack: pop(0) takes off the head and nothing else.                    *)
LEMMA TailFacts ==
  ASSUME NEW S, NEW s \in Seq(S), s # <<>>
  PROVE  /\ Head(s) \in S /\ Tail(s) \in Seq(S)
         /\ Range(s) = Range(Tail(s)) \cup {Head(s)}
         /\ IsInjective(s) => IsInjective(Tail(s)) /\ Head(s) \notin Range(Tail(s))
<1>1. /\ Head(s) = s[1] /\ Head(s) \in S /\ Tail(s) \in Seq(S)
      /\ Len(s) \in Nat \ {0} /\ Len(Tail(s)) = Len(s) - 1
      /\ \A i \in 1..Len(Tail(s)) : Tail(s)[i] = s[i + 1]
  BY HeadTailProperties, EmptySeq
<1>2. DOMAIN s = 1..Len(s) /\ DOMAIN Tail(s) = 1..(Len(s) - 1)
  BY <1>1
<1>3. Range(s) = Range(Tail(s)) \cup {Head(s)}
  <2>1. ASSUME NEW i \in 1..Len(s) PROVE s[i] \in Range(Tail(s)) \cup {Head(s)}
    <3>1. CASE i = 1
      BY <1>1, <3>1
    <3>2. CASE i # 1
      <4>1. i - 1 \in 1..Len(Tail(s)) /\ Tail(s)[i - 1] = s[i]
        BY <1>1, <3>2
      <4>2. QED
        BY <1>1, <1>2, <4>1 DEF Range
    <3>3. QED
      BY <3>1, <3>2
  <2>2. Range(Tail(s)) \cup {Head(s)} \subseteq Range(s)
    BY <1>1, <1>2 DEF Range
  <2>3. QED
    BY <1>2, <2>1, <2>2 DEF Range
<1>4. ASSUME IsInjective(s) PROVE IsInjective(Tail(s)) /\ Head(s) \notin Range(Tail(s))
  <2>1. \A i, j \in 1..Len(s) : s[i] = s[j] => i = j
    BY <1>2, <1>4 DEF IsInjective
  <2>2. QED
    BY <1>1, <1>2, <2>1 DEF IsInjective, Range
<1>5. QED
  BY <1>1, <1>3, <1>4

(* clear_queue, pop_queue: what is not selected stays.                     *)
LEMMA WithoutFacts ==
  ASSUME NEW C, NEW q \in Seq(C), NEW S, NEW r \in Without(q, S)
  PROVE  /\ r \in Seq(C)
         /\ Range(r) = Range(q) \ S
         /\ IsInjective(q) => IsInjective(r)
<1>1. PICK n \in 0..Len(q) : r \in [1..n -> Range(q)]
  BY DEF Without, SubLists
<1>2. /\ Range(q) \subseteq C /\ DOMAIN q = 1..Len(q) /\ Len(q) \in Nat
  BY DEF Range
<1>3. r \in Seq(C) /\ DOMAIN r = 1..Len(r) /\ Len(r) = n
  BY <1>1, <1>2
<1>4. PICK f \in [1..Len(r) -> 1..Len(q)] :
        /\ \A i, j \in 1..Len(r) : i < j => f[i] < f[j]
        /\ {f[i] : i \in 1..Len(r)} = {k \in 1..Len(q) : q[k] \notin S}
        /\ \A i \in 1..Len(r) : r[i] = q[f[i]]
  BY DEF Without, IsWithout
<1>5. Range(r) = Range(q) \ S
  <2>1. ASSUME NEW i \in 1..Len(r) PROVE r[i] \in Range(q) \ S
    BY <1>2, <1>4 DEF Range
  <2>2. ASSUME NEW k \in 1..Len(q), q[k] \notin S PROVE q[k] \in Range(r)
    <3>1. PICK i \in 1..Len(r) : f[i] = k
      BY <1>4, <2>2
    <3>2. QED
      BY <1>3, <1>4, <3>1 DEF Range
  <2>3. QED
    BY <1>2, <1>3, <2>1, <2>2 DEF Range
<1>6. ASSUME IsInjective(q) PROVE IsInjective(r)
  <2>1. ASSUME NEW i \in 1..Len(r), NEW j \in 1..Len(r), r[i] = r[j] PROVE i = j
    <3>1. f[i] = f[j] /\ f[i] \in 1..Len(q)
      BY <1>2, <1>4, <1>6, <2>1 DEF IsInjective
    <3>2. f[i] \in Nat /\ i \in Nat /\ j \in Nat
      BY <1>1, <1>2, <1>3, <3>1
    <3>3. QED
      BY <1>4, <3>1, <3>2
  <2>2. QED
    BY <1>3, <2>1 DEF IsInjective
<1>7. QED
  BY <1>3, <1>5, <1>6
=============================================================================
