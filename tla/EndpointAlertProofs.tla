------------------------- MODULE EndpointAlertProofs --------------------------
(***************************************************************************)
(* The remote endpoint, for every set of commands, resources and greenlets *)
(* and any number of requests; and the alerts of an agent, for every set   *)
(* of alerts that have one aggregate type, and any number of failures.     *)
(***************************************************************************)
EXTENDS MCLiveness, Integers, FunctionTheorems, SequenceTheorems, FiniteSetTheorems, WellFoundedInduction, TLAPS

-----------------------------------------------------------------------------
(* The remote endpoint                                                     *)


(* The endpoint counts with its own copy of FiniteSets.                    *)
LEMMA EndpointCardinality == \A S : RE!Cardinality(S) = Cardinality(S)
<1>1. \A S : RE!IsFiniteSet(S) = IsFiniteSet(S)
  BY DEF RE!IsFiniteSet, IsFiniteSet
<1>2. QED
  BY <1>1 DEF RE!Cardinality, Cardinality

Worked == [res : Res \cup {Nil}, queue : Seq(ReCmd), cmd : ReCmd \cup {Nil}]

(* The part of TypeOK that the order of commands rests on.                 *)
QueuesOK ==
  /\ reServer \in {"none", "free", "lookup"} /\ reRequest \in ReCmd \cup {Nil}
  /\ reServices \in [Res -> Worker \cup {Nil}] /\ reWorker \in [Worker -> Worked]
  /\ reAccepted \in [Res -> Seq(ReCmd)] /\ reStarted \in [Res -> Seq(ReCmd)]

(* A resource that is looked up has no greenlet.                           *)
LookupInv == reServer = "lookup" => reRequest \in ReCmd /\ reServices[Target[reRequest]] = Nil

(* A greenlet is the one of its resource, and a resource's greenlet works  *)
(* for it.                                                                 *)
OwnerInv ==
  /\ \A w \in Worker : reWorker[w].res # Nil => reServices[reWorker[w].res] = w
  /\ \A w \in Worker : reWorker[w].res = Nil => reWorker[w].queue = <<>> /\ reWorker[w].cmd = Nil
  /\ \A r \in Res : reServices[r] # Nil => reWorker[reServices[r]].res = r

(* What a resource has been asked is what has been started and what waits. *)
QueueOf(r) == IF reServices[r] = Nil THEN <<>> ELSE reWorker[reServices[r]].queue
OrderInv == \A r \in Res : reAccepted[r] = reStarted[r] \o QueueOf(r)

RInv == QueuesOK /\ LookupInv /\ OwnerInv /\ OrderInv

LEMMA TakenFromQueue ==
  ASSUME NEW S, NEW s \in Seq(S), NEW q \in Seq(S), q # <<>>
  PROVE  /\ Head(q) \in S /\ Tail(q) \in Seq(S) /\ Append(s, Head(q)) \in Seq(S)
         /\ Append(s, Head(q)) \o Tail(q) = s \o q
<1>1. Head(q) \in S /\ Tail(q) \in Seq(S) /\ q = <<Head(q)>> \o Tail(q)
  BY HeadTailProperties
<1>2. Append(s, Head(q)) = s \o <<Head(q)>> /\ <<Head(q)>> \in Seq(S)
  BY <1>1, AppendIsConcat
<1>3. (s \o <<Head(q)>>) \o Tail(q) = s \o (<<Head(q)>> \o Tail(q))
  BY <1>1, <1>2, ConcatAssociative
<1>4. QED
  BY <1>1, <1>2, <1>3

LEMMA PutOnQueue ==
  ASSUME NEW S, NEW s \in Seq(S), NEW q \in Seq(S), NEW e \in S
  PROVE  Append(q, e) \in Seq(S) /\ Append(s \o q, e) = s \o Append(q, e)
<1>1. <<e>> \in Seq(S) /\ s \o q \in Seq(S)
  OBVIOUS
<1>2. Append(q, e) = q \o <<e>> /\ Append(s \o q, e) = (s \o q) \o <<e>>
  BY <1>1, AppendIsConcat
<1>3. (s \o q) \o <<e>> = s \o (q \o <<e>>)
  BY <1>1, ConcatAssociative
<1>4. QED
  BY <1>2, <1>3

LEMMA EmptyQueues == <<>> \o <<>> = <<>>
  BY ConcatEmptySeq

LEMMA InitRInv == RE!Init => RInv
<1> SUFFICES ASSUME RE!Init PROVE RInv
  OBVIOUS
<1>1. QueuesOK
  BY DEF RE!Init, QueuesOK, Worked, RE!NoWorker, RE!Empty
<1>2. \A r \in Res : reAccepted[r] = <<>> /\ reStarted[r] = <<>> /\ QueueOf(r) = <<>>
  BY DEF RE!Init, RE!Empty, QueueOf
<1>3. OrderInv
  BY <1>2, EmptyQueues DEF OrderInv
<1>4. QED
  BY <1>1, <1>3 DEF RE!Init, RInv, LookupInv, OwnerInv, RE!NoWorker

(* A command on the queue of a resource that has a greenlet.               *)
LEMMA InsertRInv ==
  ASSUME RE!TargetAssumption, RE!NilAssumption, QueuesOK, OwnerInv, OrderInv, NEW c \in ReCmd,
         NEW w \in Worker,
         reServices[Target[c]] = w, RE!Insert(reWorker, w, c), UNCHANGED <<reServices, reStarted>>
  PROVE  /\ reWorker' \in [Worker -> Worked] /\ reAccepted' \in [Res -> Seq(ReCmd)]
         /\ OwnerInv' /\ OrderInv'
<1> DEFINE r == Target[c]
<1>1. r \in Res /\ reWorker[w].res = r /\ w # Nil /\ reWorker[w] \in Worked
        /\ reWorker[w].queue \in Seq(ReCmd)
  BY DEF RE!TargetAssumption, RE!NilAssumption, OwnerInv, QueuesOK, Worked
<1>2. /\ reWorker' = [reWorker EXCEPT ![w].queue = Append(@, c)]
      /\ reAccepted' = [reAccepted EXCEPT ![r] = Append(@, c)]
  BY DEF RE!Insert
<1>3. Append(reWorker[w].queue, c) \in Seq(ReCmd) /\ Append(reAccepted[r], c) \in Seq(ReCmd)
  BY <1>1, PutOnQueue DEF QueuesOK
<1>4. reWorker' \in [Worker -> Worked] /\ reAccepted' \in [Res -> Seq(ReCmd)]
  BY <1>1, <1>2, <1>3 DEF QueuesOK, Worked
<1>5. \A v \in Worker : /\ reWorker'[v].res = reWorker[v].res /\ reWorker'[v].cmd = reWorker[v].cmd
                        /\ reWorker'[v].queue = IF v = w THEN Append(reWorker[w].queue,
                                     c) ELSE reWorker[v].queue
  BY <1>1, <1>2 DEF QueuesOK, Worked
<1>6. OwnerInv'
  <2>1. \A x \in Res : reServices[x] # Nil => reServices[x] \in Worker
    BY DEF QueuesOK
  <2>2. QED
    BY <1>1, <1>5, <2>1, RE!NilAssumption DEF OwnerInv, RE!NilAssumption
<1>7. OrderInv'
  <2>1. ASSUME NEW x \in Res PROVE (reAccepted[x] = reStarted[x] \o QueueOf(x))'
    <3>1. CASE x = r
      <4>1. QueueOf(x)' = Append(reWorker[w].queue, c) /\ QueueOf(x) = reWorker[w].queue
        BY <1>1, <1>5, <3>1 DEF QueueOf
      <4>2. reAccepted[r] = reStarted[r] \o reWorker[w].queue /\ reStarted[r] \in Seq(ReCmd)
        BY <1>1, <3>1, <4>1 DEF OrderInv, QueuesOK
      <4>3. reAccepted'[r] = Append(reAccepted[r], c)
        BY <1>1, <1>2 DEF QueuesOK
      <4>4. Append(reStarted[r] \o reWorker[w].queue, c)
                = reStarted[r] \o Append(reWorker[w].queue, c)
        <5> DEFINE a == reStarted[r]
                   b == reWorker[w].queue
        <5>1. a \in Seq(ReCmd) /\ b \in Seq(ReCmd)
          BY <1>1, <4>2
        <5> HIDE DEF a, b
        <5>2. Append(a \o b, c) = a \o Append(b, c)
          <6>1. <<c>> \in Seq(ReCmd) /\ a \o b \in Seq(ReCmd)
            BY <5>1
          <6>2. Append(b, c) = b \o <<c>> /\ Append(a \o b, c) = (a \o b) \o <<c>>
            BY <5>1, <6>1, AppendIsConcat
          <6>3. (a \o b) \o <<c>> = a \o (b \o <<c>>)
            BY <5>1, <6>1, ConcatAssociative
          <6>4. QED
            BY <6>2, <6>3
        <5>3. QED
          BY <5>2 DEF a, b
      <4>5. QED
        BY <3>1, <4>1, <4>2, <4>3, <4>4
    <3>2. CASE x # r
      <4>1. reAccepted'[x] = reAccepted[x]
        BY <1>1, <1>2, <3>2 DEF QueuesOK
      <4>2. reServices[x] # w
        BY <1>1, <3>2 DEF OwnerInv
      <4>3. QueueOf(x)' = QueueOf(x)
        BY <1>5, <4>2 DEF QueueOf, QueuesOK
      <4>4. QED
        BY <4>1, <4>3 DEF OrderInv
    <3>3. QED
      BY <3>1, <3>2
  <2>2. QED
    BY <2>1 DEF OrderInv
<1>8. QED
  BY <1>4, <1>6, <1>7

LEMMA RequestRInv ==
  ASSUME RE!TargetAssumption, RE!NilAssumption, RInv, NEW c \in ReCmd, RE!Request(c) PROVE RInv'
<1> DEFINE w == reServices[Target[c]]
<1>1. UNCHANGED <<reServices, reStarted>> /\ reServer = "free" /\ Target[c] \in Res
  BY DEF RE!Request, RE!TargetAssumption
<1>2. CASE w # Nil /\ RE!Insert(reWorker, w, c) /\ UNCHANGED <<reServer, reRequest>>
  <2>1. w \in Worker
    BY <1>1, <1>2 DEF RInv, QueuesOK
  <2>2. QED
    BY <1>1, <1>2, <2>1, InsertRInv DEF RInv, QueuesOK, LookupInv
<1>3. CASE w = Nil /\ reServer' = "lookup" /\ reRequest' = c /\ UNCHANGED <<reWorker, reAccepted>>
  BY <1>1, <1>3 DEF RInv, QueuesOK, LookupInv, OwnerInv, OrderInv, QueueOf
<1>4. QED
  BY <1>2, <1>3 DEF RE!Request

(* The new greenlet of a resource: the one it did not have.                *)
LEMMA FoundRInv ==
  ASSUME RE!TargetAssumption, RE!NilAssumption, RInv, RE!LookupFound PROVE RInv'
<1> DEFINE r == Target[reRequest]
<1>1. PICK w \in Worker :
        /\ reWorker[w] = RE!NoWorker
        /\ reServices' = [reServices EXCEPT ![r] = w]
        /\ RE!Insert([reWorker EXCEPT ![w].res = r], w, reRequest)
  BY DEF RE!LookupFound
<1>2. /\ reRequest \in ReCmd /\ r \in Res /\ reServices[r] = Nil /\ w # Nil
      /\ reServer' = "free" /\ reRequest' = Nil /\ reStarted' = reStarted
  BY DEF RE!LookupFound, RInv, LookupInv, RE!TargetAssumption, RE!NilAssumption
<1>3. /\ reWorker[w].res = Nil /\ reWorker[w].queue = <<>> /\ reWorker[w].cmd = Nil
         /\ reWorker[w] \in Worked
  BY <1>1 DEF RE!NoWorker, RInv, QueuesOK
<1>4. /\ reWorker' = [[reWorker EXCEPT ![w].res = r] EXCEPT ![w].queue = Append(@, reRequest)]
      /\ reAccepted' = [reAccepted EXCEPT ![r] = Append(@, reRequest)]
  BY <1>1 DEF RE!Insert
<1>5. /\ \A v \in Worker : v # w => reWorker'[v] = reWorker[v]
      /\ reWorker'[w].res = r /\ reWorker'[w].cmd = Nil
           /\ reWorker'[w].queue = Append(<<>>, reRequest)
      /\ reWorker' \in [Worker -> Worked]
  <2> DEFINE ws == [reWorker EXCEPT ![w].res = r]
  <2>1. /\ ws \in [Worker -> Worked] /\ ws[w].res = r /\ ws[w].queue = <<>> /\ ws[w].cmd = Nil
        /\ \A v \in Worker : v # w => ws[v] = reWorker[v]
    BY <1>2, <1>3 DEF RInv, QueuesOK, Worked
  <2>2. Append(<<>>, reRequest) \in Seq(ReCmd)
    BY <1>2
  <2>3. reWorker' = [ws EXCEPT ![w].queue = Append(@, reRequest)]
    BY <1>4
  <2> HIDE DEF ws
  <2>4. QED
    BY <2>1, <2>2, <2>3 DEF Worked
<1>6. reServices' \in [Res -> Worker \cup {Nil}]
        /\ \A x \in Res : reServices'[x] = IF x = r THEN w ELSE reServices[x]
  BY <1>1, <1>2 DEF RInv, QueuesOK
<1>7. Append(reAccepted[r], reRequest) \in Seq(ReCmd)
      /\ reAccepted'[r] = Append(reAccepted[r], reRequest)
      /\ reAccepted' \in [Res -> Seq(ReCmd)] /\ \A x \in Res : x # r
           => reAccepted'[x] = reAccepted[x]
  <2>1. reAccepted[r] \in Seq(ReCmd)
    BY <1>2 DEF RInv, QueuesOK
  <2>2. Append(reAccepted[r], reRequest) \in Seq(ReCmd)
    BY <1>2, <2>1
  <2>3. QED
    BY <1>2, <1>4, <2>2 DEF RInv, QueuesOK
<1>8. \A x \in Res : reServices[x] # w
  BY <1>2, <1>3, RE!NilAssumption DEF RInv, OwnerInv, RE!NilAssumption
<1>9. OwnerInv'
  <2>1. \A v \in Worker : v # w /\ reWorker[v].res # Nil => reWorker[v].res \in Res
        /\ reWorker[v].res # r
    BY <1>2, RE!NilAssumption DEF RInv, OwnerInv, QueuesOK, Worked, RE!NilAssumption
  <2>2. \A v \in Worker : reWorker'[v].res # Nil => reServices'[reWorker'[v].res] = v
    BY <1>2, <1>5, <1>6, <2>1 DEF RInv, OwnerInv
  <2>3. \A v \in Worker : reWorker'[v].res = Nil => reWorker'[v].queue = <<>>
        /\ reWorker'[v].cmd = Nil
    BY <1>2, <1>5, RE!NilAssumption DEF RInv, OwnerInv, RE!NilAssumption
  <2>4. \A x \in Res : reServices'[x] # Nil => reWorker'[reServices'[x]].res = x
    <3>1. \A x \in Res : reServices[x] # Nil => reServices[x] \in Worker
      BY DEF RInv, QueuesOK
    <3>2. QED
      BY <1>5, <1>6, <1>8, <3>1 DEF RInv, OwnerInv
  <2>5. QED
    BY <2>2, <2>3, <2>4 DEF OwnerInv
<1>10. OrderInv'
  <2>1. ASSUME NEW x \in Res PROVE (reAccepted[x] = reStarted[x] \o QueueOf(x))'
    <3>1. CASE x = r
      <4>1. QueueOf(x)' = Append(<<>>, reRequest) /\ QueueOf(x) = <<>>
        BY <1>2, <1>5, <1>6, <3>1 DEF QueueOf
      <4>2. reAccepted[r] = reStarted[r] \o <<>> /\ reStarted[r] \in Seq(ReCmd)
        BY <1>2, <3>1, <4>1 DEF RInv, OrderInv, QueuesOK
      <4>3. Append(reStarted[r] \o <<>>, reRequest) = reStarted[r] \o Append(<<>>, reRequest)
        BY <1>2, <4>2, PutOnQueue
      <4>4. QED
        BY <1>2, <1>7, <3>1, <4>1, <4>2, <4>3
    <3>2. CASE x # r
      <4>1. QueueOf(x)' = QueueOf(x)
        BY <1>5, <1>6, <1>8, <3>2 DEF QueueOf, RInv, QueuesOK
      <4>2. QED
        BY <1>2, <1>7, <3>2, <4>1 DEF RInv, OrderInv
    <3>3. QED
      BY <3>1, <3>2
  <2>2. QED
    BY <2>1 DEF OrderInv
<1>11. QED
  BY <1>2, <1>5, <1>6, <1>7, <1>9, <1>10 DEF RInv, QueuesOK, LookupInv

(* The command taken off the queue is the next one started.                *)
LEMMA TakeRInv ==
  ASSUME RE!NilAssumption, RInv, NEW w \in Worker, RE!Take(w) PROVE RInv'
<1> DEFINE q == reWorker[w].queue
           r == reWorker[w].res
<1>1. /\ q # <<>> /\ q \in Seq(ReCmd) /\ reWorker[w] \in Worked /\ r \in Res /\ reServices[r] = w
         /\ w # Nil
  BY DEF RE!Take, RInv, QueuesOK, OwnerInv, Worked, RE!NilAssumption
<1>2. /\ reWorker' = [reWorker EXCEPT ![w].queue = Tail(@), ![w].cmd = Head(q)]
      /\ reStarted' = [reStarted EXCEPT ![r] = Append(@, Head(q))]
      /\ UNCHANGED <<reServer, reRequest, reServices, reAccepted>>
  BY DEF RE!Take
<1>3. /\ reStarted[r] \in Seq(ReCmd) /\ Head(q) \in ReCmd /\ Tail(q) \in Seq(ReCmd)
      /\ Append(reStarted[r], Head(q)) \in Seq(ReCmd)
      /\ Append(reStarted[r], Head(q)) \o Tail(q) = reStarted[r] \o q
  <2>1. reStarted[r] \in Seq(ReCmd)
    BY <1>1 DEF RInv, QueuesOK
  <2>2. QED
    BY <1>1, <2>1, TakenFromQueue
<1>4. /\ reWorker' \in [Worker -> Worked] /\ \A v \in Worker : v # w => reWorker'[v] = reWorker[v]
      /\ reWorker'[w].res = r /\ reWorker'[w].queue = Tail(q)
  BY <1>1, <1>2, <1>3 DEF RInv, QueuesOK, Worked
<1>5. /\ reStarted' \in [Res -> Seq(ReCmd)] /\ reStarted'[r] = Append(reStarted[r], Head(q))
      /\ \A x \in Res : x # r => reStarted'[x] = reStarted[x]
  BY <1>1, <1>2, <1>3 DEF RInv, QueuesOK
<1>6. QueuesOK' /\ LookupInv'
  BY <1>2, <1>4, <1>5 DEF RInv, QueuesOK, LookupInv
<1>7. OwnerInv'
  BY <1>1, <1>2, <1>4, RE!NilAssumption DEF RInv, QueuesOK, OwnerInv, RE!NilAssumption
<1>8. OrderInv'
  <2>1. ASSUME NEW x \in Res PROVE (reAccepted[x] = reStarted[x] \o QueueOf(x))'
    <3>1. CASE x = r
      <4>1. QueueOf(x)' = Tail(q) /\ QueueOf(x) = q
        BY <1>1, <1>2, <1>4, <3>1 DEF QueueOf
      <4>2. QED
        BY <1>1, <1>2, <1>3, <1>5, <3>1, <4>1 DEF RInv, OrderInv
    <3>2. CASE x # r
      <4>1. reServices[x] # w
        BY <1>1, <3>2 DEF RInv, OwnerInv
      <4>2. QueueOf(x)' = QueueOf(x)
        BY <1>2, <1>4, <4>1 DEF QueueOf, RInv, QueuesOK
      <4>3. QED
        BY <1>2, <1>5, <3>2, <4>2 DEF RInv, OrderInv
    <3>3. QED
      BY <3>1, <3>2
  <2>2. QED
    BY <2>1 DEF OrderInv
<1>9. QED
  BY <1>6, <1>7, <1>8 DEF RInv

LEMMA FinishRInv ==
  ASSUME RE!NilAssumption, RInv, NEW w \in Worker, RE!Finish(w) PROVE RInv'
<1>1. /\ reWorker' = [reWorker EXCEPT ![w].cmd = Nil] /\ reWorker[w] \in Worked
      /\ UNCHANGED <<reServer, reRequest, reServices, reAccepted, reStarted>>
  BY DEF RE!Finish, RE!orders, RInv, QueuesOK
<1>2. /\ reWorker' \in [Worker -> Worked]
      /\ \A v \in Worker : reWorker'[v].res = reWorker[v].res
           /\ reWorker'[v].queue = reWorker[v].queue
      /\ \A v \in Worker : reWorker'[v].cmd = reWorker[v].cmd \/ reWorker'[v].cmd = Nil
  BY <1>1 DEF RInv, QueuesOK, Worked
<1>3. QED
  BY <1>1, <1>2 DEF RInv, QueuesOK, LookupInv, OwnerInv, OrderInv, QueueOf

LEMMA StepRInv ==
  ASSUME RE!TargetAssumption, RE!NilAssumption, RInv, [RE!Next]_(RE!vars) PROVE RInv'
<1> USE DEF RE!queues, RE!orders, RE!counts
<1>1. CASE RE!LookupNotFound \/ RE!LookupRaises \/ RE!Acknowledge \/ RE!Link \/ RE!Start
        \/ RE!StopSockets \/ UNCHANGED RE!vars
  BY <1>1 DEF RE!LookupNotFound, RE!LookupRaises, RE!Acknowledge, RE!Link, RE!Start,
     RE!StopSockets, RE!vars,
              RInv, QueuesOK, LookupInv, OwnerInv, OrderInv, QueueOf
<1>2. CASE RE!StopQueues
  <2>1. QueuesOK'
    BY <1>2 DEF RE!StopQueues, QueuesOK, Worked, RE!NoWorker, RE!Empty
  <2>2. \A r \in Res : reAccepted'[r] = <<>> /\ reStarted'[r] = <<>> /\ QueueOf(r)' = <<>>
    BY <1>2 DEF RE!StopQueues, RE!Empty, QueueOf
  <2>3. OrderInv'
    BY <2>2, EmptyQueues DEF OrderInv
  <2>4. QED
    BY <1>2, <2>1, <2>3 DEF RE!StopQueues, RInv, LookupInv, OwnerInv, RE!NoWorker
<1>3. QED
  BY <1>1, <1>2, RequestRInv, FoundRInv, TakeRInv, FinishRInv DEF RE!Next, RE!Server

LEMMA Invariant ==
  ASSUME RE!TargetAssumption, RE!NilAssumption PROVE RE!Spec => []RInv
<1>1. RInv /\ [RE!Next]_(RE!vars) => RInv'
  BY StepRInv
<1>2. QED
  BY <1>1, InitRInv, PTL DEF RE!Spec

(* Each resource's commands are executed one at a time in the order of     *)
(* their requests, however look-ups, links and executions interleave.      *)
THEOREM OneCommandAtATime == RE!Spec => []SerialPerResource
<1>1. ASSUME RInv, NEW r \in Res PROVE RE!IsPrefix(reStarted[r], reAccepted[r])
  <2>1. reStarted[r] \in Seq(ReCmd) /\ QueueOf(r) \in Seq(ReCmd)
    BY <1>1 DEF RInv, QueuesOK, QueueOf, Worked
  <2>2. reAccepted[r] = reStarted[r] \o QueueOf(r)
    BY <1>1 DEF RInv, OrderInv
  <2>3. /\ Len(reStarted[r]) \in Nat /\ Len(QueueOf(r)) \in Nat
        /\ Len(reStarted[r] \o QueueOf(r)) = Len(reStarted[r]) + Len(QueueOf(r))
        /\ SubSeq(reStarted[r], 1, Len(reStarted[r])) = reStarted[r]
    BY <2>1, SubSeqFull
  <2>4. SubSeq(reStarted[r] \o QueueOf(r), 1, Len(reStarted[r])) = reStarted[r]
    BY <2>1, <2>3, SubSeqOfConcat1
  <2>5. QED
    BY <2>2, <2>3, <2>4 DEF RE!IsPrefix
<1>2. ASSUME RInv, NEW r \in Res
      PROVE  Cardinality({w \in Worker : reWorker[w].res = r /\ reWorker[w].cmd # Nil}) <= 1
  <2> DEFINE W == {w \in Worker : reWorker[w].res = r /\ reWorker[w].cmd # Nil}
  <2>1. W \subseteq {reServices[r]}
    BY <1>2, SuiteAssumption DEF RInv, OwnerInv, RE!NilAssumption
  <2>2. IsFiniteSet({reServices[r]}) /\ Cardinality({reServices[r]}) = 1
    BY FS_Singleton
  <2>3. QED
    BY <2>1, <2>2, FS_Subset
<1>3. RInv => SerialPerResource
  BY <1>1, <1>2, EndpointCardinality DEF SerialPerResource, RE!SerialPerResource
<1>4. RE!TargetAssumption /\ RE!NilAssumption
  BY SuiteAssumption
<1>5. QED
  BY <1>3, <1>4, Invariant, PTL
(* Where a command waits, when a queue grows and when its head is taken.   *)
LEMMA InPlaces ==
  ASSUME NEW q \in [Worker -> Seq(ReCmd)], NEW c
  PROVE  /\ \A v, i : <<v, i>> \in RE!Places(q, c) <=> v \in Worker /\ i \in 1..Len(q[v])
            /\ q[v][i] = c
         /\ \A p \in RE!Places(q, c) : p = <<p[1], p[2]>>
<1>1. \A v \in Worker : DOMAIN q[v] = 1..Len(q[v])
  OBVIOUS
<1>2. QED
  BY <1>1 DEF RE!Places

Grows(q, f, w, e) == f[w] = Append(q[w], e) /\ \A v \in Worker : v # w => f[v] = q[v]

LEMMA AppendPlaces ==
  ASSUME NEW q \in [Worker -> Seq(ReCmd)], NEW f \in [Worker -> Seq(ReCmd)], NEW w \in Worker,
         NEW e \in ReCmd,
         Grows(q, f, w, e), NEW c, IsFiniteSet(RE!Places(q, c))
  PROVE  /\ IsFiniteSet(RE!Places(f, c))
         /\ Cardinality(RE!Places(f, c)) = Cardinality(RE!Places(q, c)) + (IF c = e THEN 1 ELSE 0)
<1> DEFINE n == Len(q[w])
           x == <<w, n + 1>>
<1>1. /\ q[w] \in Seq(ReCmd) /\ n \in Nat /\ Len(f[w]) = n + 1 /\ f[w][n + 1] = e
      /\ \A i \in 1..n : f[w][i] = q[w][i]
  BY DEF Grows
<1>2. \A v \in Worker : v # w => f[v] = q[v]
  BY DEF Grows
<1>3. x \notin RE!Places(q, c)
  <2>1. n + 1 \notin 1..Len(q[w])
    BY <1>1
  <2>2. \A i : i \notin 1..Len(q[w]) => <<w, i>> \notin RE!Places(q, c)
    BY InPlaces
  <2>3. QED
    BY <2>1, <2>2
<1>4. RE!Places(f, c) = RE!Places(q, c) \cup (IF c = e THEN {x} ELSE {})
  <2>1. ASSUME NEW p \in RE!Places(f, c)
               PROVE p \in RE!Places(q, c) \cup (IF c = e THEN {x} ELSE {})
    <3>1. /\ p = <<p[1], p[2]>> /\ p[1] \in Worker /\ p[2] \in 1..Len(f[p[1]]) /\ f[p[1]][p[2]] = c
      BY <2>1, InPlaces
    <3>2. CASE p[1] # w
      <4>1. <<p[1], p[2]>> \in RE!Places(q, c)
        BY <1>2, <3>1, <3>2, InPlaces
      <4>2. QED
        BY <3>1, <4>1
    <3>3. CASE p[1] = w /\ p[2] = n + 1
      BY <1>1, <3>1, <3>3
    <3>4. CASE p[1] = w /\ p[2] \in 1..n
      <4>1. <<p[1], p[2]>> \in RE!Places(q, c)
        BY <1>1, <3>1, <3>4, InPlaces
      <4>2. QED
        BY <3>1, <4>1
    <3>5. QED
      BY <1>1, <3>1, <3>2, <3>3, <3>4
  <2>2. ASSUME NEW p \in RE!Places(q, c) PROVE p \in RE!Places(f, c)
    <3>1. /\ p = <<p[1], p[2]>> /\ p[1] \in Worker /\ p[2] \in 1..Len(q[p[1]]) /\ q[p[1]][p[2]] = c
      BY <2>2, InPlaces
    <3>2. p[2] \in 1..Len(f[p[1]]) /\ f[p[1]][p[2]] = c
      <4>1. CASE p[1] = w
        BY <1>1, <3>1, <4>1
      <4>2. CASE p[1] # w
        BY <1>2, <3>1, <4>2
      <4>3. QED
        BY <4>1, <4>2
    <3>4. <<p[1], p[2]>> \in RE!Places(f, c)
      BY <3>1, <3>2, InPlaces
    <3>5. QED
      BY <3>1, <3>4
  <2>3. c = e => x \in RE!Places(f, c)
    <3>1. n + 1 \in 1..Len(f[w])
      BY <1>1
    <3>2. QED
      BY <1>1, <3>1, InPlaces
  <2>4. QED
    BY <2>1, <2>2, <2>3
<1> HIDE DEF n, x
<1>5. CASE c = e
  <2>1. RE!Places(f, c) = RE!Places(q, c) \cup {x}
    BY <1>4, <1>5
  <2>2. /\ IsFiniteSet(RE!Places(q, c) \cup {x})
        /\ Cardinality(RE!Places(q, c) \cup {x}) = Cardinality(RE!Places(q, c)) + 1
    BY <1>3, FS_AddElement
  <2>3. QED
    BY <1>5, <2>1, <2>2
<1>6. CASE c # e
  <2>1. RE!Places(f, c) = RE!Places(q, c) /\ Cardinality(RE!Places(q, c)) \in Nat
    BY <1>4, <1>6, FS_CardinalityType
  <2>2. QED
    BY <1>6, <2>1
<1>7. QED
  BY <1>5, <1>6

LEMMA TailPlaces ==
  ASSUME NEW q \in [Worker -> Seq(ReCmd)], NEW f \in [Worker -> Seq(ReCmd)], NEW w \in Worker,
         q[w] # <<>>, f[w] = Tail(q[w]), \A v \in Worker : v # w => f[v] = q[v],
         NEW c, IsFiniteSet(RE!Places(q, c))
  PROVE  /\ IsFiniteSet(RE!Places(f, c))
         /\ Cardinality(RE!Places(q, c)) = Cardinality(RE!Places(f, c))
                  + (IF c = Head(q[w]) THEN 1 ELSE 0)
<1> DEFINE n == Len(q[w])
           x == <<w, 1>>
           S == RE!Places(q, c) \ {x}
           G(p) == IF p[1] = w THEN <<w, p[2] - 1>> ELSE p
           F == [p \in S |-> G(p)]
<1>1. /\ q[w] \in Seq(ReCmd) /\ n \in Nat \ {0} /\ Len(f[w]) = n - 1 /\ Head(q[w]) = q[w][1]
      /\ \A i \in 1..(n - 1) : f[w][i] = q[w][i + 1]
  OBVIOUS
<1>2. /\ x \in RE!Places(q, c) <=> c = Head(q[w])
  BY <1>1, InPlaces
<1>3. ASSUME NEW p \in S
      PROVE  /\ p = <<p[1], p[2]>> /\ p[1] \in Worker /\ p[2] \in 1..Len(q[p[1]])
                /\ q[p[1]][p[2]] = c
             /\ p[1] = w => p[2] \in 2..n
  <2>1. /\ p = <<p[1], p[2]>> /\ <<p[1], p[2]>> # <<w, 1>>
        /\ p[1] \in Worker /\ p[2] \in 1..Len(q[p[1]]) /\ q[p[1]][p[2]] = c
    BY <1>3, InPlaces
  <2>2. QED
    BY <1>1, <2>1
<1>4. F \in [S -> RE!Places(f, c)]
  <2>1. ASSUME NEW p \in S PROVE G(p) \in RE!Places(f, c)
    <3>1. CASE p[1] = w
      <4>1. p[2] - 1 \in 1..(n - 1) /\ f[w][p[2] - 1] = q[w][p[2]]
        BY <1>1, <1>3, <3>1
      <4>2. <<w, p[2] - 1>> \in RE!Places(f, c)
        BY <1>1, <1>3, <3>1, <4>1, InPlaces
      <4>3. QED
        BY <3>1, <4>2
    <3>2. CASE p[1] # w
      <4>1. <<p[1], p[2]>> \in RE!Places(f, c)
        BY <1>3, <3>2, InPlaces
      <4>2. QED
        BY <1>3, <3>2, <4>1
    <3>3. QED
      BY <3>1, <3>2
  <2> HIDE DEF G, S
  <2>2. QED
    BY <2>1
<1>5. ASSUME NEW a \in S, NEW b \in S, F[a] = F[b] PROVE a = b
  <2>1. /\ a = <<a[1], a[2]>> /\ a[2] \in Nat /\ b = <<b[1], b[2]>> /\ b[2] \in Nat
    BY <1>3
  <2>2. G(a) = G(b)
    BY <1>5
  <2>3. G(a)[1] = a[1] /\ G(b)[1] = b[1]
    OBVIOUS
  <2>4. CASE a[1] = w
    <3>1. b[1] = w
      BY <2>2, <2>3, <2>4
    <3>2. <<w, a[2] - 1>> = <<w, b[2] - 1>>
      BY <2>2, <2>4, <3>1
    <3>3. a[2] = b[2]
      BY <2>1, <3>2
    <3>4. QED
      BY <2>1, <2>4, <3>1, <3>3
  <2>5. CASE a[1] # w
    BY <2>2, <2>3, <2>5
  <2>6. QED
    BY <2>4, <2>5
<1>6. ASSUME NEW p \in RE!Places(f, c) PROVE \E s \in S : F[s] = p
  <2>1. /\ p = <<p[1], p[2]>> /\ p[1] \in Worker /\ p[2] \in 1..Len(f[p[1]]) /\ f[p[1]][p[2]] = c
    BY <1>6, InPlaces
  <2>2. CASE p[1] = w
    <3> DEFINE s == <<w, p[2] + 1>>
    <3>1. p[2] \in 1..(n - 1) /\ q[w][p[2] + 1] = c /\ p[2] + 1 \in 1..n /\ p[2] + 1 # 1
      BY <1>1, <2>1, <2>2
    <3>2. s \in RE!Places(q, c) /\ s # x
      BY <3>1, InPlaces
    <3>3. s \in S /\ G(s) = <<w, (p[2] + 1) - 1>>
      BY <3>2
    <3>4. (p[2] + 1) - 1 = p[2]
      BY <3>1
    <3>5. QED
      BY <2>1, <2>2, <3>3, <3>4
  <2>3. CASE p[1] # w
    <3>1. <<p[1], p[2]>> \in RE!Places(q, c)
      BY <2>1, <2>3, InPlaces
    <3>2. p # x
      BY <2>3
    <3>3. p \in S /\ G(p) = p
      BY <2>1, <2>3, <3>1, <3>2
    <3>4. QED
      BY <3>3
  <2>4. QED
    BY <2>2, <2>3
<1>7. IsFiniteSet(S)
        /\ Cardinality(S) = Cardinality(RE!Places(q, c)) - (IF c = Head(q[w]) THEN 1 ELSE 0)
      /\ Cardinality(RE!Places(q, c)) \in Nat
  <2>1. Cardinality(RE!Places(q, c)) \in Nat
    BY FS_CardinalityType
  <2>2. /\ IsFiniteSet(S)
        /\ Cardinality(S) = IF x \in RE!Places(q, c) THEN Cardinality(RE!Places(q, c)) - 1 ELSE Cardinality(RE!Places(q, c))
    BY FS_RemoveElement
  <2> HIDE DEF S, x
  <2>3. CASE c = Head(q[w])
    BY <1>2, <2>1, <2>2, <2>3
  <2>4. CASE c # Head(q[w])
    BY <1>2, <2>1, <2>2, <2>4
  <2>5. QED
    BY <2>1, <2>2, <2>3, <2>4
<1>8. ExistsBijection(S, RE!Places(f, c))
  <2> HIDE DEF F, S
  <2>1. F \in Bijection(S, RE!Places(f, c))
    BY <1>4, <1>5, <1>6 DEF Bijection, Injection, Surjection, IsInjective
  <2>2. QED
    BY <2>1 DEF ExistsBijection
<1>9. IsFiniteSet(RE!Places(f, c)) /\ Cardinality(RE!Places(f, c)) = Cardinality(S)
  <2> HIDE DEF S
  <2>1. QED
    BY <1>7, <1>8, FS_Bijection
<1>10. QED
  <2> HIDE DEF S
  <2>1. QED
    BY <1>7, <1>9

(* A request under way is the one looked up, and every request is counted  *)
(* where it is.                                                            *)
Queues == [w \in Worker |-> reWorker[w].queue]
CountInv ==
  /\ reRequests \in [ReCmd -> Nat] /\ reAnswered \in [ReCmd -> Nat] /\ reFailed \in [ReCmd -> Nat]
  /\ reRequest # Nil => reServer = "lookup" /\ reUp # "down"
  /\ \A c \in ReCmd : IsFiniteSet(RE!Waiting(c)) /\ IsFiniteSet(RE!Running(c))
  /\ RE!Accounted

LEMMA NothingWaits ==
  ASSUME NEW c
  PROVE  RE!Places([w \in Worker |-> <<>>], c) = {}
<1>1. \A w \in Worker : DOMAIN [v \in Worker |-> <<>>][w] = {}
  OBVIOUS
<1>2. QED
  BY <1>1 DEF RE!Places

LEMMA CleanCounts ==
  ASSUME RE!NilAssumption, reWorker = [w \in Worker |-> RE!NoWorker],
         reRequests = RE!Zero, reAnswered = RE!Zero, reFailed = RE!Zero, reRequest = Nil
  PROVE  CountInv
<1>1. ASSUME NEW c \in ReCmd PROVE RE!Waiting(c) = {} /\ RE!Running(c) = {} /\ reRequest # c
  <2>1. Queues = [w \in Worker |-> <<>>]
    BY DEF RE!NoWorker, Queues
  <2>2. QED
    BY <2>1, NothingWaits DEF RE!Waiting, Queues, RE!Running, RE!NoWorker, RE!NilAssumption
<1>2. QED
  BY <1>1, FS_EmptySet, EndpointCardinality DEF CountInv, RE!Accounted, RE!Zero

(* Where the queues and the executions stay as they are.                   *)
LEMMA SameQueues ==
  ASSUME \A w \in Worker : reWorker'[w].queue = reWorker[w].queue
  PROVE  \A c : RE!Waiting(c)' = RE!Waiting(c)
<1>1. Queues' = Queues
  BY DEF Queues
<1>2. ASSUME NEW c PROVE RE!Waiting(c)' = RE!Waiting(c)
  <2>1. RE!Waiting(c) = RE!Places(Queues, c) /\ RE!Waiting(c)' = RE!Places(Queues', c)
    BY DEF RE!Waiting, Queues, RE!Places
  <2>2. QED
    BY <1>1, <2>1
<1>3. QED
  BY <1>2

LEMMA SameCommands ==
  ASSUME \A w \in Worker : reWorker'[w].cmd = reWorker[w].cmd
  PROVE  \A c : RE!Running(c)' = RE!Running(c)
BY DEF RE!Running

(* A command on a queue waits there.                                       *)
LEMMA InsertWaits ==
  ASSUME QueuesOK, QueuesOK', CountInv, NEW w \in Worker, NEW e \in ReCmd,
         reWorker'[w].queue = Append(reWorker[w].queue, e),
         \A v \in Worker : v # w => reWorker'[v].queue = reWorker[v].queue
  PROVE  \A c \in ReCmd : IsFiniteSet(RE!Waiting(c)')
                        /\ Cardinality(RE!Waiting(c)') = Cardinality(RE!Waiting(c))
                                 + (IF c = e THEN 1 ELSE 0)
<1>1. Queues \in [Worker -> Seq(ReCmd)] /\ Queues' \in [Worker -> Seq(ReCmd)]
  BY DEF QueuesOK, Worked, Queues
<1>2. Queues'[w] = Append(Queues[w], e) /\ \A v \in Worker : v # w => Queues'[v] = Queues[v]
  BY DEF Queues
<1>3. ASSUME NEW c \in ReCmd
      PROVE  IsFiniteSet(RE!Waiting(c)')
             /\ Cardinality(RE!Waiting(c)') = Cardinality(RE!Waiting(c)) + (IF c = e THEN 1 ELSE 0)
  <2>1. RE!Waiting(c) = RE!Places(Queues, c) /\ RE!Waiting(c)' = RE!Places(Queues', c)
    BY DEF RE!Waiting, Queues, RE!Places
  <2>2. IsFiniteSet(RE!Places(Queues, c))
    BY <2>1 DEF CountInv
  <2>3. PICK q \in [Worker -> Seq(ReCmd)], f \in [Worker -> Seq(ReCmd)] : q = Queues /\ f = Queues'
    BY <1>1
  <2>4. /\ IsFiniteSet(RE!Places(f, c))
        /\ Cardinality(RE!Places(f, c)) = Cardinality(RE!Places(q, c)) + (IF c = e THEN 1 ELSE 0)
    <3>1. Grows(q, f, w, e) /\ IsFiniteSet(RE!Places(q, c))
      BY <1>2, <2>2, <2>3 DEF Grows
    <3>2. QED
      BY <3>1, AppendPlaces
  <2>5. QED
    BY <2>1, <2>3, <2>4
<1>4. QED
  BY <1>3

(* A command taken off a queue runs, and no longer waits.                  *)
LEMMA TakeRuns ==
  ASSUME RE!NilAssumption, QueuesOK, QueuesOK', CountInv, NEW w \in Worker,
         reWorker[w].queue # <<>>, reWorker[w].cmd = Nil,
         reWorker'[w].queue = Tail(reWorker[w].queue), reWorker'[w].cmd = Head(reWorker[w].queue),
         \A v \in Worker : v # w => reWorker'[v] = reWorker[v]
  PROVE  \A c \in ReCmd :
           /\ IsFiniteSet(RE!Waiting(c)') /\ IsFiniteSet(RE!Running(c)')
           /\ Cardinality(RE!Waiting(c)') + Cardinality(RE!Running(c)')
                    = Cardinality(RE!Waiting(c)) + Cardinality(RE!Running(c))
<1>1. Queues \in [Worker -> Seq(ReCmd)] /\ Queues' \in [Worker -> Seq(ReCmd)]
  BY DEF QueuesOK, Worked, Queues
<1>2. /\ Queues[w] # <<>> /\ Queues'[w] = Tail(Queues[w]) /\ \A v \in Worker : v # w
         => Queues'[v] = Queues[v]
      /\ reWorker'[w].cmd = Head(Queues[w])
  BY DEF Queues
<1>3. ASSUME NEW c \in ReCmd
      PROVE  /\ IsFiniteSet(RE!Waiting(c)') /\ IsFiniteSet(RE!Running(c)')
             /\ Cardinality(RE!Waiting(c)') + Cardinality(RE!Running(c)')
                      = Cardinality(RE!Waiting(c)) + Cardinality(RE!Running(c))
  <2>1. RE!Waiting(c) = RE!Places(Queues, c) /\ RE!Waiting(c)' = RE!Places(Queues', c)
    BY DEF RE!Waiting, Queues, RE!Places
  <2>2. IsFiniteSet(RE!Places(Queues, c)) /\ IsFiniteSet(RE!Running(c))
    BY <2>1 DEF CountInv
  <2>3. PICK q \in [Worker -> Seq(ReCmd)], f \in [Worker -> Seq(ReCmd)] : q = Queues /\ f = Queues'
    BY <1>1
  <2>4. /\ IsFiniteSet(RE!Places(f, c))
        /\ Cardinality(RE!Places(q, c)) = Cardinality(RE!Places(f, c))
                 + (IF c = Head(q[w]) THEN 1 ELSE 0)
    <3>1. q[w] # <<>> /\ f[w] = Tail(q[w]) /\ (\A v \in Worker : v # w => f[v] = q[v])
            /\ IsFiniteSet(RE!Places(q, c))
      BY <1>2, <2>2, <2>3
    <3>2. QED
      BY <3>1, TailPlaces
  <2>5. RE!Running(c)' = RE!Running(c) \cup (IF c = Head(q[w]) THEN {w} ELSE {})
          /\ w \notin RE!Running(c)
    BY <1>2, <2>3, RE!NilAssumption DEF RE!Running, RE!NilAssumption
  <2>6. /\ IsFiniteSet(RE!Running(c)')
        /\ Cardinality(RE!Running(c)') = Cardinality(RE!Running(c))
                 + (IF c = Head(q[w]) THEN 1 ELSE 0)
    <3>1. CASE c = Head(q[w])
      <4>1. RE!Running(c)' = RE!Running(c) \cup {w}
        BY <2>5, <3>1
      <4>2. IsFiniteSet(RE!Running(c) \cup {w})
              /\ Cardinality(RE!Running(c) \cup {w}) = Cardinality(RE!Running(c)) + 1
        BY <2>2, <2>5, FS_AddElement
      <4>3. QED
        BY <3>1, <4>1, <4>2
    <3>2. CASE c # Head(q[w])
      <4>1. RE!Running(c)' = RE!Running(c) /\ Cardinality(RE!Running(c)) \in Nat
        BY <2>2, <2>5, <3>2, FS_CardinalityType
      <4>2. QED
        BY <2>2, <3>2, <4>1
    <3>3. QED
      BY <3>1, <3>2
  <2>7. Cardinality(RE!Running(c)) \in Nat /\ Cardinality(RE!Places(f, c)) \in Nat
    BY <2>2, <2>4, FS_CardinalityType
  <2>8. RE!Waiting(c) = RE!Places(q, c) /\ RE!Waiting(c)' = RE!Places(f, c)
    BY <2>1, <2>3
  <2>9. QED
    BY <2>4, <2>6, <2>7, <2>8
<1>4. QED
  BY <1>3

(* The counts when nothing but counters and the request change.            *)
LEMMA SameWaiting ==
  ASSUME CountInv, \A c : RE!Waiting(c)' = RE!Waiting(c), \A c : RE!Running(c)' = RE!Running(c)
  PROVE  \A c \in ReCmd : /\ IsFiniteSet(RE!Waiting(c)') /\ IsFiniteSet(RE!Running(c)')
                        /\ Cardinality(RE!Waiting(c)') = Cardinality(RE!Waiting(c))
                        /\ Cardinality(RE!Running(c)') = Cardinality(RE!Running(c))
BY DEF CountInv

LEMMA Bumped ==
  ASSUME NEW f \in [ReCmd -> Nat], NEW c \in ReCmd
  PROVE  /\ RE!Bump(f, c) \in [ReCmd -> Nat]
         /\ \A d \in ReCmd : RE!Bump(f, c)[d] = f[d] + (IF d = c THEN 1 ELSE 0)
BY DEF RE!Bump

LEMMA NatCounts ==
  ASSUME CountInv
  PROVE  \A c \in ReCmd : Cardinality(RE!Waiting(c)) \in Nat /\ Cardinality(RE!Running(c)) \in Nat
BY FS_CardinalityType DEF CountInv

LEMMA RequestCounts ==
  ASSUME RE!TargetAssumption, RE!NilAssumption, RInv, RInv', CountInv, NEW c \in ReCmd,
         RE!Request(c) PROVE CountInv'
<1> DEFINE w == reServices[Target[c]]
<1>1. /\ reRequests' = RE!Bump(reRequests, c) /\ reAnswered' = reAnswered /\ reFailed' = reFailed
         /\ reServer = "free" /\ reRequest = Nil
      /\ c # Nil /\ reUp' = "up"
  BY DEF RE!Request, CountInv, RE!NilAssumption
<1>2. /\ reRequests' \in [ReCmd -> Nat]
      /\ \A d \in ReCmd : reRequests'[d] = reRequests[d] + (IF d = c THEN 1 ELSE 0)
  BY <1>1, Bumped DEF CountInv
<1>3. CASE w # Nil /\ RE!Insert(reWorker, w, c) /\ UNCHANGED <<reServer, reRequest>>
  <2>1. w \in Worker /\ reWorker[w] \in Worked
    BY <1>3 DEF RInv, QueuesOK, RE!Request, RE!TargetAssumption
  <2>2. /\ reWorker'[w].queue = Append(reWorker[w].queue, c)
        /\ \A v \in Worker : reWorker'[v].cmd = reWorker[v].cmd
             /\ (v # w => reWorker'[v].queue = reWorker[v].queue)
    BY <1>3, <2>1 DEF RE!Insert, RInv, QueuesOK, Worked
  <2>3. \A d \in ReCmd : IsFiniteSet(RE!Waiting(d)')
                       /\ Cardinality(RE!Waiting(d)') = Cardinality(RE!Waiting(d))
                                + (IF d = c THEN 1 ELSE 0)
    BY <2>1, <2>2, InsertWaits DEF RInv
  <2>4. \A d : RE!Running(d)' = RE!Running(d)
    BY <2>2, SameCommands
  <2>5. RE!Accounted'
    BY <1>1, <1>2, <1>3, <2>3, <2>4, NatCounts, EndpointCardinality DEF CountInv, RE!Accounted
  <2>6. QED
    BY <1>1, <1>2, <1>3, <2>3, <2>4, <2>5 DEF CountInv
<1>4. CASE w = Nil /\ reServer' = "lookup" /\ reRequest' = c /\ UNCHANGED <<reWorker, reAccepted>>
  <2>1. (\A d : RE!Waiting(d)' = RE!Waiting(d)) /\ \A d : RE!Running(d)' = RE!Running(d)
    BY <1>4, SameQueues, SameCommands
  <2>2. RE!Accounted'
    <3>1. \A d \in ReCmd : reRequest # d /\ (reRequest' = d <=> d = c)
      BY <1>1, <1>4 DEF RE!NilAssumption
    <3>2. QED
      BY <1>1, <1>2, <2>1, <3>1, SameWaiting, NatCounts, EndpointCardinality DEF CountInv,
         RE!Accounted
  <2>3. QED
    BY <1>1, <1>2, <1>4, <2>1, <2>2, SameWaiting DEF CountInv
<1>5. QED
  BY <1>3, <1>4 DEF RE!Request

LEMMA FoundCounts ==
  ASSUME RE!TargetAssumption, RE!NilAssumption, RInv, RInv', CountInv, RE!LookupFound
         PROVE CountInv'
<1> DEFINE r == Target[reRequest]
<1>1. PICK w \in Worker : reWorker[w] = RE!NoWorker
        /\ RE!Insert([reWorker EXCEPT ![w].res = r], w, reRequest)
  BY DEF RE!LookupFound
<1>2. /\ reRequest \in ReCmd /\ reRequest' = Nil /\ reServer' = "free"
      /\ UNCHANGED <<reRequests, reAnswered, reFailed>>
  BY DEF RE!LookupFound, RInv, LookupInv, RE!counts
<1>3. /\ reWorker'[w].queue = Append(reWorker[w].queue, reRequest)
      /\ \A v \in Worker : reWorker'[v].cmd = reWorker[v].cmd
           /\ (v # w => reWorker'[v].queue = reWorker[v].queue)
  BY <1>1 DEF RE!Insert, RInv, QueuesOK, Worked, RE!NoWorker
<1>4. \A d \in ReCmd : IsFiniteSet(RE!Waiting(d)')
                     /\ Cardinality(RE!Waiting(d)') = Cardinality(RE!Waiting(d))
                              + (IF d = reRequest THEN 1 ELSE 0)
  <2>1. PICK e \in ReCmd : e = reRequest
    BY <1>2
  <2>2. \A d \in ReCmd : IsFiniteSet(RE!Waiting(d)')
                     /\ Cardinality(RE!Waiting(d)') = Cardinality(RE!Waiting(d))
                              + (IF d = e THEN 1 ELSE 0)
    BY <1>3, <2>1, InsertWaits DEF RInv
  <2>3. QED
    BY <2>1, <2>2
<1>5. \A d : RE!Running(d)' = RE!Running(d)
  BY <1>3, SameCommands
<1>6. RE!Accounted'
  <2>1. \A d \in ReCmd : reRequest' # d
    BY <1>2 DEF RE!NilAssumption
  <2>2. ASSUME NEW d \in ReCmd
               PROVE reRequests'[d] = Cardinality(RE!Waiting(d)') + Cardinality(RE!Running(d)')
                  + (IF reRequest' = d THEN 1 ELSE 0) + reAnswered'[d] + reFailed'[d]
    <3>1. /\ reRequests[d] = Cardinality(RE!Waiting(d)) + Cardinality(RE!Running(d))
                  + (IF reRequest = d THEN 1 ELSE 0) + reAnswered[d] + reFailed[d]
          /\ Cardinality(RE!Waiting(d)') = Cardinality(RE!Waiting(d))
                   + (IF d = reRequest THEN 1 ELSE 0)
          /\ RE!Running(d)' = RE!Running(d) /\ reRequest' # d
      BY <1>4, <1>5, <2>1, EndpointCardinality DEF CountInv, RE!Accounted
    <3>2. /\ Cardinality(RE!Waiting(d)) \in Nat /\ Cardinality(RE!Running(d)) \in Nat
          /\ reAnswered[d] \in Nat /\ reFailed[d] \in Nat
      BY NatCounts DEF CountInv
    <3>3. QED
      BY <1>2, <3>1, <3>2
  <2>3. QED
    BY <2>2, EndpointCardinality DEF RE!Accounted
<1>7. QED
  BY <1>2, <1>4, <1>5, <1>6 DEF CountInv

LEMMA TakeCounts ==
  ASSUME RE!NilAssumption, RInv, RInv', CountInv, NEW w \in Worker, RE!Take(w) PROVE CountInv'
<1>1. /\ reWorker[w].queue # <<>> /\ reWorker[w].cmd = Nil
      /\ reWorker'[w].queue = Tail(reWorker[w].queue) /\ reWorker'[w].cmd = Head(reWorker[w].queue)
      /\ \A v \in Worker : v # w => reWorker'[v] = reWorker[v]
      /\ UNCHANGED <<reUp, reServer, reRequest, reRequests, reAnswered, reFailed>>
  BY DEF RE!Take, RInv, QueuesOK, Worked, RE!counts
<1>2. \A c \in ReCmd :
        /\ IsFiniteSet(RE!Waiting(c)') /\ IsFiniteSet(RE!Running(c)')
        /\ Cardinality(RE!Waiting(c)') + Cardinality(RE!Running(c)')
                 = Cardinality(RE!Waiting(c)) + Cardinality(RE!Running(c))
  BY <1>1, TakeRuns DEF RInv
<1>3. \A c \in ReCmd : Cardinality(RE!Waiting(c)') \in Nat /\ Cardinality(RE!Running(c)') \in Nat
  BY <1>2, FS_CardinalityType
<1>4. RE!Accounted'
  BY <1>1, <1>2, <1>3, NatCounts, EndpointCardinality DEF CountInv, RE!Accounted
<1>5. QED
  BY <1>1, <1>2, <1>4 DEF CountInv

LEMMA FinishCounts ==
  ASSUME RE!NilAssumption, RInv, CountInv, NEW w \in Worker, RE!Finish(w) PROVE CountInv'
<1> DEFINE e == reWorker[w].cmd
<1>1. /\ e \in ReCmd /\ UNCHANGED <<reUp, reServer, reRequest, reRequests>>
      /\ \A v \in Worker : /\ reWorker'[v].queue = reWorker[v].queue
                           /\ reWorker'[v].cmd = IF v = w THEN Nil ELSE reWorker[v].cmd
  BY DEF RE!Finish, RInv, QueuesOK, Worked
<1>2. \/ reAnswered' = RE!Bump(reAnswered, e) /\ reFailed' = reFailed
      \/ reAnswered' = reAnswered /\ reFailed' = RE!Bump(reFailed, e)
  BY DEF RE!Finish, RE!ResultComplete
<1>3. /\ reAnswered' \in [ReCmd -> Nat] /\ reFailed' \in [ReCmd -> Nat]
      /\ \A c \in ReCmd : reAnswered'[c] + reFailed'[c] = reAnswered[c] + reFailed[c]
               + (IF c = e THEN 1 ELSE 0)
  <2>1. PICK d \in ReCmd : d = e
    BY <1>1
  <2>2. /\ RE!Bump(reAnswered, d) \in [ReCmd -> Nat] /\ RE!Bump(reFailed, d) \in [ReCmd -> Nat]
        /\ \A c \in ReCmd : /\ RE!Bump(reAnswered, d)[c] = reAnswered[c] + (IF c = d THEN 1 ELSE 0)
                          /\ RE!Bump(reFailed, d)[c] = reFailed[c] + (IF c = d THEN 1 ELSE 0)
                          /\ reAnswered[c] \in Nat /\ reFailed[c] \in Nat
    BY Bumped DEF CountInv
  <2> HIDE DEF e
  <2>3. QED
    BY <1>2, <2>1, <2>2 DEF CountInv
<1>4. \A c : RE!Waiting(c)' = RE!Waiting(c)
  BY <1>1, SameQueues
<1>5. ASSUME NEW c \in ReCmd
      PROVE  IsFiniteSet(RE!Running(c)')
             /\ Cardinality(RE!Running(c)') = Cardinality(RE!Running(c)) - (IF c = e THEN 1 ELSE 0)
  <2>1. RE!Running(c)' = RE!Running(c) \ (IF c = e THEN {w} ELSE {})
          /\ (w \in RE!Running(c) <=> c = e)
    BY <1>1 DEF RE!Running, RE!NilAssumption
  <2>2. IsFiniteSet(RE!Running(c)) /\ Cardinality(RE!Running(c)) \in Nat
    BY NatCounts DEF CountInv
  <2>3. CASE c = e
    <3>1. RE!Running(c)' = RE!Running(c) \ {w} /\ w \in RE!Running(c)
      BY <2>1, <2>3
    <3>2. IsFiniteSet(RE!Running(c) \ {w})
            /\ Cardinality(RE!Running(c) \ {w}) = Cardinality(RE!Running(c)) - 1
      BY <2>2, <3>1, FS_RemoveElement
    <3>3. QED
      BY <2>3, <3>1, <3>2
  <2>4. CASE c # e
    BY <2>1, <2>2, <2>4
  <2>5. QED
    BY <2>3, <2>4
<1>6. RE!Accounted'
  <2>1. ASSUME NEW c \in ReCmd
               PROVE reRequests'[c] = Cardinality(RE!Waiting(c)') + Cardinality(RE!Running(c)')
                  + (IF reRequest' = c THEN 1 ELSE 0) + reAnswered'[c] + reFailed'[c]
    <3>1. /\ reRequests[c] = Cardinality(RE!Waiting(c)) + Cardinality(RE!Running(c))
                  + (IF reRequest = c THEN 1 ELSE 0) + reAnswered[c] + reFailed[c]
          /\ reRequests'[c] = reRequests[c] /\ reRequest' = reRequest
               /\ Cardinality(RE!Waiting(c)') = Cardinality(RE!Waiting(c))
      BY <1>1, <1>4, EndpointCardinality DEF CountInv, RE!Accounted
    <3>2. /\ Cardinality(RE!Waiting(c)) \in Nat /\ Cardinality(RE!Running(c)) \in Nat
             /\ Cardinality(RE!Running(c)') \in Nat
          /\ reAnswered[c] \in Nat /\ reFailed[c] \in Nat /\ reAnswered'[c] \in Nat
               /\ reFailed'[c] \in Nat
      BY <1>3, <1>5, NatCounts, FS_CardinalityType DEF CountInv
    <3>3. /\ Cardinality(RE!Running(c)') = Cardinality(RE!Running(c)) - (IF c = e THEN 1 ELSE 0)
          /\ reAnswered'[c] + reFailed'[c] = reAnswered[c] + reFailed[c] + (IF c = e THEN 1 ELSE 0)
      BY <1>3, <1>5
    <3> HIDE DEF e
    <3>4. QED
      BY <3>1, <3>2, <3>3
  <2>2. QED
    BY <2>1, EndpointCardinality DEF RE!Accounted
<1>7. QED
  BY <1>1, <1>3, <1>4, <1>5, <1>6 DEF CountInv

(* A look-up or a stop that ends a request counts it.                      *)
LEMMA LookupCounts ==
  ASSUME RE!NilAssumption, RInv, CountInv, UNCHANGED <<reWorker, reRequests>>, reRequest' = Nil,
         \/ reServer = "lookup" /\ reAnswered' = RE!Bump(reAnswered, reRequest)
              /\ reFailed' = reFailed
         \/ reServer = "lookup" /\ reAnswered' = reAnswered
              /\ reFailed' = RE!Bump(reFailed, reRequest)
         \/ reRequest = Nil /\ UNCHANGED <<reAnswered, reFailed>>
  PROVE  CountInv'
<1>1. (\A c : RE!Waiting(c)' = RE!Waiting(c)) /\ \A c : RE!Running(c)' = RE!Running(c)
  BY SameQueues, SameCommands
<1>2. /\ reAnswered' \in [ReCmd -> Nat] /\ reFailed' \in [ReCmd -> Nat]
      /\ \A c \in ReCmd : reAnswered'[c] + reFailed'[c] = reAnswered[c] + reFailed[c]
               + (IF reRequest = c THEN 1 ELSE 0)
  <2>1. CASE reRequest = Nil
    BY <2>1 DEF CountInv, RInv, LookupInv, RE!NilAssumption
  <2>2. CASE reRequest # Nil
    <3>1. PICK d \in ReCmd : d = reRequest
      BY <2>2 DEF CountInv, RInv, LookupInv
    <3>2. /\ RE!Bump(reAnswered, d) \in [ReCmd -> Nat] /\ RE!Bump(reFailed, d) \in [ReCmd -> Nat]
          /\ \A c \in ReCmd :
               /\ RE!Bump(reAnswered, d)[c] = reAnswered[c] + (IF c = d THEN 1 ELSE 0)
                            /\ RE!Bump(reFailed, d)[c] = reFailed[c] + (IF c = d THEN 1 ELSE 0)
                            /\ reAnswered[c] \in Nat /\ reFailed[c] \in Nat
      BY Bumped DEF CountInv
    <3>3. QED
      BY <2>2, <3>1, <3>2 DEF CountInv
  <2>3. QED
    BY <2>1, <2>2
<1>3. RE!Accounted'
  <2>1. ASSUME NEW c \in ReCmd
               PROVE reRequests'[c] = Cardinality(RE!Waiting(c)') + Cardinality(RE!Running(c)')
                  + (IF reRequest' = c THEN 1 ELSE 0) + reAnswered'[c] + reFailed'[c]
    <3>1. /\ reRequests[c] = Cardinality(RE!Waiting(c)) + Cardinality(RE!Running(c))
                  + (IF reRequest = c THEN 1 ELSE 0) + reAnswered[c] + reFailed[c]
          /\ reRequests'[c] = reRequests[c] /\ reRequest' # c
      BY EndpointCardinality DEF CountInv, RE!Accounted, RE!NilAssumption
    <3>2. /\ Cardinality(RE!Waiting(c)) \in Nat /\ Cardinality(RE!Running(c)) \in Nat
          /\ reAnswered[c] \in Nat /\ reFailed[c] \in Nat /\ reAnswered'[c] \in Nat
               /\ reFailed'[c] \in Nat
      BY <1>2, NatCounts DEF CountInv
    <3>3. QED
      BY <1>1, <1>2, <3>1, <3>2
  <2>2. QED
    BY <2>1, EndpointCardinality DEF RE!Accounted
<1>4. QED
  BY <1>1, <1>2, <1>3 DEF CountInv

LEMMA StepCounts ==
  ASSUME RE!TargetAssumption, RE!NilAssumption, RInv, RInv', CountInv, [RE!Next]_(RE!vars)
         PROVE CountInv'
<1>1. CASE RE!Acknowledge \/ RE!Link \/ RE!Start \/ UNCHANGED RE!vars
  <2>1. /\ UNCHANGED <<reWorker, reRequests, reAnswered, reFailed, reRequest>>
        /\ reRequest # Nil => reServer' = "lookup" /\ reUp' # "down"
    <3>1. CASE RE!Start
      BY <3>1 DEF RE!Start, RE!queues, RE!counts, RE!orders, CountInv, RInv
    <3>2. CASE RE!Acknowledge \/ RE!Link \/ UNCHANGED RE!vars
      BY <3>2 DEF RE!Acknowledge, RE!Link, RE!vars, RE!queues, RE!counts, RE!orders, CountInv
    <3>3. QED
      BY <1>1, <3>1, <3>2
  <2>2. (\A c : RE!Waiting(c)' = RE!Waiting(c)) /\ \A c : RE!Running(c)' = RE!Running(c)
    BY <2>1, SameQueues, SameCommands
  <2>3. QED
    BY <2>1, <2>2, EndpointCardinality DEF CountInv, RE!Accounted
<1>2. CASE RE!LookupNotFound \/ RE!LookupRaises
  BY <1>2, LookupCounts DEF RE!LookupNotFound, RE!LookupRaises, RE!ResultComplete, RE!queues,
     RE!counts
<1>3. CASE RE!StopSockets
  <2>1. reRequest = Nil \/ reServer = "lookup"
    BY DEF CountInv
  <2>2. QED
    BY <1>3, <2>1, LookupCounts DEF RE!StopSockets, RE!queues
<1>4. CASE RE!StopQueues
  <2>1. /\ reWorker' = [w \in Worker |-> RE!NoWorker] /\ reRequests' = RE!Zero
           /\ reAnswered' = RE!Zero /\ reFailed' = RE!Zero
        /\ reRequest' = Nil
    BY <1>4 DEF RE!StopQueues
  <2>2. ASSUME NEW c \in ReCmd PROVE RE!Waiting(c)' = {} /\ RE!Running(c)' = {} /\ reRequest' # c
    <3>1. Queues' = [w \in Worker |-> <<>>] /\ RE!Waiting(c)' = RE!Places(Queues', c)
      BY <2>1 DEF RE!NoWorker, Queues, RE!Waiting, RE!Places
    <3>2. RE!Places(Queues', c) = {}
      BY <3>1, NothingWaits
    <3>3. QED
      BY <2>1, <3>1, <3>2 DEF RE!Running, RE!NoWorker, RE!NilAssumption
  <2>3. (\A c \in ReCmd : RE!Zero[c] = 0) /\ RE!Zero \in [ReCmd -> Nat]
    BY DEF RE!Zero
  <2>4. RE!Accounted'
    BY <2>1, <2>2, <2>3, FS_EmptySet, EndpointCardinality DEF RE!Accounted
  <2>5. QED
    BY <2>1, <2>2, <2>3, <2>4, FS_EmptySet DEF CountInv
<1>5. QED
  BY <1>1, <1>2, <1>3, <1>4, RequestCounts, FoundCounts, TakeCounts, FinishCounts DEF RE!Next,
     RE!Server

(* No acknowledged request is ever forgotten: it is looked up, queued, in  *)
(* execution, answered, or failed by a look-up or a stop, and counted once,*)
(* for any commands, resources, greenlets and requests.                    *)
THEOREM EveryRequestCounts == RE!Spec => []RequestsAccounted
<1>1. RE!Init => CountInv
  BY SuiteAssumption, CleanCounts DEF RE!Init
<1>2. RInv /\ RInv' /\ CountInv /\ [RE!Next]_(RE!vars) => CountInv'
  BY SuiteAssumption, StepCounts
<1>3. CountInv => RequestsAccounted
  BY DEF CountInv, RequestsAccounted
<1>4. RE!TargetAssumption /\ RE!NilAssumption
  BY SuiteAssumption
<1>5. QED
  BY <1>1, <1>2, <1>3, <1>4, Invariant, PTL DEF RE!Spec

-----------------------------------------------------------------------------
(* Alerts                                                                  *)

LEMMA LeastPlace ==
  ASSUME NEW S \in SUBSET Nat, S # {}
  PROVE  \E m \in S : \A k \in S : m <= k
<1>. DEFINE T == {0..k : k \in S}
<1>1. T \subseteq FiniteSubsetsOf(Nat) /\ T # {}
  <2>1. \A k \in S : k \in Nat /\ 0..k \subseteq Nat /\ IsFiniteSet(0..k)
    BY FS_Interval
  <2>2. QED
    BY <2>1 DEF FiniteSubsetsOf
<1>2. PICK x \in T : \A y \in T : <<y, x>> \notin StrictSubsetOrdering(Nat)
  <2>. HIDE DEF T
  <2>1. QED
    BY <1>1, FS_StrictSubsetOrderingWellFounded, WFMin
<1>3. PICK m \in S : x = 0..m
  BY <1>2
<1>4. ASSUME NEW k \in S, k < m PROVE FALSE
  <2>1. 0..k \in T /\ 0..k \subseteq 0..m /\ m \in 0..m /\ m \notin 0..k /\ 0..m \subseteq Nat
    BY <1>4
  <2>2. <<0..k, 0..m>> \notin StrictSubsetOrdering(Nat)
    BY <1>2, <1>3, <2>1
  <2>3. QED
    BY <2>1, <2>2 DEF StrictSubsetOrdering
<1>5. QED
  BY <1>4

(* One aggregate type: what is proved about the alerts supposes it.        *)
SingleType == Types = <<Types[1]>>

LEMMA TypeFacts ==
  ASSUME SingleType PROVE Len(Types) = 1 /\ AL!Type = {Types[1]}
  <1>. DEFINE t == Types[1]
  <1>1. Types = <<t>>
    BY DEF SingleType
  <1>. HIDE DEF t
  <1>2. QED
    BY <1>1 DEF AL!Type

(* The aggregate status of a set of alerts.                                *)
WorstOf(A) ==
  IF \E a \in A : Def[a].aggregate = Types[1] /\ alStatus[a] = "tripped" /\ Def[a].type = "ALARM"
  THEN "CRITICAL"
  ELSE IF \E a \in A : Def[a].aggregate = Types[1] /\ alStatus[a] = "tripped" THEN "WARNING" ELSE "OK"

Worse(old, a) ==
  IF Def[a].aggregate # Types[1] \/ alStatus[a] # "tripped" THEN old
  ELSE IF Def[a].type = "ALARM" \/ old = "CRITICAL" THEN "CRITICAL" ELSE "WARNING"

(* One by one, the alerts of a list make what they make together.          *)
LEMMA WorstIsWorstOf ==
  ASSUME AL!Alerts \in Seq(Alert)
  PROVE  AL!Worst(Types[1]) = WorstOf({a \in Alert : \E i \in DOMAIN AL!Alerts : AL!Alerts[i] = a})
<1>. DEFINE L == AL!Alerts
            N == Len(L)
            Rec(f) == f = [n \in 0..N |-> IF n = 0 THEN "OK" ELSE Worse(f[n - 1], L[n])]
            W == CHOOSE f : Rec(f)
            To(n) == {L[i] : i \in 1..n}
            V == [n \in 0..N |-> WorstOf(To(n))]
<1>1. AL!Worst(Types[1]) = W[N]
  BY DEF AL!Worst, Worse
<1>. HIDE DEF L
<1>2. N \in Nat /\ DOMAIN L = 1..N
  OBVIOUS
<1>3. WorstOf({}) = "OK"
  BY DEF WorstOf
<1>4. ASSUME NEW n \in 1..N PROVE WorstOf(To(n)) = Worse(WorstOf(To(n - 1)), L[n])
  <2>1. n - 1 \in Nat /\ n \in 1..n /\ \A i \in 1..n : i = n \/ i \in 1..(n - 1)
    BY <1>2
  <2>2. 1..(n - 1) \subseteq 1..n
    BY <1>2
  <2>3. To(n) = To(n - 1) \cup {L[n]}
    BY <2>1, <2>2
  <2>. HIDE DEF To
  <2>4. QED
    BY <2>3 DEF WorstOf, Worse
<1>5. To(0) = {}
  OBVIOUS
<1>6. Rec(V)
  <2>1. ASSUME NEW n \in 0..N PROVE V[n] = IF n = 0 THEN "OK" ELSE Worse(V[n - 1], L[n])
    <3>1. CASE n = 0
      BY <3>1, <1>3, <1>5
    <3>2. CASE n # 0
      <4>1. n \in 1..N /\ n - 1 \in 0..N
        BY <3>2, <1>2
      <4>. HIDE DEF To
      <4>2. QED
        BY <3>2, <4>1, <1>4
    <3>3. QED
      BY <3>1, <3>2
  <2>. HIDE DEF V
  <2>2. V = [n \in 0..N |-> V[n]]
    BY DEF V
  <2>3. QED
    BY <2>1, <2>2
<1>7. Rec(W)
  BY <1>6
<1>8. \A n \in 0..N : W[n] = V[n]
  <2>. DEFINE S == {n \in 0..N : W[n] # V[n]}
  <2>1. SUFFICES ASSUME S # {} PROVE FALSE
    OBVIOUS
  <2>. HIDE DEF W, V
  <2>2. S \in SUBSET Nat
    BY <1>2
  <2>3. PICK m \in S : \A k \in S : m <= k
    BY <2>1, <2>2, LeastPlace
  <2>4. m # 0
    BY <1>6, <1>7, <1>2, <2>3
  <2>5. m - 1 \in 0..N /\ W[m - 1] = V[m - 1] /\ m \in 0..N
    BY <1>2, <2>2, <2>3, <2>4
  <2>6. QED
    BY <1>6, <1>7, <2>3, <2>4, <2>5
<1>9. To(N) = {a \in Alert : \E i \in DOMAIN L : L[i] = a}
  <2>1. \A i \in 1..N : L[i] \in Alert
    BY <1>2 DEF L
  <2>2. QED
    BY <1>2, <2>1
<1>10. N \in 0..N
  BY <1>2
<1>11. V[N] = WorstOf(To(N))
  BY <1>10
<1>12. QED
  <2>. HIDE DEF W, V, To
  <2>1. QED
    BY <1>1, <1>8, <1>9, <1>10, <1>11 DEF L

(* A greenlet that has told of the aggregate status is done with it, and   *)
(* while nothing has changed since, the status is that of the alerts.      *)
AlertTypeOK ==
  /\ alLists \in Seq(Seq(Alert)) /\ Len(alLists) > 0
  /\ alAgg = [t \in {Types[1]} |-> alAgg[t]]
  /\ alAt = [g \in Greenlet |-> alAt[g]]
Told == \A g \in Greenlet :
  /\ alAt[g].pc = "told" => alAt[g].pos = 2
  /\ alAt[g].pc = "stop" => alAt[g].msg \in DOMAIN Batch \cup {"quit"}
AlertInv ==
  /\ AlertTypeOK /\ Told
  /\ alCurrent \in BOOLEAN /\ (alCurrent => alAgg[Types[1]] = AL!Worst(Types[1]))

LEMMA InitAlerts ==
  ASSUME SingleType PROVE AL!Init => AlertInv
  <1>1. SUFFICES ASSUME AL!Init PROVE AlertInv
    OBVIOUS
  <1>2. alLists = <<<<>>>> /\ alAgg = [t \in {Types[1]} |-> "UNKNOWN"] /\ alCurrent = FALSE
        /\ alAt = [g \in Greenlet |-> AL!Idle]
    BY <1>1, TypeFacts DEF AL!Init
  <1>3. AL!Idle.pc = "idle"
    BY DEF AL!Idle
  <1>4. alLists \in Seq(Seq(Alert)) /\ Len(alLists) > 0
    BY <1>2
  <1>5. Told /\ alAt = [g \in Greenlet |-> alAt[g]]
    BY <1>2, <1>3 DEF Told
  <1>6. alAgg = [t \in {Types[1]} |-> alAgg[t]]
    BY <1>2
  <1>7. AlertTypeOK
    BY <1>4, <1>5, <1>6 DEF AlertTypeOK
  <1>8. QED
    BY <1>2, <1>5, <1>7 DEF AlertInv

LEMMA SameWorst ==
  ASSUME UNCHANGED <<alLists, alStatus>>
  PROVE  AL!Worst(Types[1])' = AL!Worst(Types[1])
  BY DEF AL!Worst, AL!Alerts

LEMMA SameAlerts ==
  ASSUME AlertInv, UNCHANGED <<alLists, alStatus, alAgg, alCurrent>>, Told', alAt' = [g \in Greenlet |-> alAt'[g]]
  PROVE  AlertInv'
  <1>1. AL!Worst(Types[1])' = AL!Worst(Types[1])
    BY SameWorst
  <1>2. QED
    BY <1>1 DEF AlertInv, AlertTypeOK

LEMMA BackToIdle ==
  ASSUME AlertInv, NEW g \in Greenlet, alAt' = [alAt EXCEPT ![g] = AL!Idle]
  PROVE  Told' /\ alAt' = [h \in Greenlet |-> alAt'[h]]
  <1>1. AL!Idle.pc = "idle"
    BY DEF AL!Idle
  <1>2. alAt'[g] = AL!Idle /\ (\A h \in Greenlet \ {g} : alAt'[h] = alAt[h]) /\ alAt' = [h \in Greenlet |-> alAt'[h]]
    BY DEF AlertInv, AlertTypeOK
  <1>3. QED
    BY <1>1, <1>2 DEF AlertInv, Told

(* The one aggregate status is brought up to date in one step.             *)
LEMMA UpdateFacts ==
  ASSUME SingleType, AlertTypeOK, Told, NEW g \in Greenlet, NEW updated, NEW first \in {1, 2}, AL!UpdateFrom(g, updated, first)
  PROVE  /\ alAt' = [alAt EXCEPT ![g] = alAt'[g]] /\ alAt' = [h \in Greenlet |-> alAt'[h]]
         /\ alAgg' = [t \in {Types[1]} |-> alAgg'[t]] /\ Told'
         /\ first = 1 => alAgg'[Types[1]] = updated[Types[1]]
         /\ first = 2 => alAgg' = alAgg
  <1>. DEFINE differ == {i \in first..Len(Types) : updated[Types[i]] # alAgg[Types[i]]}
  <1>1. AL!Idle.pc = "idle" /\ AL!Idle = [pc |-> "idle", msg |-> "quit", list |-> 1, pos |-> 1, updated |-> AL!Idle.updated]
    BY DEF AL!Idle
  <1>2. CASE differ = {}
    <2>1. alAt' = [alAt EXCEPT ![g] = AL!Idle] /\ alAgg' = alAgg
      BY <1>2 DEF AL!UpdateFrom
    <2>2. first = 1 => updated[Types[1]] = alAgg[Types[1]]
      <3>1. first = 1 => 1 \in first..Len(Types)
        BY TypeFacts
      <3>2. QED
        BY <1>2, <3>1
    <2>. HIDE DEF differ
    <2>3. QED
      BY <1>1, <2>1, <2>2 DEF AlertTypeOK, Told
  <1>3. CASE differ # {}
    <2>1. first = 1 /\ differ = {1}
      <3>1. first..Len(Types) = IF first = 1 THEN {1} ELSE {}
        <4>1. Len(Types) = 1
          BY TypeFacts
        <4>. HIDE DEF differ
        <4>2. CASE first = 1
          BY <4>1, <4>2
        <4>3. CASE first = 2
          BY <4>1, <4>3
        <4>4. QED
          BY <4>2, <4>3
      <3>2. differ \subseteq first..Len(Types)
        OBVIOUS
      <3>. HIDE DEF differ
      <3>3. QED
        BY <1>3, <3>1, <3>2
    <2>. DEFINE next == CHOOSE i \in differ : \A j \in differ : i <= j
    <2>2. next = 1
      BY <2>1
    <2>3. /\ alAgg' = [alAgg EXCEPT ![Types[1]] = updated[Types[1]]]
          /\ alAt' = [alAt EXCEPT ![g] = [AL!Idle EXCEPT !.pc = "told", !.pos = 2, !.updated = updated]]
      <3>1. /\ alAgg' = [alAgg EXCEPT ![Types[next]] = updated[Types[next]]]
            /\ alAt' = [alAt EXCEPT ![g] = [AL!Idle EXCEPT !.pc = "told", !.pos = next + 1, !.updated = updated]]
        BY <1>3 DEF AL!UpdateFrom
      <3>. HIDE DEF next
      <3>2. Types[next] = Types[1] /\ next + 1 = 2
        BY <2>2
      <3>3. QED
        BY <3>1, <3>2
    <2>. HIDE DEF differ
    <2>. DEFINE told == [AL!Idle EXCEPT !.pc = "told", !.pos = 2, !.updated = updated]
    <2>4. told.pc = "told" /\ told.pos = 2
      BY DEF AL!Idle
    <2>. HIDE DEF told
    <2>5. alAt' = [alAt EXCEPT ![g] = told]
      BY <2>3 DEF told
    <2>6. alAt'[g] = told /\ (\A h \in Greenlet \ {g} : alAt'[h] = alAt[h]) /\ alAt' = [h \in Greenlet |-> alAt'[h]]
      BY <2>5 DEF AlertTypeOK
    <2>7. Told'
      BY <2>4, <2>6 DEF Told
    <2>8. alAt' = [alAt EXCEPT ![g] = alAt'[g]]
      BY <2>5, <2>6
    <2>9. alAgg' = [t \in {Types[1]} |-> alAgg'[t]] /\ alAgg'[Types[1]] = updated[Types[1]]
      BY <2>3 DEF AlertTypeOK
    <2>10. QED
      BY <2>1, <2>6, <2>7, <2>8, <2>9
  <1>4. QED
    BY <1>2, <1>3

LEMMA EvalAlerts ==
  ASSUME SingleType, AlertInv, NEW g \in Greenlet, NEW m, NEW list, NEW first, AL!EvalFrom(g, m, list, first), alLists' = alLists
  PROVE  AlertInv'
  <1>. DEFINE l == alLists[list]
              changed == {i \in first..Len(l) : AL!Evaluated(l[i], m) # alStatus[l[i]]}
              next == CHOOSE i \in changed : \A j \in changed : i <= j
  <1>1. CASE changed = {}
    <2>1. AL!UpdateFrom(g, [t \in {Types[1]} |-> AL!Worst(t)], 1) /\ alCurrent' = TRUE /\ alStatus' = alStatus
      <3>1. AL!Type = {Types[1]}
        BY TypeFacts
      <3>2. QED
        BY <1>1, <3>1 DEF AL!EvalFrom
    <2>2. AL!Worst(Types[1])' = AL!Worst(Types[1])
      BY <2>1, SameWorst
    <2>. DEFINE updated == [t \in {Types[1]} |-> AL!Worst(t)]
    <2>3. updated[Types[1]] = AL!Worst(Types[1])
      OBVIOUS
    <2>. HIDE DEF updated
    <2>4. QED
      BY <2>1, <2>2, <2>3, UpdateFacts DEF AlertInv, AlertTypeOK, updated
  <1>2. CASE changed # {}
    <2>1. /\ alCurrent' = FALSE /\ alAgg' = alAgg
          /\ alAt' = [alAt EXCEPT ![g] = [AL!Idle EXCEPT !.pc = "publish", !.msg = m, !.list = list, !.pos = next]]
      BY <1>2 DEF AL!EvalFrom
    <2>2. [AL!Idle EXCEPT !.pc = "publish", !.msg = m, !.list = list, !.pos = next].pc = "publish"
      BY DEF AL!Idle
    <2>. HIDE DEF next, changed
    <2>3. QED
      BY <2>1, <2>2 DEF AlertInv, AlertTypeOK, Told
  <1>3. QED
    BY <1>1, <1>2

(* A list is set, or made longer.                                          *)
LEMMA NewList ==
  ASSUME AlertInv, NEW L, L \in Seq(Seq(Alert)), Len(L) > 0, alLists' = L, alCurrent' = FALSE, alAgg' = alAgg,
         alAt' = alAt \/ alAt' = [alAt EXCEPT !["rpc"] = AL!Idle]
  PROVE  AlertInv'
  <1>1. AL!Idle.pc = "idle"
    BY DEF AL!Idle
  <1>2. QED
    BY <1>1 DEF AlertInv, AlertTypeOK, Told

LEMMA StepAlerts ==
  ASSUME SingleType, AL!AlertAssumption, AlertInv, [AL!Next]_(AL!vars) PROVE AlertInv'
  <1>0. AL!Idle = [pc |-> "idle", msg |-> "quit", list |-> 1, pos |-> 1, updated |-> AL!Idle.updated]
    BY DEF AL!Idle
  <1>rpc. "rpc" \in Greenlet
    BY DEF AL!AlertAssumption
  <1>1. ASSUME NEW g \in Greenlet, NEW m, AL!ProcessAlerts(g, m) PROVE AlertInv'
    BY <1>1, EvalAlerts DEF AL!ProcessAlerts
  <1>2. ASSUME NEW g \in Greenlet, AL!Published(g) PROVE AlertInv'
    BY <1>2, EvalAlerts DEF AL!Published
  <1>3. ASSUME NEW g \in Greenlet, AL!PublicationRaises(g) PROVE AlertInv'
    <2>1. alAt' = [alAt EXCEPT ![g] = AL!Idle] /\ UNCHANGED <<alLists, alStatus, alAgg, alCurrent>>
      BY <1>3 DEF AL!PublicationRaises
    <2>2. Told' /\ alAt' = [h \in Greenlet |-> alAt'[h]]
      BY <2>1, BackToIdle
    <2>3. QED
      BY <2>1, <2>2, SameAlerts
  <1>4. ASSUME NEW g \in Greenlet, AL!AggStatusTold(g) PROVE AlertInv'
    <2>1. AL!UpdateFrom(g, alAt[g].updated, 2) /\ UNCHANGED <<alLists, alStatus, alCurrent>>
      BY <1>4 DEF AL!AggStatusTold, AlertInv, Told
    <2>2. Told' /\ alAt' = [h \in Greenlet |-> alAt'[h]] /\ alAgg' = alAgg
      BY <2>1, UpdateFacts DEF AlertInv
    <2>3. QED
      BY <2>1, <2>2, SameAlerts
  <1>5. ASSUME NEW a \in Alert, AL!CheckData(a) PROVE AlertInv'
    <2>1. /\ UNCHANGED <<alLists, alAgg, alAt>>
          /\ alCurrent' = FALSE \/ UNCHANGED <<alStatus, alCurrent>>
      BY <1>5 DEF AL!CheckData
    <2>2. CASE alCurrent' = FALSE
      BY <2>1, <2>2 DEF AlertInv, AlertTypeOK, Told
    <2>3. CASE UNCHANGED <<alStatus, alCurrent>>
      <3>1. Told' /\ alAt' = [h \in Greenlet |-> alAt'[h]]
        BY <2>1 DEF AlertInv, AlertTypeOK, Told
      <3>2. QED
        BY <2>1, <2>3, <3>1, SameAlerts
    <2>4. QED
      BY <2>1, <2>2, <2>3
  <1>6. ASSUME NEW a \in Alert, AL!LatePublished(a) PROVE AlertInv'
    <2>1. UNCHANGED <<alLists, alStatus, alAgg, alAt, alCurrent>>
      BY <1>6 DEF AL!LatePublished
    <2>2. QED
      BY <2>1, SameWorst DEF AlertInv, AlertTypeOK, Told
  <1>7. ASSUME NEW m \in DOMAIN Batch \cup {"quit"}, AL!StopAlerts(m) PROVE AlertInv'
    <2>1. UNCHANGED <<alLists, alStatus, alAgg, alCurrent>>
          /\ alAt' = [alAt EXCEPT !["rpc"] = [AL!Idle EXCEPT !.pc = "stop", !.msg = m, !.list = Len(alLists)]]
      BY <1>7 DEF AL!StopAlerts
    <2>. DEFINE stop == [AL!Idle EXCEPT !.pc = "stop", !.msg = m, !.list = Len(alLists)]
    <2>2. stop.pc = "stop" /\ stop.msg = m
      BY <1>0
    <2>. HIDE DEF stop
    <2>3. Told' /\ alAt' = [h \in Greenlet |-> alAt'[h]]
      BY <2>1, <2>2, <1>7 DEF AlertInv, AlertTypeOK, Told, stop
    <2>4. QED
      BY <2>1, <2>3, SameAlerts
  <1>8. ASSUME NEW b \in DOMAIN Batch, AL!AddAlerts(Batch[b]) PROVE AlertInv'
    <2>1. Batch[b] \in Seq(Alert) /\ Len(alLists) \in 1..Len(alLists)
      BY DEF AL!AlertAssumption, AlertInv, AlertTypeOK
    <2>2. alLists[Len(alLists)] \o Batch[b] \in Seq(Alert)
      BY <2>1 DEF AlertInv, AlertTypeOK
    <2>3. DEFINE L == [alLists EXCEPT ![Len(alLists)] = @ \o Batch[b]]
    <2>4. L \in Seq(Seq(Alert)) /\ Len(L) = Len(alLists)
      BY <2>1, <2>2 DEF AlertInv, AlertTypeOK
    <2>5. alLists' = L /\ alCurrent' = FALSE /\ UNCHANGED <<alAgg, alAt>>
      BY <1>8 DEF AL!AddAlerts
    <2>. HIDE DEF L
    <2>6. QED
      BY <2>4, <2>5, NewList DEF AlertInv, AlertTypeOK
  <1>9. ASSUME AL!Stop PROVE AlertInv'
    <2>1. UNCHANGED <<alLists, alStatus, alAgg, alCurrent>> /\ alAt' = [alAt EXCEPT !["rpc"].pos = @ + 1]
          /\ alAt["rpc"].pc = "stop"
      BY <1>9 DEF AL!Stop
    <2>2. alAt' = [alAt EXCEPT !["rpc"] = alAt'["rpc"]] /\ alAt' = [h \in Greenlet |-> alAt'[h]]
      BY <2>1 DEF AlertInv, AlertTypeOK
    <2>3. alAt'["rpc"] = [alAt["rpc"] EXCEPT !.pos = @ + 1]
      BY <2>1, <1>rpc DEF AlertInv, AlertTypeOK
    <2>4. alAt'["rpc"].pc = alAt["rpc"].pc /\ alAt'["rpc"].msg = alAt["rpc"].msg
      BY <2>3
    <2>5. Told'
      BY <2>1, <2>2, <2>4 DEF AlertInv, AlertTypeOK, Told
    <2>6. QED
      BY <2>1, <2>2, <2>5, SameAlerts
  <1>10. ASSUME AL!Stopped PROVE AlertInv'
    <2>1. alAt' = [alAt EXCEPT !["rpc"] = AL!Idle] /\ UNCHANGED <<alStatus, alAgg>> /\ alAt["rpc"].pc = "stop"
      BY <1>10 DEF AL!Stopped
    <2>2. CASE UNCHANGED <<alLists, alCurrent>>
      <3>1. Told' /\ alAt' = [h \in Greenlet |-> alAt'[h]]
        BY <2>1, <1>rpc, BackToIdle
      <3>2. QED
        BY <2>1, <2>2, <3>1, SameAlerts
    <2>3. CASE alAt["rpc"].msg # "quit" /\ alLists' = Append(alLists, Batch[alAt["rpc"].msg]) /\ alCurrent' = FALSE
      <3>1. Batch[alAt["rpc"].msg] \in Seq(Alert)
        BY <2>1, <2>3 DEF AlertInv, Told, AL!AlertAssumption
      <3>2. Append(alLists, Batch[alAt["rpc"].msg]) \in Seq(Seq(Alert)) /\ Len(Append(alLists, Batch[alAt["rpc"].msg])) > 0
        BY <3>1 DEF AlertInv, AlertTypeOK
      <3>3. QED
        BY <2>1, <2>3, <3>2, NewList
    <2>4. QED
      BY <1>10, <2>2, <2>3 DEF AL!Stopped
  <1>11. CASE UNCHANGED AL!vars
    BY <1>11, SameWorst DEF AL!vars, AlertInv, AlertTypeOK, Told
  <1>12. QED
    BY <1>1, <1>2, <1>3, <1>4, <1>5, <1>6, <1>7, <1>8, <1>9, <1>10, <1>11 DEF AL!Next

(* When every process_alerts has returned the aggregate status is that of  *)
(* the worst alert that is tripped, whichever greenlets evaluated which    *)
(* alerts in which order (process_alerts, _process_aggregate_alerts).  With*)
(* several aggregate types it is false.                                    *)
THEOREM AggregateIsThatOfTheWorst ==
  ASSUME SingleType PROVE AL!Spec => []AggregateIsWorst
  <1>1. ASSUME AL!AlertAssumption, AlertInv PROVE AggregateIsWorst
    <2>1. SUFFICES ASSUME alCurrent
                   PROVE  \A t \in AL!Type :
                            LET tripped == {Def[a].type : a \in {x \in AL!Constructed(AL!Alerts) :
                                                Def[x].aggregate = t /\ alStatus[x] = "tripped"}}
                            IN alAgg[t] = CASE "ALARM" \in tripped -> "CRITICAL"
                                            [] tripped = {"WARNING"} -> "WARNING"
                                            [] tripped = {} -> "OK"
      BY DEF AggregateIsWorst, AL!AggregateIsWorst
    <2>. DEFINE A == AL!Constructed(AL!Alerts)
                tripped == {Def[a].type : a \in {x \in A : Def[x].aggregate = Types[1] /\ alStatus[x] = "tripped"}}
    <2>2. AL!Alerts \in Seq(Alert)
      BY <1>1 DEF AlertInv, AlertTypeOK, AL!Alerts
    <2>3. alAgg[Types[1]] = WorstOf(A)
      BY <1>1, <2>1, <2>2, WorstIsWorstOf DEF AlertInv, AL!Constructed
    <2>4. tripped \subseteq {"WARNING", "ALARM"}
      BY <1>1 DEF AL!AlertAssumption, AL!Constructed
    <2>5. WorstOf(A) = IF "ALARM" \in tripped THEN "CRITICAL" ELSE IF tripped # {} THEN "WARNING" ELSE "OK"
      BY DEF WorstOf
    <2>. HIDE DEF tripped
    <2>6. WorstOf(A) = CASE "ALARM" \in tripped -> "CRITICAL"
                         [] tripped = {"WARNING"} -> "WARNING"
                         [] tripped = {} -> "OK"
      BY <2>4, <2>5
    <2>7. AL!Type = {Types[1]}
      BY TypeFacts
    <2>8. QED
      BY <2>3, <2>6, <2>7 DEF tripped
  <1>2. AlertInv /\ [AL!Next]_(AL!vars) => AlertInv'
    BY SuiteAssumption, StepAlerts
  <1>3. AlertInv => AggregateIsWorst
    BY <1>1, SuiteAssumption
  <1>4. QED
    BY InitAlerts, <1>2, <1>3, PTL DEF AL!Spec
===============================================================================
