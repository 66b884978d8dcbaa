------------------------ MODULE EventPersisterProofs ------------------------
(***************************************************************************)
(* The event persister's bookkeeping, proved for every set of events and   *)
(* every sequence of datastore failures.                                   *)
(***************************************************************************)
EXTENDS EventPersister, QueueOpsProofs, FiniteSetTheorems, WellFoundedInduction

LEMMA EmptyRange == Range(<<>>) = {}
  BY DEF Range

(* Taking the batch from the queue only moves the border between them.     *)
LEMMA MoveFacts ==
  ASSUME NEW S, NEW p \in Seq(S), NEW q \in Seq(S)
  PROVE  /\ (p \o <<>>) \o q = p \o q
         /\ (p \o q) \o <<>> = p \o q
  BY ConcatProperties, ConcatEmptySeq

LEMMA InitFlow == Init => FlowInv
<1> SUFFICES ASSUME Init PROVE FlowInv
  OBVIOUS
<1>1. FlowTypeOK
  <2>1. <<>> \in Seq(Event)
    BY EmptySeq
  <2>2. attempts \in [Event -> Nat]
    BY DEF Init
  <2>3. QED
    BY <2>1, <2>2 DEF Init, FlowTypeOK
<1>2. Accounted /\ OnlyBadDiscarded
  BY EmptyRange DEF Init, Accounted, OnlyBadDiscarded
<1>3. ProcessedOnce
  BY ConcatEmptySeq DEF Init, ProcessedOnce
<1>4. QED
  BY <1>1, <1>2, <1>3 DEF Init, FlowInv

(* What the queue holds is the next batch; an empty one is no batch.       *)
LEMMA DrainFacts ==
  ASSUME FlowInv, NEW f \in Nat, Drain(f), pc \in {"wait", "retry", "individual"}
  PROVE  /\ batch' = queue /\ queue' = <<>> /\ failures' \in Nat /\ raised' = raised
         /\ pc' \in {"wait", "persist"}
         /\ processed' = processed /\ accepted' = accepted => ProcessedOnce'
<1>1. /\ batch' = queue /\ queue' = <<>> /\ failures' \in Nat /\ raised' = raised
      /\ IF queue = <<>> THEN pc' = "wait" ELSE pc' = "persist"
  BY DEF Drain
<1>2. ASSUME processed' = processed, accepted' = accepted PROVE ProcessedOnce'
  <2>1. processed \in Seq(Event) /\ queue \in Seq(Event)
    BY DEF FlowInv, FlowTypeOK
  <2>2. (processed \o <<>>) \o queue = accepted
    BY DEF FlowInv, ProcessedOnce
  <2>3. processed \o queue = accepted /\ (processed \o queue) \o <<>> = accepted
    BY <2>1, <2>2, MoveFacts
  <2>4. CASE queue = <<>>
    BY <1>1, <1>2, <2>2, <2>4 DEF ProcessedOnce
  <2>5. CASE queue # <<>>
    BY <1>1, <1>2, <2>3, <2>5 DEF ProcessedOnce
  <2>6. QED
    BY <2>4, <2>5
<1>3. QED
  BY <1>1, <1>2

LEMMA OnEventFlow ==
  ASSUME FlowInv, NEW e \in Event, OnEvent(e)
  PROVE  FlowInv'
<1> USE DEF OnEvent, loop, store
<1>1. /\ queue \in Seq(Event) /\ accepted \in Seq(Event)
      /\ processed \in Seq(Event) /\ batch \in Seq(Event)
  BY DEF FlowInv, FlowTypeOK
<1>2. Range(queue') = Range(queue) \cup {e} /\ Range(accepted') = Range(accepted) \cup {e}
  BY <1>1, AppendFacts
<1>3. FlowTypeOK'
  BY DEF FlowInv, FlowTypeOK
<1>4. Accounted' /\ OnlyBadDiscarded'
  BY <1>2 DEF FlowInv, Accounted, OnlyBadDiscarded
<1>5. ProcessedOnce'
  <2> DEFINE b == IF pc = "persist" THEN batch ELSE <<>>
  <2>1. b \in Seq(Event)
    BY <1>1, EmptySeq
  <2>4. processed \o b \in Seq(Event)
    BY <1>1, <2>1, ConcatProperties
  <2>2. (processed \o b) \o queue = accepted
    BY DEF FlowInv, ProcessedOnce
  <2> HIDE DEF b
  <2>3. /\ <<e>> \in Seq(Event) /\ queue' = queue \o <<e>>
        /\ accepted' = accepted \o <<e>>
    BY <1>1, AppendIsConcat
  <2>5. ASSUME NEW x \in Seq(Event), NEW y \in Seq(Event), NEW z \in Seq(Event)
        PROVE  (x \o y) \o z = x \o (y \o z)
    BY ONLY ConcatAssociative, x \in Seq(Event), y \in Seq(Event), z \in Seq(Event)
  <2>6. ((processed \o b) \o queue) \o <<e>> = (processed \o b) \o (queue \o <<e>>)
    BY ONLY <1>1, <2>3, <2>4, <2>5
  <2>7. QED
    BY <2>2, <2>3, <2>6 DEF ProcessedOnce, b
<1>6. QED
  BY <1>3, <1>4, <1>5 DEF FlowInv

LEMMA CycleFlow ==
  ASSUME FlowInv, Cycle
  PROVE  FlowInv'
<1> USE DEF Cycle, store, history
<1>1. CASE batch = <<>> /\ Drain(failures) /\ todo' = todo
  <2>1. failures \in Nat
    BY DEF FlowInv, FlowTypeOK
  <2>2. /\ batch' = queue /\ queue' = <<>> /\ failures' \in Nat /\ raised' = raised
        /\ pc' \in {"wait", "persist"} /\ ProcessedOnce'
    BY <1>1, <2>1, DrainFacts
  <2>3. FlowTypeOK'
    BY <1>1, <2>2, EmptySeq DEF FlowInv, FlowTypeOK, IO
  <2>4. Accounted' /\ OnlyBadDiscarded'
    BY <1>1, <2>2, EmptyRange DEF FlowInv, Accounted, OnlyBadDiscarded
  <2>5. QED
    BY <2>2, <2>3, <2>4 DEF FlowInv
<1>2. CASE batch # <<>> /\ batch' = batch /\ pc' \in {"individual", "retry"}
           /\ (pc' = "individual" => todo' = batch) /\ (pc' = "retry" => todo' = todo)
           /\ UNCHANGED <<queue, failures, raised>>
  <2>1. FlowTypeOK'
    BY <1>2 DEF FlowInv, FlowTypeOK, IO
  <2>2. Accounted' /\ OnlyBadDiscarded' /\ ProcessedOnce'
    BY <1>2 DEF FlowInv, Accounted, OnlyBadDiscarded, ProcessedOnce
  <2>3. QED
    BY <1>2, <2>1, <2>2 DEF FlowInv
<1>3. QED
  BY <1>1, <1>2

(* A put_events that raises stores a part of the batch, which waits.       *)
LEMMA RaisesFacts ==
  ASSUME FlowInv, PutEventsRaises
  PROVE  /\ stored \subseteq stored' /\ stored' \subseteq Event
         /\ attempts' \in [Event -> Nat]
         /\ faulted' \in BOOLEAN /\ (faulted => faulted')
<1>1. /\ Range(batch) \subseteq Event /\ stored \subseteq Event
      /\ attempts \in [Event -> Nat] /\ faulted \in BOOLEAN
  BY DEF FlowInv, FlowTypeOK, Range
<1>2. stored \subseteq stored' /\ stored' \subseteq Event
  BY <1>1 DEF PutEventsRaises
<1>3. attempts' \in [Event -> Nat]
  <2>1. \A e \in Event : attempts[e] + (IF e \in Range(batch) THEN 1 ELSE 0) \in Nat
    BY <1>1
  <2>2. QED
    BY <2>1 DEF PutEventsRaises
<1>4. faulted' \in BOOLEAN /\ (faulted => faulted')
  BY <1>1, Zenon DEF PutEventsRaises
<1>5. QED
  BY <1>2, <1>3, <1>4

(* One that returns stores it all.                                         *)
LEMMA PutsFacts ==
  ASSUME FlowInv, PutEvents
  PROVE  /\ stored \subseteq stored' /\ stored' \subseteq Event
         /\ attempts' = attempts /\ faulted' = faulted
         /\ Range(batch) \subseteq stored'
  BY DEF FlowInv, FlowTypeOK, Range, PutEvents

(* The batch passes from the persister to the plugin.                      *)
LEMMA ProcessFlow ==
  ASSUME FlowInv, pc = "persist", Process
  PROVE  /\ processed' \in Seq(Event)
         /\ queue' = queue /\ accepted' = accepted => ProcessedOnce'
<1>1. /\ processed \in Seq(Event) /\ batch \in Seq(Event) /\ queue \in Seq(Event)
      /\ (processed \o batch) \o queue = accepted
  BY DEF FlowInv, FlowTypeOK, ProcessedOnce
<1>2. processed' = processed \o batch /\ pc' = "read" /\ processed' \in Seq(Event)
  BY <1>1, ConcatProperties DEF Process
<1>3. (processed' \o <<>>) \o queue = accepted
  BY <1>1, <1>2, MoveFacts
<1>4. QED
  BY <1>2, <1>3 DEF ProcessedOnce

LEMMA PersistFlow ==
  ASSUME FlowInv, PersistOk \/ PersistRaises
  PROVE  FlowInv'
<1>1. /\ pc = "persist" /\ Process /\ queue' = queue /\ accepted' = accepted
      /\ batch' = batch /\ pc' = "read" /\ discarded' = discarded
      /\ UNCHANGED <<subscribed, terminate, todo, failures>>
      /\ raised' \in BOOLEAN
  BY DEF PersistOk, PersistRaises, Process
<1>2. processed' \in Seq(Event) /\ ProcessedOnce'
  BY <1>1, ProcessFlow
<1>3. /\ stored \subseteq stored' /\ stored' \subseteq Event
      /\ attempts' \in [Event -> Nat]
      /\ faulted' \in BOOLEAN /\ (faulted => faulted')
      /\ ~raised' => Range(batch) \subseteq stored'
  <2>1. CASE PersistOk
    BY <2>1, PutsFacts DEF PersistOk, FlowInv, FlowTypeOK
  <2>2. CASE PersistRaises
    BY <2>2, RaisesFacts DEF PersistRaises
  <2>3. QED
    BY <2>1, <2>2
<1>4. FlowTypeOK'
  BY <1>1, <1>2, <1>3 DEF FlowInv, FlowTypeOK, IO
<1>5. Accounted' /\ OnlyBadDiscarded'
  BY <1>1, <1>3 DEF FlowInv, Accounted, OnlyBadDiscarded
<1>6. QED
  BY <1>1, <1>2, <1>3, <1>4, <1>5 DEF FlowInv

LEMMA RetryOkFlow ==
  ASSUME FlowInv, RetryOk
  PROVE  FlowInv'
<1> USE DEF RetryOk
<1>1. failures \in Nat
  BY DEF FlowInv, FlowTypeOK
<1>2. /\ batch' = queue /\ queue' = <<>> /\ failures' \in Nat /\ raised' = raised
      /\ pc' \in {"wait", "persist"} /\ ProcessedOnce'
  BY <1>1, DrainFacts
<1>3. /\ stored \subseteq stored' /\ stored' \subseteq Event
      /\ attempts' = attempts /\ faulted' = faulted
      /\ Range(batch) \subseteq stored'
  BY PutsFacts
<1>4. FlowTypeOK'
  BY <1>2, <1>3, EmptySeq DEF FlowInv, FlowTypeOK, IO
<1>5. Accounted' /\ OnlyBadDiscarded'
  BY <1>2, <1>3, EmptyRange DEF FlowInv, Accounted, OnlyBadDiscarded
<1>6. QED
  BY <1>2, <1>4, <1>5 DEF FlowInv

LEMMA RetryRaisesFlow ==
  ASSUME FlowInv, RetryRaises
  PROVE  FlowInv'
<1>1. /\ stored \subseteq stored' /\ stored' \subseteq Event
      /\ attempts' \in [Event -> Nat]
      /\ faulted' \in BOOLEAN /\ (faulted => faulted')
  BY RaisesFacts DEF RetryRaises
<1>2. /\ pc = "retry" /\ pc' = "wait" /\ raised' = FALSE /\ failures' = failures + 1
      /\ UNCHANGED <<subscribed, queue, terminate, batch, todo, accepted, processed, discarded>>
  BY DEF RetryRaises, Failed
<1>3. FlowTypeOK'
  <2>3. failures \in Nat
    BY DEF FlowInv, FlowTypeOK
  <2>4. failures' \in Nat
    BY <1>2, <2>3
  <2>1. failures' \in Nat /\ pc' \in IO \cup {"wait", "exited"} /\ raised' \in BOOLEAN
    BY <1>2, <2>4, Zenon
  <2>2. QED
    BY <1>1, <1>2, <2>1 DEF FlowInv, FlowTypeOK
<1>4. Accounted' /\ OnlyBadDiscarded' /\ ProcessedOnce'
  BY <1>1, <1>2 DEF FlowInv, Accounted, OnlyBadDiscarded, ProcessedOnce
<1>5. QED
  BY <1>2, <1>3, <1>4 DEF FlowInv

(* One step of the for loop settles one event, stored or discarded.        *)
LEMMA PutEventFlow ==
  ASSUME FlowInv, PutEvent \/ PutEventRaises
  PROVE  FlowInv'
<1> DEFINE e == Head(todo)
<1>1. /\ todo \in Seq(Event) /\ todo # <<>> /\ pc = "individual"
      /\ Range(batch) \subseteq Range(todo) \cup stored \cup discarded
  BY DEF FlowInv, FlowTypeOK, PutEvent, PutEventRaises
<1>2. /\ e \in Event /\ Tail(todo) \in Seq(Event)
      /\ Range(todo) = Range(Tail(todo)) \cup {e}
  BY <1>1, TailFacts
<1>3. Len(Tail(todo)) = Len(todo) - 1 /\ Len(todo) \in Nat \ {0}
  BY <1>1, HeadTailProperties, EmptySeq
<1>4. /\ Len(todo) = 1 => Range(Tail(todo)) = {}
      /\ Len(todo) # 1 => Tail(todo) # <<>>
  <2> DEFINE t == Tail(todo)
  <2>1. t \in Seq(Event) /\ Len(t) = Len(todo) - 1
    BY <1>2, <1>3
  <2> HIDE DEF t
  <2>2. Len(todo) = 1 => Range(t) = {}
    BY <2>1 DEF Range
  <2>3. Len(todo) = 1 => Range(Tail(todo)) = {}
    BY <2>2 DEF t
  <2>4. Tail(todo) = <<>> => Len(Tail(todo)) = 0
    BY EmptySeq
  <2>5. QED
    BY <1>3, <2>3, <2>4
<1> HIDE DEF e
<1>5. /\ e \in stored' \cup discarded'
      /\ stored \subseteq stored' /\ discarded \subseteq discarded'
      /\ stored' \subseteq Event /\ discarded' \subseteq Event
      /\ attempts' \in [Event -> Nat] /\ faulted' \in BOOLEAN
      /\ OnlyBadDiscarded' /\ Loop
  <2>1. CASE PutEvent
    BY <1>2, <2>1 DEF FlowInv, FlowTypeOK, OnlyBadDiscarded, PutEvent, e
  <2>2. CASE PutEventRaises
    <3>1. attempts' \in [Event -> Nat]
      BY <2>2 DEF FlowInv, FlowTypeOK, PutEventRaises
    <3>2. faulted' \in BOOLEAN /\ OnlyBadDiscarded'
      BY <1>2, <2>2, Zenon DEF FlowInv, FlowTypeOK, OnlyBadDiscarded, PutEventRaises, e
    <3>3. QED
      BY <1>2, <2>2, <3>1, <3>2 DEF FlowInv, FlowTypeOK, PutEventRaises, e
  <2>3. QED
    BY <2>1, <2>2
<1>6. Range(batch) \subseteq Range(Tail(todo)) \cup stored' \cup discarded'
  BY <1>1, <1>2, <1>5
<1>7. CASE Len(todo) = 1
  <2>1. Drain(0) /\ todo' = Tail(todo)
    BY <1>5, <1>7 DEF Loop
  <2>2. /\ batch' = queue /\ queue' = <<>> /\ failures' \in Nat /\ raised' = raised
        /\ pc' \in {"wait", "persist"} /\ ProcessedOnce'
    BY <1>1, <1>5, <2>1, DrainFacts DEF Loop
  <2>3. FlowTypeOK'
    BY <1>2, <1>5, <1>7, <2>1, <2>2, EmptySeq DEF FlowInv, FlowTypeOK, IO, Loop
  <2>4. Accounted'
    BY <1>4, <1>5, <1>6, <1>7, <2>2, EmptyRange DEF FlowInv, Accounted, Loop
  <2>5. QED
    BY <1>5, <2>2, <2>3, <2>4 DEF FlowInv
<1>8. CASE Len(todo) # 1
  <2>1. /\ todo' = Tail(todo)
        /\ UNCHANGED <<queue, batch, failures, pc, raised, subscribed, terminate, accepted,
                       processed>>
    BY <1>5, <1>8 DEF Loop
  <2>2. FlowTypeOK'
    BY <1>2, <1>5, <2>1 DEF FlowInv, FlowTypeOK, IO
  <2>3. Accounted' /\ ProcessedOnce'
    BY <1>5, <2>1 DEF FlowInv, Accounted, ProcessedOnce
  <2>4. QED
    BY <1>1, <1>4, <1>5, <1>6, <1>8, <2>1, <2>2, <2>3 DEF FlowInv
<1>9. QED
  BY <1>7, <1>8

(* The plugin does not touch the events datastore or the queue.            *)
LEMMA PluginFlow ==
  ASSUME FlowInv, ReadStates \/ UpdateDocs \/ CreateDocs \/ PluginRaises
  PROVE  FlowInv'
<1> USE DEF Untouched, history
<1>1. /\ pc \in {"read", "update", "create"} /\ pc' \in {"wait", "update", "create"}
      /\ UNCHANGED <<subscribed, queue, terminate, todo, stored, history>>
      /\ failures' \in Nat /\ raised' \in BOOLEAN
      /\ \/ batch' = batch /\ (pc' # "wait" => raised' = raised)
         \/ batch' = <<>> /\ pc' = "wait" /\ ~raised
  <2>1. failures \in Nat /\ failures + 1 \in Nat /\ raised \in BOOLEAN
    BY DEF FlowInv, FlowTypeOK
  <2>A. Processed => /\ pc' = "wait" /\ failures' \in Nat /\ raised' \in BOOLEAN
                     /\ batch' = batch \/ (batch' = <<>> /\ ~raised)
    <3>1. CASE raised
      BY <2>1, <3>1 DEF Processed, Failed
    <3>2. CASE ~raised
      BY <2>1, <3>2, 0 \in Nat, Zenon DEF Processed, Succeeded
    <3>3. QED
      BY <3>1, <3>2
  <2>2. CASE ReadStates
    BY <2>1, <2>2, <2>A DEF ReadStates
  <2>3. CASE UpdateDocs
    BY <2>1, <2>3 DEF UpdateDocs
  <2>4. CASE CreateDocs
    BY <2>1, <2>4, <2>A DEF CreateDocs
  <2>5. CASE PluginRaises
    BY <2>1, <2>5, <2>A DEF PluginRaises
  <2>6. QED
    BY <2>2, <2>3, <2>4, <2>5
<1>2. FlowTypeOK'
  BY <1>1, EmptySeq DEF FlowInv, FlowTypeOK, IO
<1>3. Accounted' /\ OnlyBadDiscarded'
  BY <1>1, EmptyRange DEF FlowInv, Accounted, OnlyBadDiscarded
<1>4. ProcessedOnce'
  BY <1>1 DEF FlowInv, ProcessedOnce
<1>5. QED
  BY <1>1, <1>2, <1>3, <1>4 DEF FlowInv

(* Shutdown, and steps of nobody.                                          *)
LEMMA OtherFlow ==
  ASSUME FlowInv, OnQuit \/ Exit \/ UNCHANGED vars
  PROVE  FlowInv'
<1> USE DEF OnQuit, Exit, vars, loop, store, history
<1>1. FlowTypeOK'
  BY DEF FlowInv, FlowTypeOK, IO
<1>2. Accounted' /\ OnlyBadDiscarded' /\ ProcessedOnce'
  BY DEF FlowInv, Accounted, OnlyBadDiscarded, ProcessedOnce
<1>3. QED
  BY <1>1, <1>2 DEF FlowInv

LEMMA FlowInvariance == Spec => []FlowInv
<1>1. FlowInv /\ [Next]_vars => FlowInv'
  BY OnEventFlow, CycleFlow, PersistFlow, RetryOkFlow, RetryRaisesFlow,
     PutEventFlow, PluginFlow, OtherFlow
  DEF Next, Persister
<1>2. QED
  BY InitFlow, <1>1, PTL DEF Spec

(* An event that was queued is queued, waits to be persisted again, is     *)
(* stored or was discarded by the pass that tries events one by one.       *)
THEOREM NoEventVanishes == Spec => []Accounted
<1>1. FlowInv => Accounted
  BY DEF FlowInv
<1>2. QED
  BY <1>1, FlowInvariance, PTL

(* The plugins see each event that leaves the queue once, in order.        *)
THEOREM PluginsSeeEachEventOnce == Spec => []ProcessedOnce
<1>1. FlowInv => ProcessedOnce
  BY DEF FlowInv
<1>2. QED
  BY <1>1, FlowInvariance, PTL

(* While the datastore fails only because of bad events, none but these is *)
(* discarded.                                                              *)
THEOREM GoodEventsAreKept == Spec => []OnlyBadDiscarded
<1>1. FlowInv => OnlyBadDiscarded
  BY DEF FlowInv
<1>2. QED
  BY <1>1, FlowInvariance, PTL

(* Places in a sequence have a greatest one.                               *)
LEMMA GreatestPlace ==
  ASSUME NEW n \in Nat, NEW S \in SUBSET (1..n), S # {}
  PROVE  Max(S) \in S /\ \A k \in S : k <= Max(S)
<1> DEFINE T == {k..n : k \in S}
<1>1. T \subseteq FiniteSubsetsOf(Nat) /\ T # {}
  <2>1. \A k \in S : k \in Nat /\ k..n \subseteq Nat /\ IsFiniteSet(k..n)
    BY FS_Interval
  <2>2. QED
    BY <2>1 DEF FiniteSubsetsOf
<1>2. PICK x \in T : \A y \in T : <<y, x>> \notin StrictSubsetOrdering(Nat)
  <2> HIDE DEF T
  <2>1. QED
    BY <1>1, FS_StrictSubsetOrderingWellFounded, WFMin
<1>3. PICK m \in S : x = m..n
  BY <1>2
<1>4. ASSUME NEW k \in S, m < k PROVE FALSE
  <2>1. k..n \in T /\ k..n \subseteq m..n /\ m \in m..n /\ m \notin k..n /\ m..n \subseteq Nat
    BY <1>4
  <2>2. <<k..n, m..n>> \notin StrictSubsetOrdering(Nat)
    BY <1>2, <1>3, <2>1
  <2>3. QED
    BY <2>1, <2>2 DEF StrictSubsetOrdering
<1>5. \E y \in S : \A k \in S : y >= k
  BY <1>4
<1>6. QED
  BY <1>5 DEF Max

(* What the plugin looks at is the end of what it was given, and until a   *)
(* device's document is written its current state came before that.        *)
StateInv ==
  /\ FlowTypeOK /\ states \in [Device -> StateDoc \cup {Nil}]
  /\ StateOrdered
  /\ pc \in {"read", "update", "create"} =>
       /\ Len(batch) <= Len(processed)
       /\ \A i \in DOMAIN batch : processed[(Len(processed) - Len(batch)) + i] = batch[i]
  /\ \A d \in Device : states[d] # Nil =>
       \E i \in DOMAIN processed :
         /\ processed[i] = states[d].current
         /\ pc \in {"read", "update"} => i <= Len(processed) - Len(batch)

(* A document that is written from the batch is in order.                  *)
LEMMA FoldedFacts ==
  ASSUME FlowTypeOK, NEW d \in Device, d \in Touched,
         Len(batch) <= Len(processed),
         \A i \in DOMAIN batch : processed[(Len(processed) - Len(batch)) + i] = batch[i],
         states[d] # Nil =>
           /\ states[d] \in StateDoc /\ Origin[states[d].current] = d
           /\ \E i \in DOMAIN processed : processed[i] = states[d].current
                /\ i <= Len(processed) - Len(batch)
  PROVE  /\ Folded(d) \in StateDoc /\ Origin[Folded(d).current] = d
         /\ \E i \in DOMAIN processed : processed[i] = Folded(d).current
         /\ Folded(d).prior # Nil => Origin[Folded(d).prior] = d
              /\ Before(Folded(d).prior, Folded(d).current)
<1> DEFINE n == Len(batch)
           N == Len(processed)
           R == Reports(d)
           m == Max(R)
           E == R \ {m}
           k == Max(E)
<1>1. /\ batch \in Seq(Event) /\ processed \in Seq(Event) /\ n \in Nat /\ N \in Nat
      /\ DOMAIN batch = 1..n /\ DOMAIN processed = 1..N
  BY DEF FlowTypeOK
<1>2. R \in SUBSET (1..n) /\ R # {}
  BY <1>1 DEF Reports, Touched
<1>3. m \in R /\ \A i \in R : i <= m
  <2> HIDE DEF R, n
  <2>1. QED
    BY <1>1, <1>2, GreatestPlace
<1>4. E # {} => k \in E
  <2>1. E \in SUBSET (1..n)
    BY <1>2
  <2> HIDE DEF E, n
  <2>2. QED
    BY <1>1, <2>1, GreatestPlace
<1>5. \A i \in R : /\ i \in 1..n /\ batch[i] \in Event /\ Origin[batch[i]] = d
                   /\ (N - n) + i \in 1..N /\ processed[(N - n) + i] = batch[i]
  BY <1>1, <1>2 DEF Reports
<1>6. Folded(d) = [current |-> batch[m],
                   prior |-> CASE E # {} -> batch[k]
                               [] E = {} /\ states[d] = Nil -> Nil
                               [] OTHER -> states[d].current]
  BY DEF Folded
<1> HIDE DEF R, m, E, k
<1>7. /\ Folded(d).current = batch[m] /\ batch[m] \in Event /\ Origin[batch[m]] = d
      /\ \E i \in DOMAIN processed : processed[i] = Folded(d).current
  BY <1>1, <1>3, <1>5, <1>6
<1>8. CASE E # {}
  <2>1. k \in R /\ k < m
    <3>1. k \in R /\ k # m
      BY <1>4, <1>8 DEF E
    <3>2. QED
      BY <1>3, <1>5, <3>1
  <2>2. Folded(d) = [current |-> batch[m], prior |-> batch[k]]
    BY <1>6, <1>8
  <2>3. Before(batch[k], batch[m])
    <3>1. /\ (N - n) + k \in DOMAIN processed /\ (N - n) + m \in DOMAIN processed
          /\ (N - n) + k < (N - n) + m
      BY <1>1, <1>3, <1>5, <2>1
    <3>2. QED
      BY <1>3, <1>5, <2>1, <3>1 DEF Before
  <2>4. QED
    BY <1>3, <1>5, <1>7, <2>1, <2>2, <2>3 DEF StateDoc
<1>9. CASE E = {} /\ states[d] = Nil
  <2>1. Folded(d) = [current |-> batch[m], prior |-> Nil]
    BY <1>6, <1>9
  <2>2. QED
    BY <1>3, <1>5, <1>7, <2>1 DEF StateDoc
<1>10. CASE E = {} /\ states[d] # Nil
  <2>1. Folded(d) = [current |-> batch[m], prior |-> states[d].current]
    BY <1>6, <1>10
  <2>2. PICK i \in DOMAIN processed : processed[i] = states[d].current /\ i <= N - n
    BY <1>10
  <2>3. Before(states[d].current, batch[m])
    <3>1. (N - n) + m \in DOMAIN processed /\ i < (N - n) + m
      BY <1>1, <1>3, <1>5, <2>2
    <3>2. QED
      BY <1>3, <1>5, <2>2, <3>1 DEF Before
  <2>4. states[d].current \in Event \cup {Nil}
    BY <1>10 DEF StateDoc
  <2>5. QED
    BY <1>3, <1>5, <1>7, <1>10, <2>1, <2>3, <2>4 DEF StateDoc
<1>11. QED
  BY <1>8, <1>9, <1>10

LEMMA InitStates == Init => StateInv
<1> SUFFICES ASSUME Init PROVE StateInv
  OBVIOUS
<1>1. FlowTypeOK
  BY InitFlow DEF FlowInv
<1>2. QED
  BY <1>1 DEF Init, StateInv, StateOrdered

(* A step that does not concern the plugin.                                *)
LEMMA OtherStates ==
  ASSUME StateInv, FlowTypeOK', UNCHANGED <<states, processed>>,
         pc' \notin {"read", "update", "create"} \/ UNCHANGED <<pc, batch>>
  PROVE  StateInv'
<1>1. StateOrdered'
  BY DEF StateInv, StateOrdered, Before
<1>2. QED
  BY <1>1 DEF StateInv

(* The batch is put at the end of what was processed.                      *)
LEMMA ProcessStates ==
  ASSUME StateInv, FlowTypeOK', UNCHANGED states, Process
  PROVE  StateInv'
<1> DEFINE n == Len(batch)
           N == Len(processed)
<1>1. /\ batch \in Seq(Event) /\ processed \in Seq(Event) /\ n \in Nat /\ N \in Nat
      /\ DOMAIN batch = 1..n /\ DOMAIN processed = 1..N
      /\ processed' = processed \o batch /\ batch' = batch /\ pc' = "read"
  BY DEF StateInv, FlowTypeOK, Process
<1>2. /\ Len(processed') = N + n /\ DOMAIN processed' = 1..(N + n)
      /\ \A i \in 1..N : processed'[i] = processed[i]
      /\ \A i \in 1..n : processed'[N + i] = batch[i]
  BY <1>1
<1> HIDE DEF n, N
<1>3. /\ Len(batch') = n /\ n <= Len(processed') /\ Len(processed') - n = N
         /\ 1..N \subseteq 1..(N + n)
  BY <1>1, <1>2 DEF n
<1>4. \A a, b : Before(a, b) => Before(a, b)'
  BY <1>1, <1>2, <1>3 DEF Before
<1>5. StateOrdered'
  BY <1>4 DEF StateInv, StateOrdered
<1>6. \A i \in DOMAIN batch' : processed'[(Len(processed') - Len(batch')) + i] = batch'[i]
  BY <1>1, <1>2, <1>3
<1>7. ASSUME NEW d \in Device, states[d] # Nil
      PROVE  \E i \in DOMAIN processed' :
               processed'[i] = states[d].current /\ i <= Len(processed') - Len(batch')
  <2>1. PICK i \in DOMAIN processed : processed[i] = states[d].current
    BY <1>7 DEF StateInv
  <2>2. QED
    BY <1>1, <1>2, <1>3, <2>1
<1>8. QED
  BY <1>1, <1>3, <1>5, <1>6, <1>7 DEF StateInv

(* Documents are written: those there were, then those there were not.     *)
LEMMA WriteStates ==
  ASSUME StateInv, FlowTypeOK', UNCHANGED processed, pc \in {"update", "create"},
         (pc' = "create" /\ batch' = batch) \/ pc' = "wait",
         pc = "update" => pc' = "create",
         NEW D \in SUBSET Touched, pc = "create" => \A d \in D : states[d] = Nil,
         states' = [d \in Device |-> IF d \in D THEN Folded(d) ELSE states[d]]
  PROVE  StateInv'
<1>1. ASSUME NEW d \in D
      PROVE  /\ Folded(d) \in StateDoc /\ Origin[Folded(d).current] = d
             /\ \E i \in DOMAIN processed : processed[i] = Folded(d).current
             /\ Folded(d).prior # Nil => Origin[Folded(d).prior] = d
                  /\ Before(Folded(d).prior, Folded(d).current)
  <2>1. /\ FlowTypeOK /\ d \in Device /\ d \in Touched /\ Len(batch) <= Len(processed)
        /\ \A i \in DOMAIN batch : processed[(Len(processed) - Len(batch)) + i] = batch[i]
    BY DEF StateInv, Touched
  <2>2. states[d] # Nil =>
           /\ states[d] \in StateDoc /\ Origin[states[d].current] = d
           /\ \E i \in DOMAIN processed : processed[i] = states[d].current
                /\ i <= Len(processed) - Len(batch)
    BY <2>1 DEF StateInv, StateOrdered
  <2>3. QED
    BY <2>1, <2>2, FoldedFacts
<1>2. \A a, b : Before(a, b)' = Before(a, b)
  BY DEF Before
<1>3. states' \in [Device -> StateDoc \cup {Nil}]
  BY <1>1 DEF StateInv
<1>4. ASSUME NEW d \in Device, states'[d] # Nil
      PROVE  /\ Origin[states'[d].current] = d
             /\ states'[d].prior # Nil => Origin[states'[d].prior] = d
                  /\ Before(states'[d].prior, states'[d].current)
             /\ \E i \in DOMAIN processed : processed[i] = states'[d].current
  <2>1. CASE d \in D
    <3>1. states'[d] = Folded(d)
      BY <2>1
    <3>2. QED
      BY <1>1, <2>1, <3>1
  <2>2. CASE d \notin D
    <3>1. states'[d] = states[d]
      BY <2>2
    <3>2. QED
      BY <1>4, <3>1 DEF StateInv, StateOrdered
  <2>3. QED
    BY <2>1, <2>2
<1>5. StateOrdered'
  BY <1>2, <1>4 DEF StateOrdered
<1>6. QED
  BY <1>3, <1>4, <1>5 DEF StateInv

LEMMA StepStates == StateInv /\ FlowInv /\ FlowInv' /\ [Next]_vars => StateInv'
<1> SUFFICES ASSUME StateInv, FlowInv, FlowInv', [Next]_vars PROVE StateInv'
  OBVIOUS
<1>1. FlowTypeOK'
  BY DEF FlowInv
<1>2. CASE UNCHANGED vars
  BY <1>1, <1>2, OtherStates DEF vars, loop, store, history
<1>3. ASSUME NEW e \in Event, OnEvent(e) PROVE StateInv'
  BY <1>1, <1>3, OtherStates DEF OnEvent, loop, store
<1>4. CASE OnQuit \/ Exit \/ RetryRaises
  BY <1>1, <1>4, OtherStates DEF OnQuit, Exit, RetryRaises, Failed, loop, store, history
<1>5. CASE Cycle \/ RetryOk
  BY <1>1, <1>5, OtherStates DEF Cycle, RetryOk, Drain, store, history
<1>6. CASE PutEvent \/ PutEventRaises
  BY <1>1, <1>6, OtherStates DEF PutEvent, PutEventRaises, Loop, Drain
<1>7. CASE PersistOk \/ PersistRaises
  BY <1>1, <1>7, ProcessStates DEF PersistOk, PersistRaises
<1>8. Processed => pc' = "wait"
  BY DEF Processed, Failed, Succeeded
<1>9. CASE ReadStates
  <2>1. UNCHANGED <<states, processed>>
    BY <1>9 DEF ReadStates, Untouched, history
  <2>2. CASE Touched = {}
    BY <1>1, <1>8, <1>9, <2>1, <2>2, OtherStates DEF ReadStates
  <2>3. CASE Touched # {}
    <3>1. pc = "read" /\ pc' = "update" /\ batch' = batch
      BY <1>9, <2>3 DEF ReadStates
    <3>2. StateOrdered'
      BY <2>1 DEF StateInv, StateOrdered, Before
    <3>3. QED
      BY <1>1, <2>1, <3>1, <3>2 DEF StateInv
  <2>4. QED
    BY <2>2, <2>3
<1>10. CASE PluginRaises
  BY <1>1, <1>8, <1>10, OtherStates DEF PluginRaises, Untouched, history
<1>11. CASE UpdateDocs
  <2> DEFINE D == {d \in Touched : states[d] # Nil}
  <2>1. /\ pc = "update" /\ pc' = "create" /\ UNCHANGED <<processed, batch>> /\ D \in SUBSET Touched
        /\ states' = [d \in Device |-> IF d \in D THEN Folded(d) ELSE states[d]]
    BY <1>11 DEF UpdateDocs, Untouched, history
  <2> HIDE DEF D
  <2>2. QED
    BY <1>1, <2>1, WriteStates
<1>12. CASE CreateDocs
  <2> DEFINE D == {d \in Touched : states[d] = Nil}
  <2>1. /\ pc = "create" /\ pc' = "wait" /\ UNCHANGED processed /\ D \in SUBSET Touched
        /\ states' = [d \in Device |-> IF d \in D THEN Folded(d) ELSE states[d]]
        /\ \A d \in D : states[d] = Nil
    BY <1>8, <1>12 DEF CreateDocs, Untouched, history
  <2> HIDE DEF D
  <2>2. QED
    BY <1>1, <2>1, WriteStates
<1>13. QED
  BY <1>2, <1>3, <1>4, <1>5, <1>6, <1>7, <1>9, <1>10, <1>11, <1>12 DEF Next, Persister

(* A device's persisted state came after its prior state, and both are     *)
(* states that the device reported, whatever the datastores refuse.        *)
THEOREM DeviceStatesAreOrdered == Spec => []StateOrdered
<1>1. StateInv => StateOrdered
  BY DEF StateInv
<1>2. StateInv /\ FlowInv /\ FlowInv' /\ [Next]_vars => StateInv'
  BY StepStates
<1>3. QED
  BY InitStates, <1>1, <1>2, FlowInvariance, PTL DEF Spec
=============================================================================
