--------------------------- MODULE EventPersister ---------------------------
(***************************************************************************)
(* The process that persists every event                                   *)
(* (ion/processes/event/event_persister.py) and its one plugin, which      *)
(* keeps the last state of each device (ion/processes/event/               *)
(* device_state.py).  The subscriber's greenlet queues events; the         *)
(* persister's greenlet wakes once an interval, retries what a failed      *)
(* datastore call left over, then takes all that is queued, persists it in *)
(* bulk and gives it to the plugin.  It yields while it waits and in every *)
(* datastore call.                                                         *)
(***************************************************************************)
EXTENDS Naturals, Sequences, FiniteSets, Functions, SequencesExt

CONSTANTS
  Event,         \* the events that are published, each once
  Bad,           \* the ones that the events datastore never accepts
  Blacklisted,   \* the ones whose type, or a base type, is blacklisted
  Device,        \* origins of the events that the plugin recognizes
  Origin,        \* an event's device, or Nil when it is not recognized
  Nil            \* Python's None, and the "" of a state that is not known

ASSUME EventAssumption == Bad \subseteq Event /\ Blacklisted \subseteq Event
ASSUME OriginAssumption == Origin \in [Event -> Device \cup {Nil}]
ASSUME NilAssumption == Nil \notin Event \cup Device

VARIABLES
  subscribed,    \* event_sub is started
  queue,         \* event_queue
  batch,         \* events_to_persist; <<>> for None
  failures,      \* failure_count
  terminate,     \* _terminate_persist
  pc, todo,      \* the persister greenlet, and what is left of its for loop
  raised,        \* put_events has raised; the finally block is under way
  stored,        \* the events datastore
  states,        \* the object store: each device's state document, or Nil
  accepted, processed,                  \* history: sequences of events
  discarded, attempts, faulted          \* history: see the properties

store == <<stored, states>>
history == <<accepted, processed, discarded, attempts, faulted>>
loop == <<batch, failures, pc, todo, raised>>
vars == <<subscribed, queue, loop, terminate, store, history>>

StateDoc == [prior : Event \cup {Nil}, current : Event \cup {Nil}]
IO == {"individual", "retry", "persist", "read", "update", "create"}

FlowTypeOK ==
  /\ subscribed \in BOOLEAN /\ terminate \in BOOLEAN /\ raised \in BOOLEAN
  /\ queue \in Seq(Event) /\ batch \in Seq(Event) /\ todo \in Seq(Event)
  /\ failures \in Nat /\ pc \in IO \cup {"wait", "exited"}
  /\ stored \subseteq Event
  /\ accepted \in Seq(Event) /\ processed \in Seq(Event)
  /\ discarded \subseteq Event /\ attempts \in [Event -> Nat]
  /\ faulted \in BOOLEAN

TypeOK == FlowTypeOK /\ states \in [Device -> StateDoc \cup {Nil}]

Init ==
  /\ subscribed = TRUE /\ terminate = FALSE /\ raised = FALSE
  /\ queue = <<>> /\ batch = <<>> /\ todo = <<>>
  /\ failures = 0 /\ pc = "wait"
  /\ stored = {} /\ states = [d \in Device |-> Nil]
  /\ accepted = <<>> /\ processed = <<>>
  /\ discarded = {} /\ attempts = [e \in Event |-> 0]
  /\ faulted = FALSE

-----------------------------------------------------------------------------
(* The subscriber                                                          *)

(* _on_event: an event is published and delivered.                         *)
OnEvent(e) ==
  /\ subscribed
  /\ e \notin Range(accepted) \cup Blacklisted
  /\ queue' = Append(queue, e)
  /\ accepted' = Append(accepted, e)
  /\ UNCHANGED <<subscribed, loop, terminate, store, processed, discarded,
                 attempts, faulted>>

-----------------------------------------------------------------------------
(* The persister greenlet                                                  *)

(* The rest of a cycle that did not fail, or has nothing to persist.       *)
Succeeded ==
  /\ pc' = "wait" /\ batch' = <<>> /\ failures' = 0 /\ raised' = FALSE

(* An exception reaches the handler of the cycle.                          *)
Failed == pc' = "wait" /\ failures' = failures + 1 /\ raised' = FALSE

(* Everything that is queued becomes the batch; bulk persisting starts.    *)
Drain(f) ==
  /\ batch' = queue /\ queue' = <<>>
  /\ IF queue = <<>> THEN pc' = "wait" /\ failures' = 0
                     ELSE pc' = "persist" /\ failures' = f
  /\ UNCHANGED raised

CycleLate ==                \* mutant: one more attempt in bulk
  /\ pc = "wait" /\ ~terminate
  /\ \/ /\ batch = <<>>
        /\ Drain(failures)
        /\ UNCHANGED todo
     \/ /\ batch # <<>>
        /\ pc' = (IF failures > 3 THEN "individual" ELSE "retry")
        /\ todo' = (IF failures > 3 THEN batch ELSE todo)
        /\ UNCHANGED <<queue, batch, failures, raised>>
  /\ UNCHANGED <<subscribed, terminate, store, history>>

CycleStuck ==               \* mutant: nothing is done once three attempts failed
  /\ pc = "wait" /\ ~terminate
  /\ \/ /\ batch = <<>>
        /\ Drain(failures)
        /\ UNCHANGED todo
     \/ /\ batch # <<>> /\ failures <= 2
        /\ pc' = "retry"
        /\ UNCHANGED <<queue, batch, failures, todo, raised>>
  /\ UNCHANGED <<subscribed, terminate, store, history>>

(* The wait times out: one cycle.                                          *)
Cycle ==
  /\ pc = "wait" /\ ~terminate
  /\ \/ /\ batch = <<>>
        /\ Drain(failures)
        /\ UNCHANGED todo
     \/ /\ batch # <<>> /\ failures > 2
        /\ pc' = "individual" /\ todo' = batch
        /\ UNCHANGED <<queue, batch, failures, raised>>
     \/ /\ batch # <<>> /\ failures <= 2
        /\ pc' = "retry"
        /\ UNCHANGED <<queue, batch, failures, todo, raised>>
  /\ UNCHANGED <<subscribed, terminate, store, history>>

(* put_events stores the whole batch.                                      *)
PutEvents ==
  /\ Range(batch) \cap Bad = {}
  /\ stored' = stored \cup Range(batch)
  /\ UNCHANGED <<attempts, faulted>>

(* put_events raises; a part of the batch may be stored.  It need not be   *)
(* for a bad event: the datastore may be away for a while.                 *)
PutEventsRaises ==
  /\ \E part \in SUBSET (Range(batch) \ Bad) : stored' = stored \cup part
  /\ attempts' = [e \in Event |-> attempts[e] + IF e \in Range(batch) THEN 1 ELSE 0]
  /\ faulted' = (faulted \/ Range(batch) \cap Bad = {})

(* The batch's events of a device, by their places.                        *)
Reports(d) == {i \in DOMAIN batch : Origin[batch[i]] = d}
Touched == {d \in Device : Reports(d) # {}}

(* The finally block: the plugin looks at the batch.                       *)
Process ==
  /\ processed' = processed \o batch
  /\ pc' = "read"
  /\ UNCHANGED <<batch, failures>>

PersistOk ==
  /\ pc = "persist"
  /\ PutEvents
  /\ Process /\ raised' = FALSE
  /\ UNCHANGED <<subscribed, queue, terminate, todo, states, accepted, discarded>>

PersistRaises ==
  /\ pc = "persist"
  /\ PutEventsRaises
  /\ Process /\ raised' = TRUE
  /\ UNCHANGED <<subscribed, queue, terminate, todo, states, accepted, discarded>>

RetryOkProcesses ==         \* mutant: the plugin gets a retried batch again
  /\ pc = "retry"
  /\ PutEvents
  /\ Process /\ raised' = FALSE
  /\ UNCHANGED <<subscribed, queue, terminate, todo, states, accepted, discarded>>

(* The batch of an earlier cycle is stored; the cycle goes on with the     *)
(* queue, and failure_count is left as it is.                              *)
RetryOk ==
  /\ pc = "retry"
  /\ PutEvents
  /\ Drain(failures)
  /\ UNCHANGED <<subscribed, terminate, todo, states, accepted, processed, discarded>>

RetryRaisesDrops ==         \* mutant: events_to_persist is cleared before the retry
  /\ pc = "retry"
  /\ PutEventsRaises
  /\ Failed /\ batch' = <<>>
  /\ UNCHANGED <<subscribed, queue, terminate, todo, states, accepted, processed, discarded>>

RetryRaises ==
  /\ pc = "retry"
  /\ PutEventsRaises
  /\ Failed
  /\ UNCHANGED <<subscribed, queue, terminate, batch, todo, states, accepted,
                 processed, discarded>>

(* put_event for the next event of the for loop; after the last one what   *)
(* failed is dropped and the cycle goes on with the queue.                 *)
Loop ==
  /\ todo' = Tail(todo)
  /\ IF Len(todo) = 1 THEN Drain(0)
                      ELSE UNCHANGED <<queue, batch, failures, pc, raised>>
  /\ UNCHANGED <<subscribed, terminate, states, accepted, processed>>

PutEvent ==
  /\ pc = "individual"
  /\ Head(todo) \notin Bad
  /\ stored' = stored \cup {Head(todo)}
  /\ Loop
  /\ UNCHANGED <<discarded, attempts, faulted>>

PutEventRaisesStops ==      \* mutant: the try block is around the for loop
  /\ pc = "individual"
  /\ discarded' = discarded \cup Range(todo)
  /\ attempts' = [attempts EXCEPT ![Head(todo)] = @ + 1]
  /\ faulted' = (faulted \/ Head(todo) \notin Bad)
  /\ todo' = <<>>
  /\ Drain(0)
  /\ UNCHANGED <<subscribed, terminate, store, accepted, processed>>

PutEventRaises ==
  /\ pc = "individual"
  /\ discarded' = discarded \cup {Head(todo)}
  /\ attempts' = [attempts EXCEPT ![Head(todo)] = @ + 1]
  /\ faulted' = (faulted \/ Head(todo) \notin Bad)
  /\ Loop
  /\ UNCHANGED stored

-----------------------------------------------------------------------------
(* DeviceStateManager.persist_events_state.  The plugin is the only writer *)
(* of the device states, so what it read is what it updates.               *)

(* update_device_state for the device's events in the batch, in order: the *)
(* last is the current state, and the one before it is the prior state.    *)
FoldedSwapped(d) ==         \* mutant: current is assigned before prior is saved
  [current |-> batch[Max(Reports(d))], prior |-> batch[Max(Reports(d))]]

Folded(d) ==
  LET last == Max(Reports(d))
      earlier == Reports(d) \ {last}
  IN [current |-> batch[last],
      prior |-> CASE earlier # {} -> batch[Max(earlier)]
                  [] earlier = {} /\ states[d] = Nil -> Nil
                  [] OTHER -> states[d].current]

(* process_events returns, or what it raised is logged.                    *)
Processed ==
  IF raised THEN Failed /\ UNCHANGED batch ELSE Succeeded

Untouched == <<subscribed, queue, terminate, todo, stored, history>>

(* Nothing is recognized, or the states are read.                          *)
ReadStates ==
  /\ pc = "read"
  /\ IF Touched = {} THEN Processed
                     ELSE pc' = "update" /\ UNCHANGED <<batch, failures, raised>>
  /\ UNCHANGED <<states, Untouched>>

UpdateDocs ==
  /\ pc = "update"
  /\ states' = [d \in Device |-> IF d \in Touched /\ states[d] # Nil
                                 THEN Folded(d) ELSE states[d]]
  /\ pc' = "create"
  /\ UNCHANGED <<batch, failures, raised, Untouched>>

CreateDocs ==
  /\ pc = "create"
  /\ states' = [d \in Device |-> IF d \in Touched /\ states[d] = Nil
                                 THEN Folded(d) ELSE states[d]]
  /\ Processed
  /\ UNCHANGED Untouched

(* The object store is away: the rest of the plugin's work is skipped.     *)
PluginRaises ==
  /\ pc \in {"read", "update", "create"} /\ Touched # {}
  /\ Processed
  /\ UNCHANGED <<states, Untouched>>

-----------------------------------------------------------------------------
(* Shutdown                                                                *)

(* on_quit: the subscriber stops, and the loop is told to.                 *)
OnQuit ==
  /\ subscribed
  /\ subscribed' = FALSE /\ terminate' = TRUE
  /\ UNCHANGED <<queue, loop, store, history>>

(* The wait returns True.                                                  *)
Exit ==
  /\ pc = "wait" /\ terminate
  /\ pc' = "exited"
  /\ UNCHANGED <<subscribed, queue, batch, failures, terminate, todo, raised, store, history>>

Persister ==
  \/ Cycle \/ Exit
  \/ PersistOk \/ PersistRaises \/ RetryOk \/ RetryRaises
  \/ PutEvent \/ PutEventRaises
  \/ ReadStates \/ UpdateDocs \/ CreateDocs \/ PluginRaises

Next == (\E e \in Event : OnEvent(e)) \/ Persister \/ OnQuit

Spec == Init /\ [][Next]_vars

-----------------------------------------------------------------------------
(* Properties                                                              *)

(* An event that was queued is in the queue, waits to be persisted again,  *)
(* is stored, or was discarded after a put_event of its own: no            *)
(* interleaving of the subscriber, the cycles and the datastore's failures *)
(* loses one.                                                              *)
Accounted == Range(accepted) \subseteq Range(queue) \cup Range(batch) \cup stored \cup discarded

(* While the datastore refuses nothing but bad events, bulk persisting     *)
(* that fails because of a bad event costs no other event.                 *)
OnlyBadDiscarded == ~faulted => discarded \subseteq Bad

(* An event is discarded only after two attempts at least, in bulk and on  *)
(* its own, and no event is tried more than four times.                    *)
DiscardEarned == \A e \in Event : attempts[e] <= 4 /\ (e \in discarded => attempts[e] >= 2)

(* The plugins see every event that leaves the queue once, in the order of *)
(* arrival, whatever fails: a retried batch is not processed again.        *)
ProcessedOnce ==
  processed \o (IF pc = "persist" THEN batch ELSE <<>>) \o queue = accepted

(* The inductive invariant behind the three: what is left of the for loop  *)
(* covers what the pass has not settled, and without an exception the      *)
(* batch is stored before the plugin sees it.                              *)
FlowInv ==
  /\ FlowTypeOK
  /\ Accounted /\ OnlyBadDiscarded /\ ProcessedOnce
  /\ pc = "individual" =>
       todo # <<>> /\ Range(batch) \subseteq Range(todo) \cup stored \cup discarded
  /\ pc \in {"read", "update", "create"} /\ ~raised => Range(batch) \subseteq stored

(* A device's persisted state came after its prior state, and both are     *)
(* states that the device reported.                                        *)
Before(a, b) == \E i, j \in DOMAIN processed : i < j /\ processed[i] = a /\ processed[j] = b
StateOrdered ==
  \A d \in Device : states[d] # Nil =>
    LET s == states[d] IN
      /\ Origin[s.current] = d
      /\ s.prior # Nil => Origin[s.prior] = d /\ Before(s.prior, s.current)

(* Calls return, so the greenlet goes on.  Nothing is assumed of when the  *)
(* datastores succeed.                                                     *)
Fairness == WF_vars(Persister)
FairSpec == Spec /\ Fairness

(* No failure blocks the queue: each event is stored or discarded, unless  *)
(* the process is told to quit.                                            *)
EveryEventSettles ==
  \A e \in Event : e \in Range(accepted) ~> e \in stored \cup discarded \/ terminate

=============================================================================
