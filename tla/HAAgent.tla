-------------------------------- MODULE HAAgent --------------------------------
(***************************************************************************)
(* The high availability agent (ion/agents/cei/high_availability_agent.py) *)
(* over the process dispatcher with its local backend                      *)
(* (ion/services/cei/process_dispatcher_service.py).                       *)
(*                                                                         *)
(* The agent keeps a view of the processes it manages and lets a policy    *)
(* have Target of them.  The view is written by three: the subscriber's    *)
(* callback, the reload before those passes of the policy that a timer     *)
(* starts, and the pass, all with answers that the dispatcher has given    *)
(* some time before.  The policy itself (epu) is external: it counts the   *)
(* processes that are not in a terminal state and schedules or terminates  *)
(* the difference.                                                         *)
(***************************************************************************)
EXTENDS Naturals, Sequences, FiniteSets

LOCAL INSTANCE SequencesExt

CONSTANTS
  Process,     \* ids of processes
  Target,      \* how many the policy preserves
  MaxSpawns,   \* bound: times that one process is spawned
  MaxCancels,  \* bound: processes cancelled by somebody else, together
  MaxCrashes,  \* bound: crashes of the agent
  MaxFailures, \* bound: requests of the agent that fail
  Nil

ProcessAssumption == IsFiniteSet(Process) /\ Nil \notin Process
BoundAssumption == {Target, MaxSpawns, MaxCancels, MaxCrashes, MaxFailures} \subseteq Nat

State == {"REQUESTED", "RUNNING", "TERMINATED"}

VARIABLES
  ha,          \* the agent: none, up, down
  st,          \* the dispatcher's state of each process, Nil if it has none
  spawned,     \* how often the dispatcher has spawned a process
  cancels,     \* how many processes somebody else has cancelled
  crashes,     \* how often the agent has crashed
  failures,    \* how many of its requests have failed
  assoc,       \* hasProcess associations of the service, in the registry
  view,        \* HAProcessControl.processes
  events,      \* lifecycle events on their way to the agent
  callback,    \* the subscriber's callback: Nil, or the event and its answer
  signal,      \* policy_event
  policy       \* the policy thread

dispatcher == <<st, spawned, cancels>>
faults == <<crashes, failures>>
vars == <<ha, dispatcher, faults, assoc, view, events, callback, signal, policy>>

(* policy.at: what the thread does.  start: the agent reads the processes  *)
(* that are associated; old: the view when the reload began; id, answer:   *)
(* the process of a request and what the dispatcher has answered; need: how*)
(* many are to be scheduled.                                               *)
Idle == [at |-> "wait", todo |-> {}, old |-> [p \in Process |-> Nil], id |-> Nil, answer |-> Nil, need |-> 0]

TypeOK ==
  /\ ha \in {"none", "up", "down"}
  /\ st \in [Process -> State \cup {Nil}] /\ view \in [Process -> State \cup {Nil}]
  /\ spawned \in [Process -> 0..MaxSpawns] /\ cancels \in 0..MaxCancels /\ crashes \in 0..MaxCrashes
  /\ failures \in 0..MaxFailures
  /\ assoc \subseteq Process
  /\ events \in Seq(Process \X State) /\ signal \in BOOLEAN
  /\ callback \in [id : Process, state : State, answer : State \cup {Nil}] \cup {Nil}
  /\ policy \in [at : {"start", "wait", "reload", "count", "apply", "create", "schedule"}, todo : SUBSET Process,
                 old : [Process -> State \cup {Nil}], id : Process \cup {Nil}, answer : State \cup {Nil},
                 need : 0..Target]

Init ==
  /\ ha = "none"
  /\ st = [p \in Process |-> Nil] /\ spawned = [p \in Process |-> 0] /\ cancels = 0 /\ crashes = 0 /\ failures = 0
  /\ assoc = {} /\ view = [p \in Process |-> Nil]
  /\ events = <<>> /\ callback = Nil /\ signal = FALSE /\ policy = Idle

PublishAll(P, s) ==
  events' = IF ha = "up" /\ policy.at # "start" THEN events \o [i \in 1..Cardinality(P) |-> <<SetToSeq(P)[i], s>>]
            ELSE events
Publish(p, s) == PublishAll({p}, s)

-----------------------------------------------------------------------------
(* The agent's life                                                        *)

(* on_init; control.start then reads one associated process after the      *)
(* other, and starts the subscriber when it has read them all.             *)
Start ==
  /\ ha' = "up" /\ policy' = [Idle EXCEPT !.at = "start", !.todo = assoc]
  /\ view' = [p \in Process |-> Nil] /\ events' = <<>> /\ callback' = Nil
  /\ UNCHANGED <<dispatcher, faults, assoc, signal>>
FirstStart == ha = "none" /\ Start
Restart == ha = "down" /\ Start

ReadAssociated(p) ==
  /\ ha = "up" /\ policy.at = "start" /\ p \in policy.todo
  /\ view' = [view EXCEPT ![p] = st[p]]
  /\ policy' = [policy EXCEPT !.todo = @ \ {p}]
  /\ UNCHANGED <<ha, dispatcher, faults, assoc, events, callback, signal>>
StartSubscriber ==
  /\ ha = "up" /\ policy.at = "start" /\ policy.todo = {} /\ policy' = Idle /\ signal' = TRUE
  /\ UNCHANGED <<ha, dispatcher, faults, assoc, view, events, callback>>

Crash ==
  /\ ha = "up" /\ crashes < MaxCrashes /\ crashes' = crashes + 1
  /\ ha' = "down" /\ policy' = Idle /\ callback' = Nil /\ events' = <<>> /\ signal' = FALSE
  /\ view' = [p \in Process |-> Nil]
  /\ UNCHANGED <<dispatcher, failures, assoc>>

(* A process is cancelled by somebody else.                                *)
OthersCancel(p) ==
  /\ ha # "none" /\ st[p] = "RUNNING" /\ cancels < MaxCancels /\ cancels' = cancels + 1
  /\ st' = [st EXCEPT ![p] = "TERMINATED"] /\ Publish(p, "TERMINATED")
  /\ UNCHANGED <<ha, spawned, faults, assoc, view, callback, signal, policy>>

-----------------------------------------------------------------------------
(* The subscriber's callback                                               *)

(* It asks for the process, three times at most.                           *)
EventReceived ==
  /\ callback = Nil /\ events # <<>> /\ events' = Tail(events)
  /\ LET p == Head(events)[1] IN
       callback' = IF view[p] = Nil THEN Nil
                   ELSE [id |-> p, state |-> Head(events)[2], answer |-> st[p]]
  /\ UNCHANGED <<ha, dispatcher, faults, assoc, view, policy, signal>>

(* The answer is stored, or without one the event's state: in the very     *)
(* record that a reload under way compares with, if it is still there (one *)
(* that was replaced by its like is taken for the same).                   *)
EventHandled ==
  LET p == callback.id IN
  /\ callback # Nil /\ callback' = Nil /\ signal' = TRUE
  /\ \/ view' = [view EXCEPT ![p] = callback.answer] /\ UNCHANGED policy
     \/ /\ view' = [view EXCEPT ![p] = callback.state]
        /\ policy' = IF policy.old[p] = view[p] THEN [policy EXCEPT !.old[p] = callback.state] ELSE policy
  /\ UNCHANGED <<ha, dispatcher, faults, assoc, events>>

-----------------------------------------------------------------------------
(* The policy thread                                                       *)

Managed == {p \in Process : view[p] # Nil}
Thread(at) == ha = "up" /\ policy.at = at

(* Mutant: the interval does not make it reload.                           *)
WakeByTimerOnly ==
  /\ Thread("wait") /\ ~signal
  /\ policy' = [Idle EXCEPT !.at = "count"]
  /\ UNCHANGED <<ha, dispatcher, faults, assoc, view, events, callback, signal>>

(* An event or the interval wakes it; only the latter makes it reload.     *)
WakeByEvent ==
  /\ Thread("wait") /\ signal /\ signal' = FALSE
  /\ policy' = [Idle EXCEPT !.at = "count"]
  /\ UNCHANGED <<ha, dispatcher, faults, assoc, view, events, callback>>
WakeByTimer ==
  /\ Thread("wait") /\ ~signal
  /\ policy' = [Idle EXCEPT !.at = "reload", !.todo = Managed, !.old = view]
  /\ UNCHANGED <<ha, dispatcher, faults, assoc, view, events, callback, signal>>

(* reload_processes: read, and store what differs from what it was when    *)
(* the loop began.  A read that fails is left to the next reload.          *)
ReloadRead(p) ==
  /\ Thread("reload") /\ policy.id = Nil /\ p \in policy.todo
  /\ \/ policy' = [policy EXCEPT !.todo = @ \ {p}, !.id = p, !.answer = st[p]] /\ UNCHANGED failures
     \/ /\ failures < MaxFailures /\ failures' = failures + 1
        /\ policy' = [policy EXCEPT !.todo = @ \ {p}]
  /\ UNCHANGED <<ha, dispatcher, crashes, assoc, view, events, callback, signal>>
ReloadEnds ==
  /\ Thread("reload") /\ policy.id = Nil /\ policy.todo = {}
  /\ policy' = [Idle EXCEPT !.at = "count"]
  /\ UNCHANGED <<ha, dispatcher, faults, assoc, view, events, callback, signal>>
ReloadStore ==
  /\ Thread("reload") /\ policy.id # Nil
  /\ view' = IF policy.answer # policy.old[policy.id] THEN [view EXCEPT ![policy.id] = policy.answer] ELSE view
  /\ policy' = [policy EXCEPT !.id = Nil, !.answer = Nil]
  /\ UNCHANGED <<ha, dispatcher, faults, assoc, events, callback, signal>>

Healthy == {p \in Managed : view[p] # "TERMINATED"}

(* The policy counts.  Processes too many are cancelled.                   *)
ApplyPolicy ==
  /\ Thread("count")
  /\ policy' = IF Cardinality(Healthy) < Target
               THEN [Idle EXCEPT !.at = "apply", !.need = Target - Cardinality(Healthy)] ELSE Idle
  /\ IF Cardinality(Healthy) > Target
     THEN \E K \in SUBSET Healthy :
            /\ Cardinality(Healthy \ K) = Target
            /\ st' = [p \in Process |-> IF p \in K THEN "TERMINATED" ELSE st[p]] /\ PublishAll(K, "TERMINATED")
     ELSE UNCHANGED <<st, events>>
  /\ UNCHANGED <<ha, spawned, cancels, faults, assoc, view, callback, signal>>

(* schedule_process of the control: a process that has terminated is used  *)
(* again, or else a new one is created.                                    *)
Schedule(p) ==
  /\ Thread("apply") /\ policy.need > 0
  /\ \/ /\ view[p] = "TERMINATED"
        /\ policy' = [policy EXCEPT !.at = "schedule", !.id = p]
        /\ view' = [view EXCEPT ![p] = "REQUESTED"] /\ UNCHANGED st
     \/ /\ \A q \in Process : view[q] # "TERMINATED"
        /\ st[p] = Nil
        /\ st' = [st EXCEPT ![p] = "REQUESTED"] /\ UNCHANGED view
        /\ policy' = [policy EXCEPT !.at = "create", !.id = p]
  /\ UNCHANGED <<ha, spawned, cancels, faults, assoc, events, callback, signal>>

(* The new process is associated; a failure of that is only logged.        *)
Associate ==
  /\ Thread("create")
  /\ \/ assoc' = assoc \cup {policy.id} /\ UNCHANGED failures
     \/ failures < MaxFailures /\ failures' = failures + 1 /\ UNCHANGED assoc
  /\ view' = [view EXCEPT ![policy.id] = "REQUESTED"]
  /\ policy' = [policy EXCEPT !.at = "schedule"]
  /\ UNCHANGED <<ha, dispatcher, crashes, events, callback, signal>>

(* The dispatcher spawns the process; or the request fails, and with it    *)
(* this pass of the policy.                                                *)
Spawn ==
  /\ Thread("schedule") /\ spawned[policy.id] < MaxSpawns
  /\ st' = [st EXCEPT ![policy.id] = "RUNNING"] /\ Publish(policy.id, "RUNNING")
  /\ spawned' = [spawned EXCEPT ![policy.id] = @ + 1]
  /\ policy' = IF policy.need = 1 THEN Idle ELSE [Idle EXCEPT !.at = "apply", !.need = policy.need - 1]
  /\ UNCHANGED <<ha, cancels, faults, assoc, view, callback, signal>>
SpawnFails ==
  /\ failures < MaxFailures /\ failures' = failures + 1
  /\ Thread("schedule") /\ policy' = Idle
  /\ UNCHANGED <<ha, dispatcher, crashes, assoc, view, events, callback, signal>>

Next ==
  \/ FirstStart \/ Restart \/ StartSubscriber \/ Crash
  \/ EventReceived \/ EventHandled \/ WakeByEvent \/ WakeByTimer \/ ReloadStore \/ ReloadEnds \/ ApplyPolicy
  \/ Associate \/ Spawn \/ SpawnFails
  \/ \E p \in Process : \/ ReadAssociated(p) \/ OthersCancel(p) \/ Schedule(p) \/ ReloadRead(p)

Spec == Init /\ [][Next]_vars

(* A crashed agent is restarted, greenlets run and events arrive.          *)
Fairness ==
  /\ WF_vars(Restart) /\ WF_vars(StartSubscriber) /\ \A p \in Process : WF_vars(ReadAssociated(p))
  /\ WF_vars(EventReceived) /\ WF_vars(EventHandled)
  /\ WF_vars(WakeByEvent) /\ SF_vars(WakeByTimer) /\ WF_vars(ReloadStore) /\ WF_vars(ReloadEnds)
  /\ WF_vars(ApplyPolicy) /\ WF_vars(Associate)
  /\ \A p \in Process : WF_vars(ReloadRead(p))
  /\ WF_vars(\E p \in Process : Schedule(p))
  /\ WF_vars(Spawn \/ SpawnFails)
FairSpec == Spec /\ Fairness

-----------------------------------------------------------------------------
(* Properties                                                              *)

Running == {p \in Process : st[p] = "RUNNING"}

(* "This avoids a race between this scheduling process and the event       *)
(* subscriber": a process that runs is not spawned again under its id.     *)
NeverTwice == [][\A p \in Process : spawned'[p] # spawned[p] => st[p] # "RUNNING"]_vars

(* The pass needs an id for a new process and the model has none left.     *)
Exhausted == Thread("apply") /\ \A p \in Process : st[p] # Nil /\ view[p] # "TERMINATED"

(* "These processes will not however be running, so are largely harmless": *)
(* once nobody cancels and nothing crashes, the agent comes to have as     *)
(* many processes running, of those that it knows, as the policy is to     *)
(* preserve, unless one is left that the dispatcher has only created.      *)
(* Events missed before the subscriber started, entries overwritten by     *)
(* older answers and a process too many are made up for by a later pass.   *)
Converges ==
  \/ <>[](ha = "none" \/ \E p \in Process : spawned[p] = MaxSpawns)
  \/ <>[](Cardinality(Running \cap Managed) = Target)
  \/ <>[](\E p \in Process : st[p] = "REQUESTED")
  \/ <>[]Exhausted
=============================================================================
