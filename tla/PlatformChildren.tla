--------------------------- MODULE PlatformChildren ---------------------------
(***************************************************************************)
(* What a platform agent does with its children: instruments and           *)
(* sub-platforms, each an agent in a process of its own                    *)
(* (ion/agents/platform/platform_agent.py, launcher.py and the process     *)
(* events of status_manager.py).                                           *)
(*                                                                         *)
(* The platform launches them, keeps a client for each, passes commands on *)
(* and terminates them.  A child's process may also die and be started     *)
(* again by somebody else: its TERMINATED event invalidates the client,    *)
(* and a status event of the child starts a greenlet that makes a new one. *)
(***************************************************************************)
EXTENDS Naturals, FiniteSets

CONSTANTS
  Instrument, Platform,   \* the two groups of children
  MaxPid,                 \* bound: processes that one child has, one after the other
  MaxAttempts,            \* turns of a validation (13 in the code)
  Nil                     \* Python's None

Child == Instrument \cup Platform
Invalid == MaxPid + 1     \* _INVALIDATED_CHILD; other clients are the pid they speak to

ChildAssumption == IsFiniteSet(Child) /\ Instrument \cap Platform = {} /\ Nil \notin Child
BoundAssumption == MaxPid \in Nat \ {0} /\ MaxAttempts \in Nat \ {0}

Op == {"LAUNCH", "INITIALIZE", "GO_ACTIVE", "GO_INACTIVE", "RESET", "SHUTDOWN"}
BottomUp == {"GO_INACTIVE", "RESET", "SHUTDOWN"}
AgentState == {"UNINITIALIZED", "INACTIVE", "IDLE"}

(* The state that a child is to reach, and those it can be sent it in.  An *)
(* instrument's GO_ACTIVE is not checked.                                  *)
Leads == [INITIALIZE |-> "INACTIVE", GO_ACTIVE |-> "IDLE", GO_INACTIVE |-> "INACTIVE",
          RESET |-> "UNINITIALIZED", SHUTDOWN |-> "UNINITIALIZED"]
From == [INITIALIZE |-> {"UNINITIALIZED"}, GO_ACTIVE |-> {"INACTIVE"}, GO_INACTIVE |-> {"IDLE"},
         RESET |-> {"INACTIVE", "IDLE"}, SHUTDOWN |-> AgentState]
Unchecked(op, c) == op = "GO_ACTIVE" /\ c \in Instrument

VARIABLES
  started,    \* whether the platform agent runs
  alive,      \* the pid of a child's process, 0 if there is none
  pids,       \* how many processes each child has had
  agent,      \* the state of each child's agent
  client,     \* _pa_clients and _ia_clients: 0 (absent), Invalid, or a pid
  watched,    \* the pids whose lifecycle events are subscribed to, by child
  dead,       \* <<child, pid>> of TERMINATED events on their way
  said,       \* children with a status event on its way
  validating, \* _children_being_validated
  validator,  \* the validation greenlet of a child: Nil, or its turn and the client it got
  work        \* the launch or command in progress, or Nil

processes == <<alive, pids, agent>>
events == <<watched, dead, said>>
validation == <<validating, validator>>
vars == <<started, processes, client, events, validation, work>>

(* group: the group whose turn it is; todo: its children that are still to *)
(* come; asked: the client each child had when its group's turn came;      *)
(* errors: children_with_errors; next: what the greenlet does with child.  *)
Work == [op : Op, group : {"instruments", "platforms"}, todo : SUBSET Child, child : Child \cup {Nil},
         next : {"state", "execute", "verify", "terminate", "watch"},
         asked : [Child -> 0..MaxPid], errors : SUBSET Child, turn : {1, 2}]

TypeOK ==
  /\ started \in BOOLEAN
  /\ alive \in [Child -> 0..MaxPid] /\ pids \in [Child -> 0..MaxPid]
  /\ agent \in [Child -> AgentState]
  /\ client \in [Child -> 0..Invalid]
  /\ watched \in [Child -> SUBSET (1..MaxPid)]
  /\ dead \subseteq Child \X (1..MaxPid) /\ said \subseteq Child
  /\ validating \subseteq Child
  /\ validator \in [Child -> [turn : 1..MaxAttempts, got : 0..MaxPid] \cup {Nil}]
  /\ work \in Work \cup {Nil}

Init ==
  /\ started = FALSE
  /\ alive = [c \in Child |-> 0] /\ pids = [c \in Child |-> 0]
  /\ agent = [c \in Child |-> "UNINITIALIZED"]
  /\ client = [c \in Child |-> 0]
  /\ watched = [c \in Child |-> {}] /\ dead = {} /\ said = {}
  /\ validating = {} /\ validator = [c \in Child |-> Nil]
  /\ work = Nil

-----------------------------------------------------------------------------
(* Processes                                                               *)

Spawned(c) ==
  /\ alive[c] = 0 /\ pids[c] < MaxPid
  /\ pids' = [pids EXCEPT ![c] = @ + 1] /\ alive' = [alive EXCEPT ![c] = pids[c] + 1]
  /\ agent' = [agent EXCEPT ![c] = "UNINITIALIZED"]

Killed(c) ==
  /\ alive' = [alive EXCEPT ![c] = 0]
  /\ dead' = IF alive[c] \in watched[c] THEN dead \cup {<<c, alive[c]>>} ELSE dead

(* A child's process dies, or is started, by somebody else.                *)
ChildDies(c) ==
  /\ alive[c] # 0 /\ Killed(c)
  /\ UNCHANGED <<started, pids, agent, client, watched, said, validation, work>>
ChildStarts(c) ==
  /\ started /\ Spawned(c)
  /\ UNCHANGED <<started, client, events, validation, work>>

(* The child publishes an aggregate status.                                *)
ChildTells(c) ==
  /\ alive[c] # 0 /\ c \notin said /\ said' = said \cup {c}
  /\ UNCHANGED <<started, processes, client, watched, dead, validation, work>>

-----------------------------------------------------------------------------
(* Clients                                                                 *)

(* _device_terminated_event: the child is invalidated and its lifecycle    *)
(* subscription is given up.                                               *)
Terminated(c, p) ==
  /\ <<c, p>> \in dead
  /\ dead' = dead \ {<<c, p>>} /\ watched' = [watched EXCEPT ![c] = {}]
  /\ client' = IF client[c] = 0 THEN client ELSE [client EXCEPT ![c] = Invalid]
  /\ UNCHANGED <<started, processes, said, validation, work>>

(* _child_running, upon a status event.                                    *)
ChildRunning(c) ==
  /\ c \in said /\ said' = said \ {c}
  /\ IF client[c] = Invalid /\ c \notin validating
     THEN /\ validating' = validating \cup {c}
          /\ validator' = [validator EXCEPT ![c] = [turn |-> 1, got |-> 0]]
     ELSE UNCHANGED validation
  /\ UNCHANGED <<started, processes, client, watched, dead, work>>

(* Mutant: a validation that gives up is not taken off the list.           *)
ValidatorLooksInVain(c) ==
  /\ validator[c] # Nil /\ validator[c].got = 0
  /\ IF alive[c] # 0 THEN validator' = [validator EXCEPT ![c].got = alive[c]]
     ELSE IF validator[c].turn < MaxAttempts
     THEN validator' = [validator EXCEPT ![c].turn = @ + 1]
     ELSE validator' = [validator EXCEPT ![c] = Nil]
  /\ UNCHANGED <<started, processes, client, events, validating, work>>

(* A turn of _validate_child_greenlet: after the sleep it creates a client,*)
(* which needs a running agent.                                            *)
ValidatorLooks(c) ==
  /\ validator[c] # Nil /\ validator[c].got = 0
  /\ IF alive[c] # 0
     THEN validator' = [validator EXCEPT ![c].got = alive[c]] /\ UNCHANGED validating
     ELSE IF validator[c].turn < MaxAttempts
     THEN validator' = [validator EXCEPT ![c].turn = @ + 1] /\ UNCHANGED validating
     ELSE validator' = [validator EXCEPT ![c] = Nil] /\ validating' = validating \ {c}
  /\ UNCHANGED <<started, processes, client, events, work>>

(* It has asked for the pid too (there may be none any more), and stores   *)
(* the client, whatever has happened to the child meanwhile.               *)
ValidatorStores(c) ==
  /\ validator[c] # Nil /\ validator[c].got # 0
  /\ client' = [client EXCEPT ![c] = validator[c].got]
  /\ validator' = [validator EXCEPT ![c] = Nil] /\ validating' = validating \ {c}
  /\ UNCHANGED <<started, processes, events, work>>

-----------------------------------------------------------------------------
(* Work                                                                    *)

Valid(G) == {c \in G : client[c] \notin {0, Invalid}}
Members(group) == IF group = "instruments" THEN Instrument ELSE Platform

(* The group's children, and the clients they have now.  A launch goes     *)
(* through all of them, and so does a shutdown of the sub-platforms; any   *)
(* other loop goes through the children that are valid when it begins.     *)
Group(op, group, turn, asked, errors) ==
  LET G == IF op = "LAUNCH" \/ (op = "SHUTDOWN" /\ group = "platforms")
           THEN Members(group) ELSE Valid(Members(group)) IN
  [op |-> op, group |-> group, todo |-> G, child |-> Nil, next |-> "state", errors |-> errors, turn |-> turn,
   asked |-> [c \in Child |-> IF c \in Valid(G) THEN client[c] ELSE asked[c]]]

FirstGroup(op) == IF op \in BottomUp \cup {"LAUNCH"} THEN "platforms" ELSE "instruments"
Other(group) == IF group = "platforms" THEN "instruments" ELSE "platforms"

(* A client for each sub-platform, or the command raises.                  *)
Complete(op, group) == group = "platforms" /\ op # "INITIALIZE" => \A c \in Platform : client[c] # 0

BeginLaunch ==
  /\ ~started /\ started' = TRUE
  /\ work' = Group("LAUNCH", "platforms", 1, [c \in Child |-> 0], {})
  /\ UNCHANGED <<processes, client, events, validation>>

Begin(op) ==
  /\ started /\ work = Nil /\ op # "LAUNCH"
  /\ Complete(op, FirstGroup(op))
  /\ work' = Group(op, FirstGroup(op), 1, [c \in Child |-> 0], {})
  /\ UNCHANGED <<started, processes, client, events, validation>>

(* The loop goes on with another child.  INITIALIZE and SHUTDOWN look its  *)
(* client up again: an invalidated child is skipped by SHUTDOWN, and makes *)
(* INITIALIZE raise.                                                       *)
Pick(c) ==
  /\ work # Nil /\ work.child = Nil /\ c \in work.todo
  /\ UNCHANGED <<started, processes, client, events, validation>>
  /\ LET again == work.op \in {"INITIALIZE", "SHUTDOWN"}
         first == IF work.op = "SHUTDOWN" /\ c \in Platform THEN "execute" ELSE "state"
     IN CASE again /\ client[c] = Invalid ->
               work' = IF work.op = "SHUTDOWN" THEN [work EXCEPT !.todo = @ \ {c}] ELSE Nil
          [] OTHER ->
               work' = [work EXCEPT !.todo = @ \ {c}, !.child = c, !.next = first,
                                    !.asked[c] = IF again THEN client[c] ELSE @]

EndGroup ==
  /\ work # Nil /\ work.child = Nil /\ work.todo = {}
  /\ work' = IF work.turn = 1 /\ Complete(work.op, Other(work.group))
             THEN Group(work.op, Other(work.group), 2, work.asked, work.errors) ELSE Nil
  /\ UNCHANGED <<started, processes, client, events, validation>>

Now(c, step) == work # Nil /\ work.child = c /\ work.next = step
Done == work' = [work EXCEPT !.child = Nil]
Fails == work' = [work EXCEPT !.child = Nil, !.errors = @ \cup {work.child}]
(* An exception leaves the whole command, or only the group of a launch.   *)
LaunchRaises == work' = IF work.op = "LAUNCH" THEN [work EXCEPT !.child = Nil, !.todo = {}] ELSE Nil
Then(step) == work' = [work EXCEPT !.next = step]

(* The client has a process to speak to.                                   *)
Reached(c) == work.asked[c] = alive[c]

(* A launch finds the agent's process by the resource id, or makes one,    *)
(* or raises, as when the new agent's state is awaited in vain.            *)
Found(c) == alive[c] # 0 /\ client' = [client EXCEPT ![c] = alive[c]] /\ UNCHANGED processes
AwaitedInVain(c) == Spawned(c) /\ LaunchRaises /\ UNCHANGED client

Launch(c) ==
  /\ Now(c, "state") /\ work.op = "LAUNCH"
  /\ UNCHANGED <<started, events, validation>>
  /\ \/ Found(c) /\ Then("watch")
     \/ Spawned(c) /\ Then("watch") /\ client' = [client EXCEPT ![c] = pids[c] + 1]
     \/ AwaitedInVain(c)
     \/ LaunchRaises /\ UNCHANGED <<processes, client>>

(* subplatform_launched and instrument_launched subscribe to the pid that  *)
(* the directory has by then.                                              *)
Watch(c) ==
  /\ Now(c, "watch") /\ Done
  /\ watched' = [watched EXCEPT ![c] = IF alive[c] = 0 THEN @ ELSE @ \cup {alive[c]}]
  /\ UNCHANGED <<started, processes, client, dead, said, validation>>

(* get_agent_state before the command: outside any try, except for         *)
(* INITIALIZE, whose ping comes first and reports the error.               *)
PingReports(c) == work.op = "INITIALIZE" /\ client[c] # Invalid

AskState(c) ==
  /\ Now(c, "state") /\ work.op # "LAUNCH"
  /\ UNCHANGED <<started, processes, client, events, validation>>
  /\ IF Unchecked(work.op, c) THEN Then("execute")
     ELSE IF ~Reached(c) THEN IF PingReports(c) THEN Fails ELSE LaunchRaises
     ELSE IF agent[c] = Leads[work.op]
     THEN IF work.op = "SHUTDOWN" THEN Then("terminate") ELSE Done
     ELSE Then("execute")

(* The command is executed, is not (a child that has children with errors  *)
(* returns them and stays as it is), or raises.  An instrument is RESET.   *)
Execute(c) ==
  /\ Now(c, "execute")
  /\ UNCHANGED <<started, alive, pids, client, events, validation>>
  /\ \/ /\ Reached(c) /\ agent[c] \in From[work.op]
        /\ agent' = [agent EXCEPT ![c] = Leads[work.op]] /\ Then("verify")
     \/ Reached(c) /\ Then("verify") /\ UNCHANGED agent
     \/ Fails /\ UNCHANGED agent

(* Mutant: what the command has come to is not verified.                   *)
VerifySkipped(c) ==
  /\ Now(c, "verify")
  /\ UNCHANGED <<started, processes, client, events, validation>>
  /\ IF ~Reached(c) THEN Fails ELSE IF work.op = "SHUTDOWN" THEN Then("terminate") ELSE Done

(* get_agent_state after the command, inside a try; INITIALIZE has none.   *)
Verify(c) ==
  /\ Now(c, "verify")
  /\ UNCHANGED <<started, processes, client, events, validation>>
  /\ CASE work.op = "INITIALIZE" -> Done
       [] work.op # "INITIALIZE" /\ (~Reached(c) \/ (agent[c] # Leads[work.op] /\ ~Unchecked(work.op, c))) -> Fails
       [] OTHER -> IF work.op = "SHUTDOWN" THEN Then("terminate") ELSE Done

(* cancel_process: done, or not needed; or it raises, which is an error    *)
(* for a sub-platform and none for an instrument.                          *)
NotTerminated(c) == IF c \in Platform THEN Fails ELSE Done

Terminate(c) ==
  /\ Now(c, "terminate")
  /\ UNCHANGED <<started, pids, agent, client, watched, said, validation>>
  /\ \/ Reached(c) /\ Killed(c) /\ Done
     \/ ~Reached(c) /\ Done /\ UNCHANGED <<alive, dead>>
     \/ NotTerminated(c) /\ UNCHANGED <<alive, dead>>

Step(c) == Pick(c) \/ Launch(c) \/ Watch(c) \/ AskState(c) \/ Execute(c) \/ Verify(c) \/ Terminate(c)

Next ==
  \/ BeginLaunch \/ EndGroup
  \/ \E op \in Op : Begin(op)
  \/ \E c \in Child :
       \/ ChildDies(c) \/ ChildStarts(c) \/ ChildTells(c) \/ ChildRunning(c)
       \/ ValidatorLooks(c) \/ ValidatorStores(c) \/ Step(c)
       \/ \E p \in 1..MaxPid : Terminated(c, p)

Spec == Init /\ [][Next]_vars

(* Events are delivered and greenlets run.                                 *)
Fairness == \A c \in Child :
  /\ WF_vars(ChildRunning(c)) /\ WF_vars(\E p \in 1..MaxPid : Terminated(c, p))
  /\ WF_vars(ValidatorLooks(c)) /\ WF_vars(ValidatorStores(c))
FairSpec == Spec /\ Fairness

-----------------------------------------------------------------------------
(* Properties                                                              *)

(* Bottom-up: when a platform goes on to itself, or is about to, every     *)
(* child that it has gone through without an error is where the command    *)
(* was to bring it, unless the child's process is another by now.          *)
ChildrenFirst ==
  work # Nil /\ work.op \in {"GO_INACTIVE", "RESET"} =>
    \A c \in Child : work.asked[c] # 0 /\ work.asked[c] = alive[c]
                       => c \in work.todo \cup work.errors \/ work.child = c \/ agent[c] = Leads[work.op]

(* A child that runs on and tells so gets a client again, however its      *)
(* deaths, its starts and the turns of a validation were ordered.          *)
Revalidates == \A c \in Child :
  <>[](alive[c] # 0) /\ []<>(c \in said) => []<>(client[c] # Invalid)
=============================================================================
