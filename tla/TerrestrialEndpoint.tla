------------------------- MODULE TerrestrialEndpoint -------------------------
(***************************************************************************)
(* The shore side of the two-component agent architecture                  *)
(* (ion/services/sa/tcaa/terrestrial_endpoint.py, endpoint_mixin.py): its  *)
(* command queue, the dictionary of commands that wait for a result, the   *)
(* RemoteCommandQueue resource that persists the queue in the resource     *)
(* registry under optimistic locking, link telemetry, results, crashes and *)
(* restarts.                                                               *)
(*                                                                         *)
(* Two greenlets update the persistent queue: the process's control        *)
(* greenlet, which serves one RPC operation at a time, and the R3PC        *)
(* client's greenlet, in its ack callback.  Each registry call yields.     *)
(* The channel to the remote side is the one module ReliableQueue          *)
(* specifies: only the head of the queue is transmitted or acknowledged.   *)
(***************************************************************************)
EXTENDS QueueOps

CONSTANTS
  Cmd,              \* remote commands, each with its own command_id
  Nil,              \* Python's None
  MaxCrashes,       \* bound: crashes of the endpoint's process
  RegistryFails     \* a registry call may raise (a timeout, a lost service)

ASSUME NilAssumption == Nil \notin Seq(Cmd)
ASSUME BoundAssumption == MaxCrashes \in Nat /\ RegistryFails \in BOOLEAN

VARIABLES
  up,               \* "down", "starting" or "up"
  linkUp,           \* _link_status = AVAILABLE
  client,           \* the R3PC client's greenlet is alive
  queue,            \* _client._queue
  txDict,           \* the keys of _tx_dict
  persisted,        \* the queue in the registry; Nil before it is created
  updater,          \* where each greenlet is in _update_queue_resource
  orphans,          \* registry updates on their way whose sender was killed
  enqueued, transmitted, popped, removed,   \* history: a command's way
  kept, gone,       \* history: commands of the updates that were completed
  life,             \* history: commands queued or restored since the start,
  published,        \*   those whose results were published since,
  dropped,          \*   and those with a result that never was
  lost,             \* history: an update was killed, none has begun since
  crashes

memory == <<queue, txDict>>
registry == <<persisted, orphans>>
commands == <<enqueued, transmitted, popped, removed>>
returns == <<kept, gone>>
results == <<life, published, dropped>>
history == <<commands, returns, results, lost, crashes>>
vars == <<up, linkUp, client, memory, registry, updater, history>>

Thread == {"control", "client"}

(* copy: obj.queue; fresh: nobody has updated the resource since it was    *)
(* read, so that its revision is the registry's; keeps, goes: what the     *)
(* operation has queued or taken off.                                      *)
UpdaterPc == {"idle", "find", "copy", "update"}
Updater ==
  [pc : UpdaterPc, copy : Seq(Cmd), fresh : BOOLEAN, keeps : SUBSET Cmd, goes : SUBSET Cmd]
Idle == [pc |-> "idle", copy |-> <<>>, fresh |-> FALSE, keeps |-> {}, goes |-> {}]

TypeOK ==
  /\ up \in {"down", "starting", "up"} /\ linkUp \in BOOLEAN /\ client \in BOOLEAN
  /\ queue \in Seq(Cmd) /\ persisted \in Seq(Cmd) \cup {Nil}
  /\ updater \in [Thread -> Updater]
  /\ orphans \subseteq Seq(Cmd)
  /\ txDict \subseteq Cmd /\ enqueued \subseteq Cmd /\ transmitted \subseteq Cmd
  /\ popped \subseteq Cmd /\ removed \subseteq Cmd
  /\ kept \subseteq Cmd /\ gone \subseteq Cmd
  /\ life \subseteq Cmd /\ published \subseteq Cmd /\ dropped \subseteq Cmd
  /\ lost \in BOOLEAN /\ crashes \in 0..MaxCrashes

Init ==
  /\ up = "down" /\ linkUp = FALSE /\ client = FALSE
  /\ queue = <<>> /\ txDict = {}
  /\ persisted = Nil /\ orphans = {}
  /\ updater = [t \in Thread |-> Idle]
  /\ enqueued = {} /\ transmitted = {} /\ popped = {} /\ removed = {}
  /\ kept = {} /\ gone = {} /\ life = {} /\ published = {} /\ dropped = {}
  /\ lost = FALSE /\ crashes = 0

-----------------------------------------------------------------------------
(* _update_queue_resource                                                  *)

(* Called by greenlet t after it has queued (keeps) or taken off (goes).   *)
StartUpdate(t, keeps, goes) ==
  updater' = [updater EXCEPT ![t] =
                [pc |-> "find", copy |-> <<>>, fresh |-> FALSE, keeps |-> keeps, goes |-> goes]]

(* The registry answers find_resources.                                    *)
Find(t) ==
  /\ updater[t].pc = "find"
  /\ updater' = [updater EXCEPT ![t].pc = "copy", ![t].fresh = TRUE]
  /\ UNCHANGED <<up, linkUp, client, memory, registry, history>>

(* The answer arrives: the queue of this moment is sent to be written.     *)
Copy(t) ==
  /\ updater[t].pc = "copy"
  /\ updater' = [updater EXCEPT ![t].pc = "update", ![t].copy = queue]
  /\ lost' = FALSE
  /\ UNCHANGED <<up, linkUp, client, memory, registry, commands, returns, results, crashes>>

CommitLastWins(t) ==        \* mutant: the registry does not look at revisions
  /\ updater[t].pc = "update"
  /\ persisted' = updater[t].copy
  /\ updater' = [updater EXCEPT ![t] = Idle]
  /\ kept' = kept \cup updater[t].keeps
  /\ gone' = gone \cup updater[t].goes
  /\ UNCHANGED <<up, linkUp, client, memory, orphans, commands, results, lost, crashes>>

CommitReusesCopy(t) ==      \* mutant: after Conflict only the revision is read again
  /\ updater[t].pc = "update"
  /\ IF updater[t].fresh
     THEN /\ persisted' = updater[t].copy
          /\ orphans' = {}
          /\ updater' = [u \in Thread |-> IF u = t THEN Idle
                                          ELSE [updater[u] EXCEPT !.fresh = FALSE]]
          /\ kept' = kept \cup updater[t].keeps
          /\ gone' = gone \cup updater[t].goes
     ELSE /\ updater' = [updater EXCEPT ![t].fresh = TRUE]
          /\ UNCHANGED <<registry, returns>>
  /\ UNCHANGED <<up, linkUp, client, memory, commands, results, lost, crashes>>

(* The registry accepts the write if the revision is the one read, and     *)
(* every other revision that was read is then out of date; otherwise it    *)
(* raises Conflict and the resource is read again.                         *)
Commit(t) ==
  /\ updater[t].pc = "update"
  /\ \/ /\ updater[t].fresh
        /\ persisted' = updater[t].copy
        /\ orphans' = {}
        /\ updater' = [u \in Thread |-> IF u = t THEN Idle
                                        ELSE [updater[u] EXCEPT !.fresh = FALSE]]
        /\ kept' = kept \cup updater[t].keeps
        /\ gone' = gone \cup updater[t].goes
     \/ /\ ~updater[t].fresh
        /\ updater' = [updater EXCEPT ![t].pc = "find"]
        /\ UNCHANGED <<registry, returns>>
  /\ UNCHANGED <<up, linkUp, client, memory, commands, results, lost, crashes>>

(* What is left in the network of greenlet t's update when it is killed.   *)
Orphaned(t) ==
  IF updater[t].pc = "update" /\ updater[t].fresh THEN {updater[t].copy} ELSE {}

(* The update sent by a greenlet that was killed reaches the registry.  A  *)
(* revision that is out of date has no effect.                             *)
OrphanCommit ==
  /\ \E q \in orphans : persisted' = q
  /\ orphans' = {}
  /\ updater' = [u \in Thread |-> [updater[u] EXCEPT !.fresh = FALSE]]
  /\ UNCHANGED <<up, linkUp, client, memory, history>>

(* A registry call raises something else: the operation raises it to its   *)
(* caller; the client's greenlet dies of it.  The write may have been made *)
(* or be on its way.                                                       *)
UpdateFails(t) ==
  /\ RegistryFails
  /\ updater[t].pc # "idle"
  /\ updater' = [updater EXCEPT ![t] = Idle]
  /\ orphans' = orphans \cup Orphaned(t)
  /\ client' = (client /\ t # "client")
  /\ lost' = TRUE
  /\ UNCHANGED <<up, linkUp, memory, persisted, commands, returns, results, crashes>>

Update == \E t \in Thread : Find(t) \/ Copy(t) \/ Commit(t) \/ UpdateFails(t)

-----------------------------------------------------------------------------
(* RPC operations, one at a time on the control greenlet                   *)

Serving == up = "up" /\ updater["control"].pc = "idle"

(* enqueue_command.  (With link=TRUE it first raises Conflict if the link  *)
(* is down, and changes nothing.)                                          *)
Enqueue(c) ==
  /\ Serving
  /\ c \notin enqueued
  /\ txDict' = txDict \cup {c}
  /\ queue' = Append(queue, c)
  /\ enqueued' = enqueued \cup {c} /\ life' = life \cup {c}
  /\ StartUpdate("control", {c}, {})
  /\ UNCHANGED <<up, linkUp, client, registry, transmitted, popped, removed, returns,
                 published, dropped, lost, crashes>>

RemoveUnsaved(S) ==         \* mutant: the persistent queue is not updated
  /\ Serving /\ ~linkUp
  /\ S # {} /\ S \subseteq Range(queue)
  /\ queue' \in Without(queue, S)
  /\ txDict' = txDict \ S
  /\ removed' = removed \cup S
  /\ UNCHANGED <<up, linkUp, client, registry, updater, enqueued, transmitted, popped,
                 returns, results, lost, crashes>>

(* clear_queue by resource or service, pop_queue by command: only while    *)
(* UNAVAILABLE; with nothing selected they change nothing.                 *)
Remove(S) ==
  /\ Serving /\ ~linkUp
  /\ S # {} /\ S \subseteq Range(queue)
  /\ queue' \in Without(queue, S)
  /\ txDict' = txDict \ S
  /\ removed' = removed \cup S
  /\ StartUpdate("control", {}, S)
  /\ UNCHANGED <<up, linkUp, client, registry, enqueued, transmitted, popped, returns,
                 results, lost, crashes>>

-----------------------------------------------------------------------------
(* Callbacks of the R3PC client and server                                 *)

(* The client's loop looks at the queue only when it is not in a callback. *)
Looping == client /\ updater["client"].pc = "idle" /\ queue # <<>>

Transmit ==
  /\ Looping
  /\ transmitted' = transmitted \cup {Head(queue)}
  /\ UNCHANGED <<up, linkUp, client, memory, registry, updater, enqueued, popped, removed,
                 returns, results, lost, crashes>>

(* The client pops the head and calls _ack_callback.                       *)
Acknowledge ==
  /\ Looping
  /\ Head(queue) \in transmitted
  /\ queue' = Tail(queue)
  /\ popped' = popped \cup {Head(queue)}
  /\ StartUpdate("client", {}, {Head(queue)})
  /\ UNCHANGED <<up, linkUp, client, txDict, registry, enqueued, transmitted, removed,
                 returns, results, lost, crashes>>

(* _req_callback: the result of c, perhaps not for the first time.  The    *)
(* server has acknowledged it already, so what is dropped is not resent.   *)
Result(c) ==
  /\ up # "down"
  /\ c \in transmitted
  /\ IF c \in txDict
     THEN /\ txDict' = txDict \ {c}
          /\ published' = published \cup {c}
          /\ UNCHANGED dropped
     ELSE /\ dropped' = dropped \cup (({c} \cap life) \ published)
          /\ UNCHANGED <<txDict, published>>
  /\ UNCHANGED <<up, linkUp, client, queue, registry, updater, commands, returns, life,
                 lost, crashes>>

-----------------------------------------------------------------------------
(* Telemetry: start and stop the client.  stop() kills its greenlet, which *)
(* may be in the ack callback.                                             *)

LinkUp ==
  /\ up # "down" /\ ~linkUp
  /\ linkUp' = TRUE /\ client' = TRUE
  /\ UNCHANGED <<up, memory, registry, updater, history>>

LinkDown ==
  /\ up # "down" /\ linkUp
  /\ linkUp' = FALSE /\ client' = FALSE
  /\ orphans' = orphans \cup Orphaned("client")
  /\ updater' = [updater EXCEPT !["client"] = Idle]
  /\ lost' = (lost \/ updater["client"].pc # "idle")
  /\ UNCHANGED <<up, memory, persisted, commands, returns, results, crashes>>

-----------------------------------------------------------------------------
(* The process                                                             *)

(* on_start up to the telemetry subscriber: the server already takes       *)
(* results, and the link may come up, before the queue is restored.        *)
Start ==
  /\ up = "down"
  /\ up' = "starting"
  /\ UNCHANGED <<linkUp, client, memory, registry, updater, history>>

(* _initialize_queue_resource.                                             *)
Restore ==
  /\ up = "starting"
  /\ up' = "up"
  /\ \/ /\ persisted = Nil
        /\ persisted' = <<>>
        /\ UNCHANGED <<memory, life>>
     \/ /\ persisted # Nil
        /\ queue' = queue \o persisted
        /\ txDict' = txDict \cup Range(persisted)
        /\ life' = life \cup Range(persisted)
        /\ UNCHANGED persisted
  /\ UNCHANGED <<linkUp, client, orphans, updater, commands, returns, published, dropped,
                 lost, crashes>>

(* The process crashes or is stopped: its memory and its greenlets are     *)
(* gone, what they sent to the registry is not.                            *)
Crash ==
  /\ up # "down" /\ crashes < MaxCrashes
  /\ up' = "down" /\ linkUp' = FALSE /\ client' = FALSE
  /\ queue' = <<>> /\ txDict' = {}
  /\ orphans' = orphans \cup Orphaned("control") \cup Orphaned("client")
  /\ updater' = [t \in Thread |-> Idle]
  /\ lost' = TRUE
  /\ crashes' = crashes + 1
  /\ life' = {} /\ published' = {} /\ dropped' = {}
  /\ UNCHANGED <<persisted, commands, returns>>

-----------------------------------------------------------------------------
Next ==
  \/ Update \/ OrphanCommit
  \/ \E c \in Cmd : Enqueue(c) \/ Result(c)
  \/ \E S \in SUBSET Cmd : Remove(S)
  \/ Transmit \/ Acknowledge
  \/ LinkUp \/ LinkDown
  \/ Start \/ Restore \/ Crash

Spec == Init /\ [][Next]_vars

-----------------------------------------------------------------------------
(* Properties                                                              *)

(* A command whose enqueue_command has returned survives crashes: until it *)
(* is acknowledged or taken off it is in the persistent queue, whatever    *)
(* the other greenlet, or one that was killed, writes over it              *)
(* (_update_queue_resource, terrestrial_endpoint.py).                      *)
Durable == persisted # Nil => kept \ (popped \cup removed) \subseteq Range(persisted)

(* Once its taking off has been persisted (by clear_queue, pop_queue or    *)
(* the ack callback) a command is not queued again: no stale write and no  *)
(* restart brings it back to be executed a second time.                    *)
GoneStaysGone ==
  /\ gone \cap Range(queue) = {}
  /\ persisted # Nil => gone \cap Range(persisted) = {}

(* When nobody is updating it the persistent queue is the client's queue,  *)
(* in its order, unless an update was killed and none has begun since.     *)
Settled ==
  up = "up" /\ ~lost /\ (\A t \in Thread : updater[t].pc = "idle") => persisted = queue

(* In one life of the process the result of a command is published at most *)
(* once, and dropped (logged as a KeyError) only if the command had been   *)
(* taken off; it may well come before the ack (_req_callback).             *)
ResultOnce == txDict \cap published = {} /\ dropped \subseteq removed

(* The inductive invariant behind Durable, GoneStaysGone and ResultOnce.   *)
(* A queue that may still reach the registry is Sound if it has every      *)
(* command it should and none that it should not.                          *)
Sound(q) ==
  /\ IsInjective(q) /\ Range(q) \subseteq enqueued
  /\ kept \ (popped \cup removed) \subseteq Range(q)
  /\ gone \cap Range(q) = {}

ProcessInv ==
  /\ up # "up" => queue = <<>> /\ txDict = {} /\ life = {} /\ published = {} /\ dropped = {}
  /\ up # "up" => \A t \in Thread : updater[t].pc = "idle"
  /\ persisted = Nil => up # "up" /\ orphans = {}
  /\ persisted = Nil => kept = {}
  /\ gone \subseteq enqueued /\ (persisted = Nil => gone = {})

QueueInv ==
  /\ up = "up" => Sound(queue)
  /\ persisted # Nil => Sound(persisted)
  /\ \A q \in orphans : Sound(q)

UpdaterInv ==
  \A t \in Thread :
    LET u == updater[t] IN
    /\ u.keeps \cup u.goes \subseteq enqueued
    /\ u.pc # "idle" => /\ u.keeps \ (popped \cup removed) \subseteq Range(queue)
                        /\ u.goes \cap Range(queue) = {}
    /\ u.pc = "update" /\ u.fresh =>
         /\ Sound(u.copy)
         /\ u.keeps \ (popped \cup removed) \subseteq Range(u.copy)
         /\ u.goes \cap Range(u.copy) = {}

ResultInv ==
  /\ ResultOnce
  /\ life \ (published \cup removed) \subseteq txDict
  /\ txDict \cup published \subseteq life /\ life \subseteq enqueued

IInv == TypeOK /\ ProcessInv /\ QueueInv /\ UpdaterInv /\ ResultInv

=============================================================================
