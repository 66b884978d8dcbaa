------------------------------- MODULE Ingestion -------------------------------
(***************************************************************************)
(* Ingestion of a data stream: the ingestion management service            *)
(* (ion/services/dm/ingestion/ingestion_management_service.py), which sets *)
(* up a queue and a worker for the stream, and the workers                 *)
(* (ion/processes/data/ingestion/science_granule_ingestion_worker.py),     *)
(* which append each granule to the stream's dataset.  The broker, the     *)
(* process dispatcher, the coverage and the object store are external.     *)
(***************************************************************************)
EXTENDS Integers, Sequences, FiniteSets

CONSTANTS
  Worker,       \* ingestion worker processes, each launched once
  Thread,       \* listener threads, each started once
  MaxGranules,  \* bound: granules published
  MaxRetries,   \* retries in MAX_RETRY_TIME
  MaxFailures,  \* bound: calls that raise
  MaxCrashes,   \* bound: workers that crash
  SlowStop,     \* whether a granule may take longer than the ten seconds of stop_listener
  Nil

IngestionAssumption == {MaxGranules, MaxRetries, MaxFailures, MaxCrashes} \subseteq Nat /\ SlowStop \in BOOLEAN

Granule == 1..MaxGranules
Fill == 0   \* a time step that was inserted and has no values

VARIABLES
  persisted,   \* stream.persisted
  bound,       \* the queue is bound to the stream
  subs,        \* subscriptions: associated with the ingestion configuration, or not yet
  linked,      \* the dataset has the stream
  associated,  \* workers associated with the queue
  running,     \* workers that run
  request,     \* the request of the management service: its step and the subscriptions it found
  sent,        \* granules published so far
  queue,       \* granules in the queue
  listener,    \* subscriber_thread of each worker, or Nil
  pausing,     \* workers in stop_listener
  known,       \* workers that have the dataset in their cache
  thread,      \* the listener threads
  rows,        \* the time steps of the dataset: granules, and steps without values
  revision,    \* of the metadata document
  failures, crashes,
  settled,     \* history: granules acknowledged
  excused,     \* history: granules given up, or without a dataset
  stopped      \* history: unpersist_data_stream has returned, and no persist was begun

service == <<persisted, bound, subs, linked, associated, request>>
data == <<queue, rows, revision>>
procs == <<running, listener, pausing, known>>
faults == <<failures, crashes>>
history == <<settled, excused, stopped>>
vars == <<service, sent, data, procs, thread, faults, history>>

Step == {"subscribe", "associate", "dataset", "create", "schedule", "mark",
         "unmark", "kill", "deactivate", "forget", "unlink", "idle"}
Listener == [worker : Worker \cup {Nil}, open : BOOLEAN, pc : {"new", "idle", "lookup", "append", "read", "write", "publish", "sleep", "dead"},
             granule : Granule \cup {0}, tries : Nat, stale : BOOLEAN, rev : Nat]

TypeOK ==
  /\ {persisted, bound, linked, stopped} \subseteq BOOLEAN
  /\ subs \in [mine : Nat, loose : Nat] /\ associated \subseteq Worker
  /\ request \in [step : Step, found : Nat, worker : Worker \cup {Nil}]
  /\ sent \in 0..MaxGranules /\ queue \in Seq(Granule)
  /\ running \subseteq Worker /\ pausing \subseteq Worker /\ known \subseteq Worker
  /\ listener \in [Worker -> Thread \cup {Nil}] /\ thread \in [Thread -> Listener]
  /\ rows \in Seq(Granule \cup {Fill}) /\ revision \in Nat
  /\ failures \in 0..MaxFailures /\ crashes \in 0..MaxCrashes
  /\ settled \subseteq Granule /\ excused \subseteq Granule

New == [worker |-> Nil, open |-> FALSE, pc |-> "new", granule |-> 0, tries |-> 0, stale |-> FALSE, rev |-> 0]
Idle == [step |-> "idle", found |-> 0, worker |-> Nil]

Init ==
  /\ persisted = FALSE /\ bound = FALSE /\ linked = FALSE /\ stopped = FALSE
  /\ subs = [mine |-> 0, loose |-> 0] /\ associated = {} /\ request = Idle /\ sent = 0
  /\ queue = <<>> /\ rows = <<>> /\ revision = 0
  /\ running = {} /\ pausing = {} /\ known = {} /\ listener = [w \in Worker |-> Nil]
  /\ thread = [l \in Thread |-> New] /\ failures = 0 /\ crashes = 0 /\ settled = {} /\ excused = {}

-----------------------------------------------------------------------------
(* The listener threads of the workers                                     *)

Busy(t) == t.pc \in {"lookup", "append", "read", "write", "publish", "sleep"}

InOrder(G) == CHOOSE s \in [1..Cardinality(G) -> G] : \A i, j \in DOMAIN s : i < j => s[i] < s[j]

(* The broker gives back what closed channels had not acknowledged.        *)
Given(L) == InOrder({thread[l].granule : l \in {m \in L : thread[m].open /\ Busy(thread[m])}}) \o queue

(* start_listener of a worker; the thread is a new one.                    *)
Started(f, w, l) == [f EXCEPT ![l] = [New EXCEPT !.worker = w, !.open = TRUE, !.pc = "idle"]]

(* A worker's process ends, and with it its threads.                       *)
Ended(W) == [l \in Thread |-> IF thread[l].worker \in W THEN [New EXCEPT !.pc = "dead"] ELSE thread[l]]
OfWorkers(W) == {l \in Thread : thread[l].worker \in W}

(* recv_packet                                                             *)
Receive(l) ==
  /\ thread[l].pc = "idle" /\ thread[l].open /\ queue # <<>> /\ queue' = Tail(queue)
  /\ thread' = [thread EXCEPT ![l] = [@ EXCEPT !.pc = "lookup", !.granule = Head(queue), !.tries = 0]]
  /\ UNCHANGED <<service, sent, rows, revision, procs, faults, history>>

(* The callback is over: the message is acknowledged if the channel is     *)
(* still the one that it came from.                                        *)
Finish(l, G) ==
  LET t == thread[l] IN
  /\ settled' = (IF t.open THEN settled \cup {t.granule} ELSE settled)
  /\ excused' = excused \cup G /\ UNCHANGED stopped
  /\ thread' = [thread EXCEPT ![l] = IF t.open THEN [New EXCEPT !.worker = t.worker, !.open = TRUE, !.pc = "idle"]
                                               ELSE [New EXCEPT !.pc = "dead"]]

(* persist_or_timeout after an exception: the coverage leaves the cache,   *)
(* and after a while the granule is tried again from the start.            *)
Retry(l) ==
  LET t == thread[l] IN
  IF t.tries = MaxRetries THEN Finish(l, {t.granule})
  ELSE /\ thread' = [thread EXCEPT ![l] = [t EXCEPT !.pc = "sleep", !.tries = t.tries + 1, !.stale = FALSE]]
       /\ UNCHANGED history
Raise(l) == failures < MaxFailures /\ failures' = failures + 1 /\ UNCHANGED crashes /\ Retry(l)
Goto(l, pc) == thread' = [thread EXCEPT ![l].pc = pc] /\ UNCHANGED <<faults, history>>

Wake(l) == /\ thread[l].pc = "sleep" /\ Goto(l, "lookup")
           /\ UNCHANGED <<service, sent, data, procs>>

(* add_granule: get_dataset, get_coverage and the look-up values.          *)
GetCoverage(l) ==
  LET w == thread[l].worker IN
  /\ thread[l].pc = "lookup" /\ UNCHANGED <<service, sent, data, running, listener, pausing>>
  /\ \/ /\ w \in known \/ linked
        /\ known' = known \cup {w} /\ Goto(l, "append")
     \/ w \notin known /\ ~linked /\ Finish(l, {thread[l].granule}) /\ UNCHANGED <<known, faults>>
     \/ Raise(l) /\ UNCHANGED known

(* Mutant: a granule that could not be inserted is taken for done.         *)
AddSwallows(l) ==
  LET t == thread[l] IN
  /\ t.pc = "append" /\ UNCHANGED <<service, sent, queue, revision, procs>>
  /\ \/ ~t.stale /\ rows' = Append(rows, t.granule) /\ Goto(l, "read")
     \/ /\ failures < MaxFailures /\ failures' = failures + 1 /\ UNCHANGED crashes
        /\ rows' = Append(rows, Fill) /\ Finish(l, {})

(* expand_coverage, insert_values and _save_coverage, with what a failure  *)
(* of each of them leaves behind.  A coverage that was closed in between   *)
(* takes nothing.                                                          *)
AddGranule(l) ==
  LET t == thread[l] IN
  /\ t.pc = "append" /\ UNCHANGED <<service, sent, queue, revision, procs>>
  /\ \/ ~t.stale /\ rows' = Append(rows, t.granule) /\ Goto(l, "read")
     \/ ~t.stale /\ rows' \in {rows, Append(rows, Fill), Append(rows, t.granule)} /\ Raise(l)
     \/ t.stale /\ Retry(l) /\ UNCHANGED <<rows, faults>>

(* update_metadata: the document is read, and written with its revision,   *)
(* which another worker may have changed.                                  *)
ReadMetadata(l) ==
  /\ thread[l].pc = "read" /\ UNCHANGED <<service, sent, data, procs>>
  /\ \/ /\ thread' = [thread EXCEPT ![l] = [@ EXCEPT !.pc = "write", !.rev = revision]]
        /\ UNCHANGED <<faults, history>>
     \/ Raise(l)
WriteMetadata(l) ==
  LET fits == revision = thread[l].rev IN
  /\ thread[l].pc = "write" /\ UNCHANGED <<service, sent, queue, rows, procs>>
  /\ \/ fits /\ revision' = revision + 1 /\ Goto(l, "publish")
     \/ ~fits /\ Retry(l) /\ UNCHANGED <<revision, faults>>
     \/ Raise(l) /\ UNCHANGED revision

DatasetChanged(l) ==
  /\ thread[l].pc = "publish" /\ UNCHANGED <<service, sent, data, procs>>
  /\ (Finish(l, {}) /\ UNCHANGED faults) \/ Raise(l)

-----------------------------------------------------------------------------
(* The workers                                                             *)

(* The process dispatcher starts a worker that has crashed again.          *)
Crash(w) ==
  /\ w \in running /\ crashes < MaxCrashes /\ crashes' = crashes + 1 /\ UNCHANGED failures
  /\ \E l \in Thread : /\ thread[l].pc = "new" /\ thread' = Started(Ended({w}), w, l)
                       /\ listener' = [listener EXCEPT ![w] = l]
  /\ queue' = Given(OfWorkers({w})) /\ known' = known \ {w} /\ pausing' = pausing \ {w}
  /\ UNCHANGED <<service, sent, rows, revision, running, history>>

(* pause: the subscriber is closed, its thread is waited for, and the      *)
(* coverages are closed whether it has ended or not.                       *)
Pause(w) ==
  LET l == listener[w] IN
  /\ w \in running \ pausing /\ l # Nil /\ pausing' = pausing \cup {w}
  /\ queue' = Given({l})
  /\ thread' = [thread EXCEPT ![l] = IF Busy(@) THEN [@ EXCEPT !.open = FALSE] ELSE [New EXCEPT !.pc = "dead"]]
  /\ UNCHANGED <<service, sent, rows, revision, running, listener, known, faults, history>>
Paused(w) ==
  LET l == listener[w] IN
  /\ w \in pausing /\ (thread[l].pc = "dead" \/ SlowStop) /\ pausing' = pausing \ {w}
  /\ listener' = [listener EXCEPT ![w] = Nil]
  /\ thread' = [thread EXCEPT ![l].stale = thread[l].pc = "append"]
  /\ UNCHANGED <<service, sent, data, running, known, faults, history>>
Resume(w) ==
  /\ w \in running \ pausing /\ listener[w] = Nil
  /\ \E l \in Thread : /\ thread[l].pc = "new" /\ thread' = Started(thread, w, l)
                       /\ listener' = [listener EXCEPT ![w] = l]
  /\ UNCHANGED <<service, sent, data, running, pausing, known, faults, history>>

Publish == /\ sent < MaxGranules /\ sent' = sent + 1 /\ bound /\ queue' = Append(queue, sent')
           /\ UNCHANGED <<service, rows, revision, procs, thread, faults, history>>

-----------------------------------------------------------------------------
(* The management service                                                  *)

GoOn(step) == request' = [request EXCEPT !.step = step]
(* A call of the request raises, and the request is over.                  *)
Fail == /\ request.step # "idle" /\ failures < MaxFailures /\ failures' = failures + 1 /\ request' = Idle
        /\ UNCHANGED <<persisted, bound, subs, linked, associated, sent, data, procs, thread, crashes, history>>

(* persist_data_stream refuses a stream that is persisted.                 *)
PersistDataStream ==
  /\ request.step = "idle" /\ ~persisted /\ GoOn("subscribe") /\ stopped' = FALSE
  /\ UNCHANGED <<persisted, bound, subs, linked, associated, sent, data, procs, thread, faults, settled, excused>>
Subscribe ==
  /\ request.step = "subscribe" /\ GoOn("associate")
  /\ subs' = [subs EXCEPT !.loose = @ + 1] /\ bound' = TRUE
  /\ UNCHANGED <<persisted, linked, associated, sent, data, procs, thread, faults, history>>
Associate ==
  /\ request.step = "associate" /\ GoOn("dataset")
  /\ subs' = [mine |-> subs.mine + 1, loose |-> subs.loose - 1]
  /\ UNCHANGED <<persisted, bound, linked, associated, sent, data, procs, thread, faults, history>>
ExistingDataset ==
  /\ request.step = "dataset" /\ GoOn("create") /\ linked' = TRUE
  /\ UNCHANGED <<persisted, bound, subs, associated, sent, data, procs, thread, faults, history>>
(* launch_worker: the process is created, associated and scheduled.        *)
CreateWorker ==
  /\ request.step = "create"
  /\ \E w \in Worker \ associated :
       associated' = associated \cup {w} /\ request' = [request EXCEPT !.step = "schedule", !.worker = w]
  /\ UNCHANGED <<persisted, bound, subs, linked, sent, data, procs, thread, faults, history>>
ScheduleWorker ==
  LET w == request.worker IN
  /\ request.step = "schedule" /\ GoOn("mark") /\ running' = running \cup {w}
  /\ \E l \in Thread : /\ thread[l].pc = "new" /\ thread' = Started(thread, w, l)
                       /\ listener' = [listener EXCEPT ![w] = l]
  /\ UNCHANGED <<persisted, bound, subs, linked, associated, sent, data, pausing, known, faults, history>>
PersistStream ==
  /\ request.step = "mark" /\ persisted' = TRUE /\ request' = Idle
  /\ UNCHANGED <<bound, subs, linked, associated, sent, data, procs, thread, faults, history>>

(* unpersist_data_stream: it fails if the stream is not persisted; it then *)
(* undoes each subscription that the configuration had when it began.      *)
UnpersistDataStream ==
  /\ request.step = "idle" /\ persisted /\ request' = [Idle EXCEPT !.step = "unmark", !.found = subs.mine]
  /\ UNCHANGED <<persisted, bound, subs, linked, associated, sent, data, procs, thread, faults, history>>
UnpersistStream ==
  /\ request.step = "unmark" /\ persisted' = FALSE /\ GoOn(IF request.found > 0 THEN "kill" ELSE "unlink")
  /\ UNCHANGED <<bound, subs, linked, associated, sent, data, procs, thread, faults, history>>
(* Mutant: one of the queue's workers.                                     *)
KillOneWorker ==
  /\ request.step = "kill" /\ GoOn("deactivate")
  /\ \E w \in associated : /\ running' = running \ {w} /\ listener' = [listener EXCEPT ![w] = Nil]
                           /\ queue' = Given(OfWorkers({w})) /\ thread' = Ended({w}) /\ pausing' = pausing \ {w}
  /\ UNCHANGED <<persisted, bound, subs, linked, associated, sent, rows, revision, known, faults, history>>
(* kill_worker: every worker of the subscription's queue.                  *)
KillWorker ==
  /\ request.step = "kill" /\ GoOn("deactivate")
  /\ running' = {} /\ listener' = [w \in Worker |-> Nil] /\ pausing' = {} /\ known' = {}
  /\ queue' = Given(OfWorkers(running)) /\ thread' = Ended(running)
  /\ UNCHANGED <<persisted, bound, subs, linked, associated, sent, rows, revision, faults, history>>
DeactivateSubscription ==
  /\ request.step = "deactivate" /\ GoOn("forget") /\ bound' = FALSE
  /\ UNCHANGED <<persisted, subs, linked, associated, sent, data, procs, thread, faults, history>>
(* The association with the configuration goes, and the subscription.      *)
DeleteSubscription ==
  /\ request.step = "forget" /\ subs' = [subs EXCEPT !.mine = @ - 1]
  /\ request' = [request EXCEPT !.found = @ - 1, !.step = IF request.found > 1 THEN "kill" ELSE "unlink"]
  /\ UNCHANGED <<persisted, bound, linked, associated, sent, data, procs, thread, faults, history>>
RemoveStream ==
  /\ request.step = "unlink" /\ linked' = FALSE /\ request' = Idle /\ stopped' = TRUE
  /\ UNCHANGED <<persisted, bound, subs, associated, sent, data, procs, thread, faults, settled, excused>>

Next ==
  \/ \E l \in Thread : \/ Receive(l) \/ Wake(l) \/ GetCoverage(l) \/ AddGranule(l)
                       \/ ReadMetadata(l) \/ WriteMetadata(l) \/ DatasetChanged(l)
  \/ \E w \in Worker : Crash(w) \/ Pause(w) \/ Paused(w) \/ Resume(w)
  \/ Publish \/ Fail \/ PersistDataStream \/ Subscribe \/ Associate \/ ExistingDataset \/ CreateWorker
  \/ ScheduleWorker \/ PersistStream \/ UnpersistDataStream \/ UnpersistStream \/ KillWorker
  \/ DeactivateSubscription \/ DeleteSubscription \/ RemoveStream

Spec == Init /\ [][Next]_vars

-----------------------------------------------------------------------------
(* Properties                                                              *)

(* A granule that has left the queue for good is in the dataset, unless it *)
(* was given up after all its retries or had no dataset, whatever failed,  *)
(* crashed, was paused or killed while it was ingested.                    *)
Ingested == \A g \in settled : g \in excused \/ \E i \in DOMAIN rows : rows[i] = g

(* When a stream was unpersisted none of its workers is left, nor the ones *)
(* that requests which failed have left behind.                            *)
UnpersistStops == stopped => running = {}

=============================================================================
