--------------------------- MODULE RemoteEndpoint ---------------------------
(***************************************************************************)
(* The remote side of the two-component agent architecture                 *)
(* (ion/services/sa/tcaa/remote_endpoint.py, endpoint_mixin.py): a request *)
(* that the R3PC server has acknowledged is put on the command queue of    *)
(* its resource or service; one greenlet per queue runs its commands; each *)
(* result goes on the R3PC client's queue, to be sent when the link is up. *)
(*                                                                         *)
(* The server's greenlet runs _req_callback, which may have to look the    *)
(* resource up (a call that yields); the queues' greenlets yield while     *)
(* they execute.  Nothing is persisted.                                    *)
(***************************************************************************)
EXTENDS Naturals, Sequences, FiniteSets, SequencesExt

CONSTANTS
  Cmd,           \* remote commands
  Res,           \* the resource ids and service names they are for
  Target,        \* a command's resource_id or svc_name
  Worker,        \* bound: command_loop greenlets that can be alive together
  Nil,           \* Python's None
  LookupFails,   \* a look-up may raise something other than NotFound
  MaxRequests    \* bound: requests in a life of the process

TargetAssumption == Target \in [Cmd -> Res]
NilAssumption == Nil \notin Cmd \cup Res \cup Worker
BoundAssumption == LookupFails \in BOOLEAN /\ MaxRequests \in Nat

VARIABLES
  up,            \* "down", "up", or "stopping": sockets closed, queues not
  linkUp,        \* _link_status = AVAILABLE: the R3PC client is started
  server,        \* the server greenlet: "none", "free" or "lookup"
  request,       \* the request it looks a resource up for
  services,      \* _service_command_queues: the worker of a resource
  worker,        \* each worker's resource, _queue, and command in execution
  results,       \* _client._queue: the commands whose results wait
  requests, answered, acked, failed,   \* history: counts for each command
  accepted, started                    \* history: sequences for each resource

queues == <<services, worker>>
counts == <<requests, answered, acked, failed>>
orders == <<accepted, started>>
vars == <<up, linkUp, server, request, queues, results, counts, orders>>

NoWorker == [res |-> Nil, queue |-> <<>>, cmd |-> Nil]
Zero == [c \in Cmd |-> 0]
Empty == [r \in Res |-> <<>>]

TypeOK ==
  /\ up \in {"down", "up", "stopping"} /\ linkUp \in BOOLEAN
  /\ server \in {"none", "free", "lookup"} /\ request \in Cmd \cup {Nil}
  /\ services \in [Res -> Worker \cup {Nil}]
  /\ worker \in [Worker -> [res : Res \cup {Nil}, queue : Seq(Cmd), cmd : Cmd \cup {Nil}]]
  /\ results \in Seq(Cmd)
  /\ requests \in [Cmd -> Nat] /\ answered \in [Cmd -> Nat]
  /\ acked \in [Cmd -> Nat] /\ failed \in [Cmd -> Nat]
  /\ accepted \in [Res -> Seq(Cmd)] /\ started \in [Res -> Seq(Cmd)]

Init ==
  /\ up = "down" /\ linkUp = FALSE /\ server = "none" /\ request = Nil
  /\ services = [r \in Res |-> Nil] /\ worker = [w \in Worker |-> NoWorker]
  /\ results = <<>>
  /\ requests = Zero /\ answered = Zero /\ acked = Zero /\ failed = Zero
  /\ accepted = Empty /\ started = Empty

Bump(f, c) == [f EXCEPT ![c] = @ + 1]

-----------------------------------------------------------------------------
(* The R3PC server's callback                                              *)

(* ServiceCommandQueue.insert.                                             *)
Insert(ws, w, c) ==
  /\ worker' = [ws EXCEPT ![w].queue = Append(@, c)]
  /\ accepted' = [accepted EXCEPT ![Target[c]] = Append(@, c)]

(* _result_complete, while there is a client to transmit the result.       *)
ResultComplete(c) ==
  /\ results' = Append(results, c)
  /\ answered' = Bump(answered, c)

(* A request has been acknowledged: its resource has a queue, or has to be *)
(* looked up.                                                              *)
Request(c) ==
  /\ up = "up" /\ server = "free"
  /\ FoldFunction(+, 0, requests) < MaxRequests
  /\ requests' = Bump(requests, c)
  /\ LET w == services[Target[c]] IN
       \/ /\ w # Nil
          /\ Insert(worker, w, c)
          /\ UNCHANGED <<server, request>>
       \/ /\ w = Nil
          /\ server' = "lookup" /\ request' = c
          /\ UNCHANGED <<worker, accepted>>
  /\ UNCHANGED <<up, linkUp, services, results, answered, acked, failed, started>>

LookupUnregistered ==       \* mutant: the new queue is not put in the dictionary
  /\ server = "lookup"
  /\ server' = "free" /\ request' = Nil
  /\ \E w \in Worker :
       /\ worker[w] = NoWorker
       /\ Insert([worker EXCEPT ![w].res = Target[request]], w, request)
  /\ UNCHANGED <<up, linkUp, services, results, counts, started>>

(* The resource exists: a new queue, its greenlet, and the command on it.  *)
LookupFound ==
  /\ server = "lookup"
  /\ server' = "free" /\ request' = Nil
  /\ \E w \in Worker :
       /\ worker[w] = NoWorker
       /\ services' = [services EXCEPT ![Target[request]] = w]
       /\ Insert([worker EXCEPT ![w].res = Target[request]], w, request)
  /\ UNCHANGED <<up, linkUp, results, counts, started>>

LookupSilent ==             \* mutant: a resource that is not found gets no result
  /\ server = "lookup"
  /\ server' = "free" /\ request' = Nil
  /\ UNCHANGED <<up, linkUp, queues, results, counts, orders>>

(* NotFound, or no such service: that is the result.                       *)
LookupNotFound ==
  /\ server = "lookup"
  /\ server' = "free" /\ request' = Nil
  /\ ResultComplete(request)
  /\ UNCHANGED <<up, linkUp, queues, requests, acked, failed, orders>>

(* Any other exception leaves the callback and ends the server's greenlet. *)
LookupRaises ==
  /\ LookupFails /\ server = "lookup"
  /\ server' = "none" /\ request' = Nil
  /\ failed' = Bump(failed, request)
  /\ UNCHANGED <<up, linkUp, queues, results, requests, answered, acked, orders>>

Server ==
  \/ \E c \in Cmd : Request(c)
  \/ LookupFound \/ LookupNotFound \/ LookupRaises

-----------------------------------------------------------------------------
(* command_loop: take the first command, execute it, hand its result or    *)
(* its error on; after the sockets have been stopped there is no client    *)
(* and the result is dropped with a warning.                               *)

TakeByPeek(w) ==            \* mutant: queue[0] in place of queue.pop(0)
  /\ worker[w].cmd = Nil /\ worker[w].queue # <<>>
  /\ LET c == Head(worker[w].queue) IN
       /\ worker' = [worker EXCEPT ![w].cmd = c]
       /\ started' = [started EXCEPT ![worker[w].res] = Append(@, c)]
  /\ UNCHANGED <<up, linkUp, server, request, services, results, counts, accepted>>

Take(w) ==
  /\ worker[w].cmd = Nil /\ worker[w].queue # <<>>
  /\ LET c == Head(worker[w].queue) IN
       /\ worker' = [worker EXCEPT ![w].queue = Tail(@), ![w].cmd = c]
       /\ started' = [started EXCEPT ![worker[w].res] = Append(@, c)]
  /\ UNCHANGED <<up, linkUp, server, request, services, results, counts, accepted>>

FinishWithout(w) ==         \* mutant: the command is reset before its result is built
  /\ worker[w].cmd # Nil
  /\ worker' = [worker EXCEPT ![w].cmd = Nil]
  /\ results' = IF up = "up" THEN Append(results, Nil) ELSE results
  /\ UNCHANGED <<up, linkUp, server, request, services, counts, orders>>

Finish(w) ==
  /\ worker[w].cmd # Nil
  /\ worker' = [worker EXCEPT ![w].cmd = Nil]
  /\ \/ /\ up = "up"
        /\ ResultComplete(worker[w].cmd)
        /\ UNCHANGED failed
     \/ /\ up = "stopping"
        /\ failed' = Bump(failed, worker[w].cmd)
        /\ UNCHANGED <<results, answered>>
  /\ UNCHANGED <<up, linkUp, server, request, services, requests, acked, orders>>

-----------------------------------------------------------------------------
(* The R3PC client (module ReliableQueue): the head of its queue is sent   *)
(* until it is acknowledged.                                               *)
Acknowledge ==
  /\ linkUp /\ results # <<>>
  /\ results' = Tail(results)
  /\ acked' = Bump(acked, Head(results))
  /\ UNCHANGED <<up, linkUp, server, request, queues, requests, answered, failed, orders>>

Link ==
  /\ up = "up"
  /\ linkUp' = ~linkUp
  /\ UNCHANGED <<up, server, request, queues, results, counts, orders>>

-----------------------------------------------------------------------------
(* The process                                                             *)

Start ==
  /\ up = "down"
  /\ up' = "up" /\ server' = "free"
  /\ UNCHANGED <<linkUp, request, queues, results, counts, orders>>

(* mixin_on_stop kills the server (perhaps in a look-up) and the client    *)
(* with the results that wait ...                                          *)
StopSockets ==
  /\ up = "up"
  /\ up' = "stopping"
  /\ linkUp' = FALSE /\ server' = "none" /\ request' = Nil
  /\ failed' = IF request = Nil THEN failed ELSE Bump(failed, request)
  /\ results' = <<>>
  /\ UNCHANGED <<queues, requests, answered, acked, orders>>

(* ... and _stop_queues kills the workers; a crash does it all at once.    *)
StopQueues ==
  /\ up # "down"
  /\ up' = "down" /\ linkUp' = FALSE /\ server' = "none" /\ request' = Nil
  /\ services' = [r \in Res |-> Nil] /\ worker' = [w \in Worker |-> NoWorker]
  /\ results' = <<>>
  /\ requests' = Zero /\ answered' = Zero /\ acked' = Zero /\ failed' = Zero
  /\ accepted' = Empty /\ started' = Empty

Next ==
  \/ Server
  \/ \E w \in Worker : Take(w) \/ Finish(w)
  \/ Acknowledge \/ Link
  \/ Start \/ StopSockets \/ StopQueues

Spec == Init /\ [][Next]_vars

-----------------------------------------------------------------------------
(* Properties                                                              *)

Times(c, s) == Cardinality({i \in DOMAIN s : s[i] = c})
Running(c) == {w \in Worker : worker[w].cmd = c}
Places(q, c) == UNION {{w} \X {i \in DOMAIN q[w] : q[w][i] = c} : w \in Worker}
Waiting(c) == Places([w \in Worker |-> worker[w].queue], c)

(* An acknowledged request is never forgotten: it is being looked up, in a *)
(* queue, in execution, or its result has been handed to the client, once  *)
(* (_req_callback, command_loop, _result_complete), except for a look-up   *)
(* or a stop that fails it.                                                *)
Accounted ==
  \A c \in Cmd :
    requests[c] = Cardinality(Waiting(c)) + Cardinality(Running(c))
                  + (IF request = c THEN 1 ELSE 0) + answered[c] + failed[c]

(* A resource's commands are executed one at a time in the order of their  *)
(* requests: there are never two greenlets for one resource.               *)
SerialPerResource ==
  \A r \in Res :
    /\ IsPrefix(started[r], accepted[r])
    /\ Cardinality({w \in Worker : worker[w].res = r /\ worker[w].cmd # Nil}) <= 1

(* Greenlets are scheduled, commands end, the link delivers, and a link    *)
(* that is up is used.                                                     *)
Fairness ==
  /\ WF_vars(LookupFound \/ LookupNotFound)
  /\ \A w \in Worker : WF_vars(Take(w)) /\ WF_vars(Finish(w))
  /\ SF_vars(Acknowledge)

FairSpec == Spec /\ Fairness

(* Every acknowledged request is answered over the link, if it comes up    *)
(* again and again and the process is not stopped.                         *)
EveryRequestAnswered ==
  []<>linkUp /\ <>[](up = "up") =>
    \A c \in Cmd : <>[](requests[c] = acked[c] + failed[c])
=============================================================================
