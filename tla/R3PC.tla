-------------------------------- MODULE R3PC --------------------------------
(***************************************************************************)
(* One R3PC channel of the two-component agent architecture                *)
(* (ion/services/sa/tcaa/r3pc.py): an R3PCClient with its queue, its zmq   *)
(* REQ socket and its greenlet; an R3PCServer with its zmq REP socket; the *)
(* intermittent link between them; and the endpoint that starts and stops  *)
(* the client on telemetry events and edits its queue while the link is    *)
(* down (endpoint_mixin.py, terrestrial_endpoint.py).                      *)
(*                                                                         *)
(* Greenlets are scheduled cooperatively, so one action is the code from   *)
(* one gevent.sleep (or blocking call) to the next.  The zmq calls are all *)
(* NOBLOCK and do not yield.  Killing a greenlet is one action with the    *)
(* telemetry event that asks for it: the kill is the next callback the hub *)
(* runs, before any timer of the client's loop.                            *)
(***************************************************************************)
EXTENDS QueueOps

CONSTANTS
  Msg,        \* messages; a command has its own id and is queued once
  Greenlet,   \* bound: client greenlets that can be alive together
  Gen,        \* bound: client sockets whose traffic is in the network
  Nil,        \* Python's None
  RepeatUp    \* telemetry may report AVAILABLE twice in a row

ASSUME NilAssumption ==
  /\ Nil \notin Msg \cup Greenlet
  /\ Nil \notin [gen : Gen, sent : BOOLEAN] \cup (Gen \X Msg)
ASSUME FlagAssumption == RepeatUp \in BOOLEAN

VARIABLES
  linkUp,       \* endpoint._link_status = AVAILABLE
  queue,        \* client._queue
  greenlet,     \* client._greenlet
  startEvt,     \* client._start_evt is set up: start() is blocked on it
  sock,         \* client._client, a REQ socket: its generation and state
  loop,         \* what each client greenlet waits for, and its `request`
  server,       \* what the server greenlet does, and its request
  requests,     \* <<socket generation, message>> on the wire
  ack,          \* an ack for the client's socket is on the wire
  enqueued, transmitted, arrived, popped, removed   \* history

endpointVars == <<linkUp, greenlet, startEvt>>
clientVars == <<sock, loop>>
wireVars == <<requests, ack>>
history == <<enqueued, transmitted, arrived, popped, removed>>
vars == <<endpointVars, queue, clientVars, server, wireVars, history>>

(* What the channel promises; module ReliableQueue.                        *)
Promise == INSTANCE ReliableQueue WITH
  Msg <- Msg, linkUp <- linkUp, queue <- queue, enqueued <- enqueued,
  transmitted <- transmitted, arrived <- arrived, popped <- popped, removed <- removed

Socket == [gen : Gen, sent : BOOLEAN]   \* sent: a REQ socket awaits a reply

LoopPc == {"none", "start", "peek", "send", "recv", "callback"}
Loop == [pc : LoopPc, request : Msg \cup {Nil}]
NoLoop == [pc |-> "none", request |-> Nil]

ServerPc == {"stopped", "recv", "ack", "callback"}
Request == Gen \X Msg

TypeOK ==
  /\ linkUp \in BOOLEAN /\ startEvt \in BOOLEAN
  /\ queue \in Seq(Msg) /\ enqueued \in Seq(Msg) /\ arrived \in Seq(Msg)
  /\ greenlet \in Greenlet \cup {Nil}
  /\ sock \in Socket \cup {Nil}
  /\ loop \in [Greenlet -> Loop]
  /\ server \in [pc : ServerPc, request : Request \cup {Nil}]
  /\ requests \subseteq Request /\ ack \in BOOLEAN
  /\ transmitted \subseteq Msg /\ popped \subseteq Msg /\ removed \subseteq Msg

Init ==
  /\ linkUp = FALSE /\ greenlet = Nil /\ startEvt = FALSE
  /\ queue = <<>>
  /\ sock = Nil /\ loop = [g \in Greenlet |-> NoLoop]
  /\ server = [pc |-> "recv", request |-> Nil]
  /\ requests = {} /\ ack = FALSE
  /\ enqueued = <<>> /\ arrived = <<>>
  /\ transmitted = {} /\ popped = {} /\ removed = {}

-----------------------------------------------------------------------------
(* The client's loop                                                       *)

Served(x) == server.pc = "ack" /\ server.request[1] = x

(* Generations no request still bears: a new socket has one of these.  (An *)
(* ack for a socket that has been closed is dropped by zmq.)               *)
FreshGen == {x \in Gen : ~Served(x) /\ \A m \in Msg : <<x, m>> \notin requests}

Goto(g, pc, m) == loop' = [loop EXCEPT ![g] = [pc |-> pc, request |-> m]]

(* An exception nobody catches ends the greenlet.                          *)
Dies(g) == loop' = [loop EXCEPT ![g] = NoLoop]

(* send_pyobj(m, NOBLOCK) on socket s: a REQ socket that awaits a reply    *)
(* refuses, and a socket may refuse at any time (ZMQError); then sleep.    *)
Send(g, m, s) ==
  \/ /\ ~s.sent
     /\ sock' = [s EXCEPT !.sent = TRUE]
     /\ requests' = requests \cup {<<s.gen, m>>}
     /\ transmitted' = transmitted \cup {m}
     /\ Goto(g, "recv", m)
  \/ /\ sock' = s
     /\ Goto(g, "send", m)
     /\ UNCHANGED <<requests, transmitted>>

(* The top of the outer loop, with s in self._client: make a socket if     *)
(* there is none (and release a waiting start()), look at the head of the  *)
(* queue and try to send it, all without yielding.  Top(g, Nil) is what    *)
(* follows _stop_sock().                                                   *)
Top(g, s) ==
  /\ startEvt' = (startEvt /\ s # Nil)
  /\ ack' = (ack /\ s # Nil)
  /\ \E t \in IF s = Nil THEN [gen : FreshGen, sent : {FALSE}] ELSE {s} :
       \/ /\ queue = <<>>
          /\ sock' = t
          /\ Goto(g, "peek", Nil)
          /\ UNCHANGED <<requests, transmitted>>
       \/ /\ queue # <<>>
          /\ Send(g, Head(queue), t)

Rest == UNCHANGED <<linkUp, greenlet, queue, server, enqueued, arrived, popped, removed>>

Begin(g) ==
  /\ loop[g].pc = "start"
  /\ Top(g, sock)
  /\ Rest

(* Asleep on an empty queue: wakes to find a message.                      *)
Peek(g) ==
  /\ loop[g].pc = "peek"
  /\ queue # <<>>
  /\ \/ /\ sock # Nil
        /\ Send(g, Head(queue), sock)
     \/ /\ sock = Nil
        /\ Dies(g)
        /\ UNCHANGED <<sock, requests, transmitted>>
  /\ Rest /\ UNCHANGED <<startEvt, ack>>

SendRetry(g) ==
  /\ loop[g].pc = "send"
  /\ \/ /\ sock # Nil
        /\ Send(g, loop[g].request, sock)
     \/ /\ sock = Nil
        /\ Dies(g)
        /\ UNCHANGED <<sock, requests, transmitted>>
  /\ Rest /\ UNCHANGED <<startEvt, ack>>

SendTimeout(g) ==
  /\ loop[g].pc = "send"
  /\ Top(g, Nil)
  /\ Rest

(* The ack of the socket's request is there: pop the head of the queue and *)
(* call back.  An empty queue is an IndexError.                            *)
RecvAck(g) ==
  /\ loop[g].pc = "recv"
  /\ ack /\ ack' = FALSE
  /\ sock' = [sock EXCEPT !.sent = FALSE]
  /\ \/ /\ queue = <<>>
        /\ Dies(g)
        /\ UNCHANGED <<queue, popped>>
     \/ /\ queue # <<>>
        /\ queue' = Tail(queue)
        /\ popped' = popped \cup {Head(queue)}
        /\ Goto(g, "callback", loop[g].request)
  /\ UNCHANGED <<endpointVars, server, requests, enqueued, transmitted, arrived, removed>>

(* A null reply (a zmq interrupt): the ack is gone, restart the socket.    *)
RecvNull(g) ==
  /\ loop[g].pc = "recv"
  /\ ack
  /\ Top(g, Nil)
  /\ Rest

RecvGivesUp(g) ==           \* mutant: the timeout also drops the message
  /\ loop[g].pc = "recv" /\ queue # <<>>
  /\ queue' = Tail(queue)
  /\ sock' = Nil /\ startEvt' = FALSE /\ ack' = FALSE
  /\ Goto(g, "start", Nil)
  /\ UNCHANGED <<linkUp, greenlet, server, requests, history>>

RecvWaits(g) ==             \* mutant: no timeout, wait on
  /\ loop[g].pc = "recv"
  /\ UNCHANGED vars

(* No ack within the timeout, or another greenlet has closed the socket.   *)
RecvTimeout(g) ==
  /\ loop[g].pc = "recv"
  /\ Top(g, Nil)
  /\ Rest

CallbackReturn(g) ==
  /\ loop[g].pc = "callback"
  /\ Top(g, sock)
  /\ Rest

Client(g) ==
  \/ Begin(g) \/ Peek(g) \/ SendRetry(g) \/ SendTimeout(g)
  \/ RecvAck(g) \/ RecvNull(g) \/ RecvTimeout(g) \/ CallbackReturn(g)

-----------------------------------------------------------------------------
(* The server's loop                                                       *)

(* send_pyobj('OK'), then the callback: no yield between the two.          *)
Accept(r) ==
  /\ ack' = (ack \/ (sock # Nil /\ sock.gen = r[1]))
  /\ arrived' = IF r[2] \in Range(arrived) THEN arrived ELSE Append(arrived, r[2])
  /\ server' = [pc |-> "callback", request |-> Nil]

ServerRecv ==
  /\ server.pc = "recv"
  /\ \E r \in requests :
       /\ requests' = requests \ {r}
       /\ \/ Accept(r)
          \/ /\ server' = [pc |-> "ack", request |-> r]
             /\ UNCHANGED <<ack, arrived>>
  /\ UNCHANGED <<endpointVars, queue, clientVars, enqueued, transmitted, popped, removed>>

ServerAckRetry ==
  /\ server.pc = "ack"
  /\ Accept(server.request)
  /\ UNCHANGED <<endpointVars, queue, clientVars, requests, enqueued, transmitted, popped, removed>>

(* The ack could not be sent: abandon the request, restart the socket.     *)
ServerAckTimeout ==
  /\ server.pc = "ack"
  /\ server' = [pc |-> "recv", request |-> Nil]
  /\ UNCHANGED <<endpointVars, queue, clientVars, wireVars, history>>

ServerCallbackReturn ==
  /\ server.pc = "callback"
  /\ server' = [pc |-> "recv", request |-> Nil]
  /\ UNCHANGED <<endpointVars, queue, clientVars, wireVars, history>>

ServerStop ==
  /\ server.pc # "stopped"
  /\ server' = [pc |-> "stopped", request |-> Nil]
  /\ UNCHANGED <<endpointVars, queue, clientVars, wireVars, history>>

ServerStart ==
  /\ server.pc = "stopped"
  /\ server' = [pc |-> "recv", request |-> Nil]
  /\ UNCHANGED <<endpointVars, queue, clientVars, wireVars, history>>

Server ==
  \/ ServerRecv \/ ServerAckRetry \/ ServerAckTimeout
  \/ ServerCallbackReturn \/ ServerStop \/ ServerStart

-----------------------------------------------------------------------------
(* The wire: a broken connection, a socket closed with LINGER 0, a null    *)
(* request that restarts the server's socket.                              *)
LoseRequest ==
  /\ \E r \in requests : requests' = requests \ {r}
  /\ UNCHANGED <<endpointVars, queue, clientVars, server, ack, history>>

LoseAck ==
  /\ ack /\ ack' = FALSE
  /\ UNCHANGED <<endpointVars, queue, clientVars, server, requests, history>>

Wire == LoseRequest \/ LoseAck

-----------------------------------------------------------------------------
(* The endpoint                                                            *)

Enqueue(m) ==
  /\ m \notin Range(enqueued)
  /\ queue' = Append(queue, m)
  /\ enqueued' = Append(enqueued, m)
  /\ UNCHANGED <<endpointVars, clientVars, server, wireVars, transmitted, arrived, popped, removed>>

RemoveAnyTime(S) ==         \* mutant: the link's status is not looked at
  /\ S # {} /\ S \subseteq Range(queue)
  /\ queue' \in Without(queue, S)
  /\ removed' = removed \cup S
  /\ UNCHANGED <<endpointVars, clientVars, server, wireVars, enqueued, transmitted, arrived, popped>>

(* pop_queue and clear_queue edit client._queue, only while UNAVAILABLE.   *)
Remove(S) ==
  /\ ~linkUp
  /\ S # {} /\ S \subseteq Range(queue)
  /\ queue' \in Without(queue, S)
  /\ removed' = removed \cup S
  /\ UNCHANGED <<endpointVars, clientVars, server, wireVars, enqueued, transmitted, arrived, popped>>

(* An AVAILABLE event: client.start() spawns a greenlet and blocks the     *)
(* subscriber until some greenlet makes a socket.                          *)
LinkUp ==
  /\ ~startEvt
  /\ linkUp => RepeatUp
  /\ linkUp' = TRUE
  /\ startEvt' = TRUE
  /\ \E g \in Greenlet :
       /\ loop[g].pc = "none"
       /\ loop' = [loop EXCEPT ![g] = [pc |-> "start", request |-> Nil]]
       /\ greenlet' = g
  /\ UNCHANGED <<queue, sock, server, wireVars, history>>

(* An UNAVAILABLE event: client.stop() kills the greenlet the client knows *)
(* of and closes the socket.                                               *)
LinkDown ==
  /\ ~startEvt
  /\ linkUp' = FALSE
  /\ loop' = [g \in Greenlet |-> IF g = greenlet THEN NoLoop ELSE loop[g]]
  /\ greenlet' = Nil
  /\ sock' = Nil /\ ack' = FALSE
  /\ UNCHANGED <<startEvt, queue, server, requests, history>>

Endpoint ==
  \/ \E m \in Msg : Enqueue(m)
  \/ \E S \in SUBSET Msg : Remove(S)
  \/ LinkUp \/ LinkDown

-----------------------------------------------------------------------------
Next ==
  \/ \E g \in Greenlet : Client(g)
  \/ Server
  \/ Wire
  \/ Endpoint

Spec == Init /\ [][Next]_vars

-----------------------------------------------------------------------------
(* Properties                                                              *)

(* A message leaves the client's queue on an ack only after the server's   *)
(* callback got that very message (r3pc.py, "If ack received ... pop       *)
(* message"; the ack names no message, and the queue may have changed      *)
(* since the request was read from its head).                              *)
PoppedHaveArrived == popped \subseteq Range(arrived)

(* The inductive invariant behind PoppedHaveArrived, for a channel whose   *)
(* telemetry alternates (~RepeatUp).  LinkInv: a greenlet is alive only    *)
(* while the link is up and only the one the client knows of.  LoopInv: a  *)
(* greenlet that sends or waits for an ack holds the head of the queue.    *)
(* WireInv: what the current socket has on the wire, or at the server, or  *)
(* acknowledged (one of the three) is the head of the queue.               *)
LinkInv ==
  /\ linkUp <=> greenlet # Nil
  /\ \A g \in Greenlet : loop[g].pc # "none" => g = greenlet
  /\ greenlet = Nil => sock = Nil

LoopInv ==
  \A g \in Greenlet :
    /\ loop[g].pc = "start" => sock = Nil
    /\ loop[g].pc \in {"peek", "callback", "send"} => sock # Nil /\ ~sock.sent
    /\ loop[g].pc = "recv" => sock # Nil /\ sock.sent
    /\ loop[g].pc \in {"send", "recv"} => queue # <<>> /\ loop[g].request = Head(queue)

WireInv ==
  /\ sock # Nil =>
       /\ \A m \in Msg : <<sock.gen, m>> \in requests => sock.sent /\ m = Head(queue)
       /\ Served(sock.gen) =>
            /\ sock.sent /\ server.request[2] = Head(queue)
            /\ \A m \in Msg : <<sock.gen, m>> \notin requests
       /\ sock.sent => greenlet # Nil /\ loop[greenlet].pc = "recv"
  /\ ack =>
       /\ sock # Nil /\ sock.sent /\ Head(queue) \in Range(arrived)
       /\ ~Served(sock.gen) /\ \A m \in Msg : <<sock.gen, m>> \notin requests
  /\ server.pc = "ack" <=> server.request # Nil

IInv == TypeOK /\ LinkInv /\ LoopInv /\ WireInv /\ PoppedHaveArrived

(* Stopping the client on link down silences it: while the link stays      *)
(* down no request is put on the wire ("Stop client socket",               *)
(* terrestrial_endpoint.py _on_link_down).                                 *)
SilentWhileDown == [][~linkUp /\ ~linkUp' => requests' \subseteq requests]_vars

(* The detailed channel does what ReliableQueue promises.                  *)
ImplementsReliableQueue == Promise!Spec

(* The exchange on the current socket can still be completed.              *)
Alive ==
  /\ sock # Nil /\ sock.sent
  /\ \/ ack
     \/ Served(sock.gen)
     \/ \E m \in Msg : <<sock.gen, m>> \in requests

(* Scheduling: every runnable greenlet runs; a socket does not refuse for  *)
(* ever; and from some point on the wire loses nothing, the server is not  *)
(* stopped, and no client times out while an ack can still come.           *)
Sent == requests' # requests
Fairness ==
  /\ \A g \in Greenlet :
       /\ WF_vars(Begin(g)) /\ WF_vars(Peek(g)) /\ WF_vars(CallbackReturn(g))
       /\ WF_vars(RecvTimeout(g)) /\ SF_vars(RecvAck(g))
       /\ WF_vars(SendRetry(g)) /\ SF_vars(SendRetry(g) /\ Sent)
  /\ WF_vars(ServerStart) /\ WF_vars(ServerCallbackReturn)
  /\ WF_vars(ServerRecv) /\ SF_vars(ServerAckRetry)
  /\ <>[][~Wire /\ ~ServerStop /\ ~(Alive /\ \E g \in Greenlet : RecvTimeout(g))]_vars

FairSpec == Spec /\ Fairness

(* If the link comes up for good, every queued message is delivered and    *)
(* popped, unless taken off before: no lost request or ack, refused send   *)
(* or server restart leaves the client waiting for ever.                   *)
EventuallyDelivered ==
  <>[]linkUp => \A m \in Msg : m \in Range(queue) ~> m \in popped \cup removed

=============================================================================
