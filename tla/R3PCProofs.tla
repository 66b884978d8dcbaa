----------------------------- MODULE R3PCProofs -----------------------------
(***************************************************************************)
(* Proofs about R3PC for every set of messages, greenlets and socket       *)
(* generations, when telemetry alternates (~RepeatUp).                     *)
(***************************************************************************)
EXTENDS R3PC, QueueOpsProofs

(* The initial state satisfies the invariant.                              *)
LEMMA InitIInv == Init => IInv
<1> SUFFICES ASSUME Init PROVE IInv
  OBVIOUS
<1>1. TypeOK
  <2>1. queue \in Seq(Msg) /\ enqueued \in Seq(Msg) /\ arrived \in Seq(Msg)
    BY DEF Init
  <2>2. loop \in [Greenlet -> Loop]
    BY DEF Init, NoLoop, Loop, LoopPc
  <2>3. server \in [pc : ServerPc, request : Request \cup {Nil}]
    BY DEF Init, ServerPc
  <2>4. QED
    BY <2>1, <2>2, <2>3 DEF Init, TypeOK
<1>2. LinkInv /\ LoopInv /\ WireInv /\ PoppedHaveArrived
  BY DEF Init, LinkInv, LoopInv, WireInv, PoppedHaveArrived, NoLoop
<1>3. QED
  BY <1>1, <1>2 DEF IInv

(* From the top of the client's loop, with its socket (not awaiting a      *)
(* reply) or with none.                                                    *)
LEMMA TopIInv ==
  ASSUME IInv, NEW g \in Greenlet, loop[g].pc # "none",
         NEW s, s = Nil \/ (s = sock /\ ~sock.sent), Top(g, s), Rest
  PROVE  IInv'
<1> USE NilAssumption
<1>1. PICK t \in IF s = Nil THEN [gen : FreshGen, sent : {FALSE}] ELSE {s} :
        \/ /\ queue = <<>> /\ sock' = t /\ Goto(g, "peek", Nil)
           /\ UNCHANGED <<requests, transmitted>>
        \/ /\ queue # <<>> /\ Send(g, Head(queue), t)
  BY DEF Top
<1>2. /\ ack' = FALSE \/ (ack' = ack /\ s # Nil)
      /\ startEvt' \in BOOLEAN
  BY DEF Top, IInv, TypeOK
<1>3. t \in Socket /\ t # Nil /\ ~t.sent
  BY <1>1 DEF IInv, TypeOK, Socket, FreshGen
<1>4. /\ \A m \in Msg : <<t.gen, m>> \notin requests
      /\ ~Served(t.gen)
      /\ ~ack'
  <2>1. CASE s = Nil
    BY <1>1, <1>2, <2>1 DEF FreshGen
  <2>2. CASE s # Nil
    BY <1>1, <1>2, <2>2 DEF IInv, WireInv
  <2>3. QED
    BY <2>1, <2>2
<1>5. g = greenlet /\ greenlet # Nil /\ linkUp
  BY DEF IInv, LinkInv
<1>6. /\ queue \in Seq(Msg)
      /\ queue # <<>> => Head(queue) \in Msg
      /\ loop \in [Greenlet -> Loop]
  BY DEF IInv, TypeOK
<1>7. CASE queue = <<>> /\ sock' = t /\ Goto(g, "peek", Nil) /\ UNCHANGED <<requests, transmitted>>
  <2>1. TypeOK'
    BY <1>2, <1>3, <1>4, <1>6, <1>7 DEF IInv, TypeOK, Goto, Rest, Loop, LoopPc
  <2>2. LinkInv'
    BY <1>5, <1>6, <1>7 DEF IInv, LinkInv, Goto, Rest
  <2>3. LoopInv'
    BY <1>3, <1>5, <1>6, <1>7 DEF IInv, LinkInv, LoopInv, Goto, Rest
  <2>4. WireInv' /\ PoppedHaveArrived'
    BY <1>3, <1>4, <1>7 DEF IInv, WireInv, PoppedHaveArrived, Served, Rest
  <2>5. QED
    BY <2>1, <2>2, <2>3, <2>4 DEF IInv
<1>8. CASE queue # <<>> /\ Send(g, Head(queue), t)
  <2>1. CASE /\ sock' = [t EXCEPT !.sent = TRUE]
             /\ requests' = requests \cup {<<t.gen, Head(queue)>>}
             /\ transmitted' = transmitted \cup {Head(queue)}
             /\ Goto(g, "recv", Head(queue))
    <3>0. sock' \in Socket /\ sock' # Nil /\ sock'.sent /\ sock'.gen = t.gen
      BY <1>3, <2>1 DEF Socket
    <3>1. TypeOK'
      <4>1. <<t.gen, Head(queue)>> \in Request /\ Head(queue) \in Msg
        <5>1. t.gen \in Gen
          BY <1>3 DEF Socket
        <5>2. Head(queue) \in Msg
          BY <1>6, <1>8
        <5>3. QED
          BY <5>1, <5>2 DEF Request
      <4>2. loop' \in [Greenlet -> Loop]
        BY <1>6, <2>1, <4>1 DEF Goto, Loop, LoopPc
      <4>3. QED
        BY <1>2, <2>1, <3>0, <4>1, <4>2 DEF IInv, TypeOK, Rest
    <3>2. LinkInv'
      BY <1>5, <1>6, <2>1 DEF IInv, LinkInv, Goto, Rest
    <3>3. LoopInv'
      BY <3>0, <1>5, <1>6, <1>8, <2>1 DEF IInv, LinkInv, LoopInv, Goto, Rest
    <3>4. WireInv' /\ PoppedHaveArrived'
      BY <3>0, <1>3, <1>4, <1>5, <1>6, <1>8, <2>1 DEF IInv, WireInv, PoppedHaveArrived, Served, Rest, Goto
    <3>5. QED
      BY <3>1, <3>2, <3>3, <3>4 DEF IInv
  <2>2. CASE sock' = t /\ Goto(g, "send", Head(queue)) /\ UNCHANGED <<requests, transmitted>>
    <3>1. TypeOK'
      BY <1>2, <1>3, <1>4, <1>6, <1>8, <2>2 DEF IInv, TypeOK, Goto, Rest, Loop, LoopPc
    <3>2. LinkInv'
      BY <1>5, <1>6, <2>2 DEF IInv, LinkInv, Goto, Rest
    <3>3. LoopInv'
      BY <1>3, <1>5, <1>6, <1>8, <2>2 DEF IInv, LinkInv, LoopInv, Goto, Rest
    <3>4. WireInv' /\ PoppedHaveArrived'
      BY <1>3, <1>4, <2>2 DEF IInv, WireInv, PoppedHaveArrived, Served, Rest
    <3>5. QED
      BY <3>1, <3>2, <3>3, <3>4 DEF IInv
  <2>3. QED
    BY <1>8, <2>1, <2>2 DEF Send
<1>9. QED
  BY <1>1, <1>7, <1>8

(* A client greenlet's step.  With one client greenlet nobody else touches *)
(* its socket, so the states the code guards against by luck only (a send  *)
(* on no socket, an ack for an empty queue) are not reached.               *)
LEMMA ClientIInv ==
  ASSUME IInv, NEW g \in Greenlet, Client(g)
  PROVE  IInv'
<1> USE NilAssumption
<1>1. CASE Begin(g)
  BY <1>1, TopIInv DEF Begin, IInv, LoopInv
<1>2. CASE SendTimeout(g)
  BY <1>2, TopIInv DEF SendTimeout
<1>3. CASE RecvNull(g)
  BY <1>3, TopIInv DEF RecvNull
<1>4. CASE RecvTimeout(g)
  BY <1>4, TopIInv DEF RecvTimeout
<1>5. CASE CallbackReturn(g)
  BY <1>5, TopIInv DEF CallbackReturn, IInv, LoopInv
<1>6. CASE Peek(g) \/ SendRetry(g)
  <2>1. /\ loop[g].pc \in {"peek", "send"} /\ sock # Nil /\ ~sock.sent
        /\ queue # <<>> /\ Send(g, Head(queue), sock)
        /\ Rest /\ UNCHANGED <<startEvt, ack>>
    BY <1>6 DEF Peek, SendRetry, IInv, LoopInv
  <2>2. Top(g, sock)
    BY <2>1 DEF Top, IInv, TypeOK
  <2>3. QED
    BY <2>1, <2>2, TopIInv
<1>7. CASE RecvAck(g)
  <2>1. /\ g = greenlet /\ greenlet # Nil /\ linkUp
        /\ sock # Nil /\ sock.sent /\ queue # <<>>
        /\ Head(queue) \in Range(arrived)
    BY <1>7 DEF RecvAck, IInv, LinkInv, LoopInv, WireInv
  <2>2. /\ sock' \in Socket /\ sock' # Nil /\ ~sock'.sent /\ sock'.gen = sock.gen
        /\ queue' = Tail(queue) /\ popped' = popped \cup {Head(queue)}
        /\ Goto(g, "callback", loop[g].request) /\ ~ack'
    BY <1>7, <2>1 DEF RecvAck, IInv, TypeOK, Socket
  <2>3. /\ queue' \in Seq(Msg) /\ Head(queue) \in Msg
        /\ loop' \in [Greenlet -> Loop]
    BY <2>1, <2>2 DEF IInv, TypeOK, Loop, LoopPc, Goto
  <2>4. TypeOK'
    BY <1>7, <2>2, <2>3 DEF RecvAck, IInv, TypeOK, endpointVars
  <2>5. LinkInv'
    BY <1>7, <2>1, <2>2 DEF RecvAck, IInv, TypeOK, LinkInv, Goto, endpointVars
  <2>6. LoopInv'
    BY <1>7, <2>1, <2>2 DEF RecvAck, IInv, TypeOK, LinkInv, LoopInv, Goto, endpointVars
  <2>7. WireInv' /\ PoppedHaveArrived'
    BY <1>7, <2>1, <2>2 DEF RecvAck, IInv, WireInv, PoppedHaveArrived, Served
  <2>8. QED
    BY <2>4, <2>5, <2>6, <2>7 DEF IInv
<1>8. QED
  BY <1>1, <1>2, <1>3, <1>4, <1>5, <1>6, <1>7 DEF Client

(* The server acknowledges a request it has taken off the wire.  The ack   *)
(* counts only if the socket is still the client's, and then the request   *)
(* is the head of the queue.                                               *)
LEMMA AcceptIInv ==
  ASSUME IInv, NEW r \in Request, Accept(r),
         server.pc # "ack" => r \in requests,
         server.pc = "ack" => r = server.request /\ requests' = requests,
         server.pc # "ack" => requests' = requests \ {r},
         UNCHANGED <<endpointVars, queue, clientVars, enqueued, transmitted, popped, removed>>
  PROVE  IInv'
<1> USE NilAssumption
<1> USE DEF endpointVars, clientVars
<1>1. /\ server' = [pc |-> "callback", request |-> Nil]
      /\ requests' \subseteq requests
      /\ \A x : ~Served(x)'
  BY DEF Accept, Served
<1>2. /\ r[1] \in Gen /\ r[2] \in Msg /\ r = <<r[1], r[2]>>
      /\ arrived \in Seq(Msg)
  BY DEF Request, IInv, TypeOK
<1>3. /\ arrived' \in Seq(Msg)
      /\ Range(arrived') = Range(arrived) \cup {r[2]}
  <2>1. CASE r[2] \in Range(arrived)
    BY <1>2, <2>1 DEF Accept
  <2>2. CASE r[2] \notin Range(arrived)
    BY <1>2, <2>2, AppendFacts DEF Accept
  <2>3. QED
    BY <2>1, <2>2
<1>4. TypeOK'
  BY <1>1, <1>3 DEF IInv, TypeOK, Accept, ServerPc
<1>5. LinkInv' /\ LoopInv'
  BY DEF IInv, LinkInv, LoopInv
<1>6. PoppedHaveArrived'
  BY <1>3 DEF IInv, PoppedHaveArrived
<1>7. CASE sock # Nil /\ sock.gen = r[1]
  <2>1. /\ sock.sent /\ r[2] = Head(queue)
        /\ \A m \in Msg : <<sock.gen, m>> \notin requests'
    BY <1>2, <1>7 DEF IInv, WireInv, Served
  <2>2. QED
    BY <1>1, <1>3, <1>4, <1>5, <1>6, <1>7, <2>1 DEF IInv, WireInv
<1>8. CASE ~(sock # Nil /\ sock.gen = r[1])
  <2>1. ack' = ack
    BY <1>8 DEF Accept, IInv, TypeOK
  <2>2. QED
    BY <1>1, <1>3, <1>4, <1>5, <1>6, <2>1 DEF IInv, WireInv
<1>9. QED
  BY <1>7, <1>8

LEMMA ServerIInv ==
  ASSUME IInv, Server
  PROVE  IInv'
<1> USE NilAssumption
<1>1. CASE ServerRecv
  <2>1. PICK r \in requests :
          /\ requests' = requests \ {r}
          /\ \/ Accept(r)
             \/ server' = [pc |-> "ack", request |-> r] /\ UNCHANGED <<ack, arrived>>
    BY <1>1 DEF ServerRecv
  <2>2. r \in Request /\ r = <<r[1], r[2]>> /\ r[1] \in Gen /\ r[2] \in Msg
    BY DEF IInv, TypeOK, Request
  <2>3. CASE Accept(r)
    BY <1>1, <2>1, <2>2, <2>3, AcceptIInv DEF ServerRecv
  <2>4. CASE server' = [pc |-> "ack", request |-> r] /\ UNCHANGED <<ack, arrived>>
    <3>1. TypeOK'
      BY <1>1, <2>1, <2>2, <2>4 DEF ServerRecv, IInv, TypeOK, ServerPc, endpointVars, clientVars
    <3>2. LinkInv' /\ LoopInv' /\ PoppedHaveArrived'
      BY <1>1, <2>4 DEF ServerRecv, IInv, LinkInv, LoopInv, PoppedHaveArrived, endpointVars, clientVars
    <3>3. WireInv'
      <4>1. \A x : Served(x)' <=> x = r[1]
        BY <2>4 DEF Served
      <4>2. r # Nil /\ server'.request = r
        BY <2>2, <2>4 DEF Request
      <4>3. /\ UNCHANGED <<sock, queue, greenlet, loop, ack, arrived>>
            /\ requests' \subseteq requests
        BY <1>1, <2>1, <2>4 DEF ServerRecv, endpointVars, clientVars
      <4>4. sock # Nil /\ sock.gen = r[1] =>
              /\ sock.sent /\ r[2] = Head(queue) /\ ~ack
              /\ \A m \in Msg : <<sock.gen, m>> \notin requests'
        BY <2>1, <2>2 DEF IInv, WireInv
      <4>5. QED
        BY <2>4, <4>1, <4>2, <4>3, <4>4 DEF IInv, WireInv
    <3>4. QED
      BY <3>1, <3>2, <3>3 DEF IInv
  <2>5. QED
    BY <2>1, <2>3, <2>4
<1>2. CASE ServerAckRetry
  <2>1. server.request \in Request
    BY <1>2 DEF ServerAckRetry, IInv, TypeOK, WireInv
  <2>2. QED
    BY <1>2, <2>1, AcceptIInv DEF ServerAckRetry
<1>3. CASE ServerAckTimeout \/ ServerCallbackReturn \/ ServerStop \/ ServerStart
  <2>1. /\ server'.pc \in {"recv", "stopped"} /\ server'.request = Nil
        /\ server' \in [pc : ServerPc, request : Request \cup {Nil}]
        /\ UNCHANGED <<endpointVars, queue, clientVars, wireVars, history>>
    BY <1>3 DEF ServerAckTimeout, ServerCallbackReturn, ServerStop, ServerStart, ServerPc
  <2>2. TypeOK' /\ LinkInv' /\ LoopInv' /\ PoppedHaveArrived'
    BY <2>1 DEF IInv, TypeOK, LinkInv, LoopInv, PoppedHaveArrived,
                endpointVars, clientVars, wireVars, history
  <2>3. WireInv'
    BY <2>1 DEF IInv, WireInv, Served, endpointVars, clientVars, wireVars, history
  <2>4. QED
    BY <2>2, <2>3 DEF IInv
<1>4. QED
  BY <1>1, <1>2, <1>3 DEF Server

LEMMA WireIInv ==
  ASSUME IInv, Wire
  PROVE  IInv'
<1> USE DEF endpointVars, clientVars, history
<1>1. /\ requests' \subseteq requests /\ (ack' => ack) /\ ack' \in BOOLEAN
      /\ UNCHANGED <<endpointVars, queue, clientVars, server, history>>
  <2>1. CASE LoseRequest
    BY <2>1 DEF LoseRequest, IInv, TypeOK
  <2>2. CASE LoseAck
    BY <2>2 DEF LoseAck
  <2>3. QED
    BY <2>1, <2>2 DEF Wire
<1>2. TypeOK' /\ LinkInv' /\ LoopInv' /\ PoppedHaveArrived'
  BY <1>1 DEF IInv, TypeOK, LinkInv, LoopInv, PoppedHaveArrived
<1>3. WireInv'
  BY <1>1 DEF IInv, WireInv, Served
<1>4. QED
  BY <1>2, <1>3 DEF IInv

(* Enqueue leaves the head of a non-empty queue alone; Remove runs only    *)
(* when there is no greenlet and no socket; a telemetry event makes or     *)
(* destroys both together.                                                 *)
LEMMA EndpointIInv ==
  ASSUME ~RepeatUp, IInv, Endpoint
  PROVE  IInv'
<1> USE NilAssumption
<1> USE DEF endpointVars, clientVars, wireVars, history
<1>1. ASSUME NEW m \in Msg, Enqueue(m) PROVE IInv'
  <2>1. /\ queue' \in Seq(Msg) /\ enqueued' \in Seq(Msg) /\ queue' # <<>>
        /\ queue # <<>> => Head(queue') = Head(queue)
    BY <1>1, AppendFacts DEF Enqueue, IInv, TypeOK
  <2>2. TypeOK' /\ LinkInv' /\ LoopInv' /\ PoppedHaveArrived'
    BY <1>1, <2>1 DEF Enqueue, IInv, TypeOK, LinkInv, LoopInv, PoppedHaveArrived
  <2>3. WireInv'
    BY <1>1, <2>1 DEF Enqueue, IInv, TypeOK, LinkInv, LoopInv, WireInv, Served
  <2>4. QED
    BY <2>2, <2>3 DEF IInv
<1>2. ASSUME NEW S \in SUBSET Msg, Remove(S) PROVE IInv'
  <2>1. greenlet = Nil /\ sock = Nil /\ ~ack /\ \A g \in Greenlet : loop[g].pc = "none"
    BY <1>2 DEF Remove, IInv, LinkInv, WireInv
  <2>2. queue' \in Seq(Msg)
    <3>1. PICK n \in 0..Len(queue) : queue' \in [1..n -> Range(queue)]
      BY <1>2 DEF Remove, Without, SubLists
    <3>2. queue \in Seq(Msg) /\ Range(queue) \subseteq Msg
      BY DEF IInv, TypeOK, Range
    <3>3. QED
      BY <3>1, <3>2
  <2>3. TypeOK' /\ LinkInv' /\ LoopInv' /\ WireInv' /\ PoppedHaveArrived'
    BY <1>2, <2>1, <2>2 DEF Remove, IInv, TypeOK, LinkInv, LoopInv, WireInv, PoppedHaveArrived
  <2>4. QED
    BY <2>3 DEF IInv
<1>3. CASE LinkUp
  <2>1. PICK g \in Greenlet :
          /\ loop[g].pc = "none"
          /\ loop' = [loop EXCEPT ![g] = [pc |-> "start", request |-> Nil]]
          /\ greenlet' = g
    BY <1>3 DEF LinkUp
  <2>2. /\ ~linkUp /\ greenlet = Nil /\ sock = Nil /\ ~ack
        /\ \A h \in Greenlet : loop[h].pc = "none"
    BY <1>3 DEF LinkUp, IInv, LinkInv, WireInv
  <2>3. TypeOK'
    BY <1>3, <2>1 DEF LinkUp, IInv, TypeOK, Loop, LoopPc
  <2>4. LinkInv' /\ LoopInv' /\ WireInv' /\ PoppedHaveArrived'
    BY <1>3, <2>1, <2>2 DEF LinkUp, IInv, TypeOK, LinkInv, LoopInv, WireInv, PoppedHaveArrived, Served
  <2>5. QED
    BY <2>3, <2>4 DEF IInv
<1>4. CASE LinkDown
  <2>1. /\ loop' \in [Greenlet -> Loop]
        /\ \A g \in Greenlet : loop'[g].pc = "none"
    BY <1>4 DEF LinkDown, IInv, TypeOK, LinkInv, NoLoop, Loop, LoopPc
  <2>2. TypeOK' /\ LinkInv' /\ LoopInv' /\ WireInv' /\ PoppedHaveArrived'
    BY <1>4, <2>1 DEF LinkDown, IInv, TypeOK, LinkInv, LoopInv, WireInv, PoppedHaveArrived
  <2>3. QED
    BY <2>2 DEF IInv
<1>5. QED
  BY <1>1, <1>2, <1>3, <1>4 DEF Endpoint

LEMMA StepIInv ==
  ASSUME ~RepeatUp, IInv, [Next]_vars
  PROVE  IInv'
<1>1. CASE Next
  BY <1>1, ClientIInv, ServerIInv, WireIInv, EndpointIInv DEF Next
<1>2. CASE UNCHANGED vars
  BY <1>2 DEF vars, endpointVars, clientVars, wireVars, history, IInv, TypeOK,
              LinkInv, LoopInv, WireInv, PoppedHaveArrived, Served
<1>3. QED
  BY <1>1, <1>2

(* The invariant holds in every reachable state of a channel whose         *)
(* telemetry alternates, for any number of messages and any traffic.       *)
THEOREM Invariance ==
  ASSUME ~RepeatUp
  PROVE  Spec => []IInv
<1>1. IInv /\ [Next]_vars => IInv'
  BY StepIInv
<1>2. QED
  BY <1>1, InitIInv, PTL DEF Spec

(* Type correctness of the client's and the server's loops and the wire.   *)
THEOREM TypeCorrect ==
  ASSUME ~RepeatUp
  PROVE  Spec => []TypeOK
<1>1. IInv => TypeOK
  BY DEF IInv
<1>2. QED
  BY <1>1, Invariance, PTL

(* No message is taken off the client's queue by an ack that was meant for *)
(* another: what the ack pops has reached the server's callback.           *)
THEOREM NothingLost ==
  ASSUME ~RepeatUp
  PROVE  Spec => []PoppedHaveArrived
<1>1. IInv => PoppedHaveArrived
  BY DEF IInv
<1>2. QED
  BY <1>1, Invariance, PTL

(* While the link stays down no greenlet of the client is alive to put a   *)
(* request on the wire.                                                    *)
THEOREM Silence ==
  ASSUME ~RepeatUp
  PROVE  Spec => SilentWhileDown
<1>1. ASSUME IInv, [Next]_vars, ~linkUp, ~linkUp'
      PROVE  requests' \subseteq requests
  <2>1. ASSUME NEW g \in Greenlet PROVE ~Client(g)
    BY <1>1, NilAssumption DEF IInv, LinkInv, Client, Begin, Peek, SendRetry, SendTimeout,
                RecvAck, RecvNull, RecvTimeout, CallbackReturn
  <2>2. CASE Server
    BY <2>2 DEF Server, ServerRecv, ServerAckRetry, ServerAckTimeout,
                ServerCallbackReturn, ServerStop, ServerStart, wireVars
  <2>3. CASE Wire
    BY <2>3 DEF Wire, LoseRequest, LoseAck
  <2>4. CASE Endpoint
    BY <1>1, <2>4 DEF Endpoint, Enqueue, Remove, LinkUp, LinkDown, wireVars
  <2>5. QED
    BY <1>1, <2>1, <2>2, <2>3, <2>4 DEF Next, vars, wireVars
<1>2. IInv /\ IInv' /\ [Next]_vars => [~linkUp /\ ~linkUp' => requests' \subseteq requests]_vars
  BY <1>1
<1>3. QED
  BY <1>2, Invariance, PTL DEF Spec, SilentWhileDown
-----------------------------------------------------------------------------
(* The channel implements ReliableQueue.                                   *)

(* What is on the wire, or at the server waiting for its ack, was put on   *)
(* the wire.                                                               *)
SentInv ==
  /\ \A r \in requests : r[2] \in transmitted
  /\ server.request # Nil => server.request[2] \in transmitted

LEMMA TopSent ==
  ASSUME SentInv, NEW g \in Greenlet, NEW s, Top(g, s), server' = server
  PROVE  SentInv'
<1>1. PICK t \in IF s = Nil THEN [gen : FreshGen, sent : {FALSE}] ELSE {s} :
        \/ UNCHANGED <<requests, transmitted>>
        \/ Send(g, Head(queue), t)
  BY DEF Top
<1>2. \/ UNCHANGED <<requests, transmitted>>
      \/ /\ requests' = requests \cup {<<t.gen, Head(queue)>>}
         /\ transmitted' = transmitted \cup {Head(queue)}
  BY <1>1 DEF Send
<1>3. QED
  BY <1>2 DEF SentInv

LEMMA StepSent ==
  ASSUME IInv, SentInv, [Next]_vars
  PROVE  SentInv'
<1> USE DEF endpointVars, clientVars, wireVars, history
<1>1. ASSUME NEW g \in Greenlet, Client(g) PROVE SentInv'
  <2>1. CASE Begin(g) \/ SendTimeout(g) \/ RecvNull(g) \/ RecvTimeout(g) \/ CallbackReturn(g)
    BY <2>1, TopSent DEF Begin, SendTimeout, RecvNull, RecvTimeout, CallbackReturn, Rest
  <2>2. CASE RecvAck(g)
    BY <2>2 DEF RecvAck, SentInv
  <2>3. CASE Peek(g) \/ SendRetry(g)
    <3>1. /\ server' = server
          /\ \/ UNCHANGED <<requests, transmitted>>
             \/ \E m : /\ requests' = requests \cup {<<sock.gen, m>>}
                       /\ transmitted' = transmitted \cup {m}
      BY <2>3 DEF Peek, SendRetry, Send, Rest
    <3>2. QED
      BY <3>1 DEF SentInv
  <2>4. QED
    BY <1>1, <2>1, <2>2, <2>3 DEF Client
<1>2. CASE Server
  BY <1>2 DEF Server, ServerRecv, ServerAckRetry, ServerAckTimeout, ServerCallbackReturn,
              ServerStop, ServerStart, Accept, SentInv
<1>3. CASE Wire
  BY <1>3 DEF Wire, LoseRequest, LoseAck, SentInv
<1>4. CASE Endpoint
  BY <1>4 DEF Endpoint, Enqueue, Remove, LinkUp, LinkDown, SentInv
<1>5. CASE UNCHANGED vars
  BY <1>5 DEF vars, SentInv
<1>6. QED
  BY <1>1, <1>2, <1>3, <1>4, <1>5 DEF Next

(* From the top of its loop the client transmits the head of its queue or  *)
(* does nothing that ReliableQueue sees.                                   *)
LEMMA TopMaps ==
  ASSUME IInv, NEW g \in Greenlet, loop[g].pc # "none", NEW s, Top(g, s), Rest
  PROVE  [Promise!Next]_(Promise!vars)
<1>1. PICK t \in IF s = Nil THEN [gen : FreshGen, sent : {FALSE}] ELSE {s} :
        \/ UNCHANGED <<requests, transmitted>>
        \/ queue # <<>> /\ Send(g, Head(queue), t)
  BY DEF Top
<1>2. \/ UNCHANGED transmitted
      \/ queue # <<>> /\ transmitted' = transmitted \cup {Head(queue)}
  BY <1>1 DEF Send
<1>3. linkUp /\ UNCHANGED <<linkUp, queue, enqueued, arrived, popped, removed>>
  BY NilAssumption DEF Rest, IInv, LinkInv
<1>4. QED
  BY <1>2, <1>3 DEF Promise!Next, Promise!Transmit, Promise!vars

(* A client's step transmits the head, or acknowledges it.                 *)
LEMMA ClientMaps ==
  ASSUME IInv, NEW g \in Greenlet, Client(g)
  PROVE  [Promise!Next]_(Promise!vars)
<1> USE NilAssumption
<1>1. CASE Begin(g) \/ SendTimeout(g) \/ RecvNull(g) \/ RecvTimeout(g) \/ CallbackReturn(g)
  BY <1>1, TopMaps DEF Begin, SendTimeout, RecvNull, RecvTimeout, CallbackReturn
<1>2. CASE Peek(g) \/ SendRetry(g)
  <2>1. /\ loop[g].pc # "none" /\ sock # Nil /\ ~sock.sent
        /\ queue # <<>> /\ Send(g, Head(queue), sock)
        /\ Rest /\ UNCHANGED <<startEvt, ack>>
    BY <1>2 DEF Peek, SendRetry, IInv, LoopInv
  <2>2. Top(g, sock)
    BY <2>1 DEF Top, IInv, TypeOK
  <2>3. QED
    BY <2>1, <2>2, TopMaps
<1>3. CASE RecvAck(g)
  <2>1. /\ linkUp /\ queue # <<>> /\ Head(queue) \in Range(arrived)
    BY <1>3 DEF RecvAck, IInv, LinkInv, LoopInv, WireInv
  <2>2. /\ queue' = Tail(queue) /\ popped' = popped \cup {Head(queue)}
        /\ UNCHANGED <<linkUp, enqueued, transmitted, arrived, removed>>
    BY <1>3, <2>1 DEF RecvAck, endpointVars
  <2>3. QED
    BY <2>1, <2>2 DEF Promise!Next, Promise!Acknowledge, Promise!Range, Range
<1>4. QED
  BY <1>1, <1>2, <1>3 DEF Client

(* A server's step is an arrival, or a repeated one, which is not seen.    *)
LEMMA ServerMaps ==
  ASSUME IInv, SentInv, Server
  PROVE  [Promise!Next]_(Promise!vars)
<1> USE DEF endpointVars, clientVars, wireVars, history
<1>1. UNCHANGED <<linkUp, queue, enqueued, transmitted, popped, removed>>
  BY DEF Server, ServerRecv, ServerAckRetry, ServerAckTimeout, ServerCallbackReturn,
         ServerStop, ServerStart
<1>2. \/ UNCHANGED arrived
      \/ \E r \in Request : /\ Accept(r) /\ r[2] \in transmitted
  <2>1. CASE ServerRecv
    BY <2>1 DEF ServerRecv, SentInv, IInv, TypeOK
  <2>2. CASE ServerAckRetry
    BY <2>2 DEF ServerAckRetry, SentInv, IInv, TypeOK, WireInv
  <2>3. QED
    BY <2>1, <2>2 DEF Server, ServerAckTimeout, ServerCallbackReturn, ServerStop, ServerStart
<1>3. ASSUME NEW r \in Request, Accept(r), r[2] \in transmitted
      PROVE  [Promise!Next]_(Promise!vars)
  <2>1. r[2] \in Msg
    BY DEF Request
  <2>2. CASE r[2] \in Range(arrived)
    BY <1>1, <1>3, <2>2 DEF Accept, Promise!vars
  <2>3. CASE r[2] \notin Range(arrived)
    BY <1>1, <1>3, <2>1, <2>3 DEF Accept, Promise!Next, Promise!Arrive, Promise!Range, Range
  <2>4. QED
    BY <2>2, <2>3
<1>4. QED
  BY <1>1, <1>2, <1>3 DEF Promise!vars

LEMMA EndpointMaps ==
  ASSUME IInv, Endpoint
  PROVE  [Promise!Next]_(Promise!vars)
<1> USE DEF endpointVars, clientVars, wireVars, history
<1>1. ASSUME NEW m \in Msg, Enqueue(m) PROVE Promise!Next
  BY <1>1 DEF Enqueue, Promise!Next, Promise!Enqueue, Promise!Range, Range
<1>2. ASSUME NEW S \in SUBSET Msg, Remove(S) PROVE Promise!Next
  BY <1>2 DEF Remove, Promise!Next, Promise!Remove, Promise!Range, Range, Promise!Without, Without,
              Promise!SubLists, SubLists, Promise!IsWithout, IsWithout
<1>3. CASE LinkUp \/ LinkDown
  BY <1>3 DEF LinkUp, LinkDown, Promise!Next, Promise!SetLink
<1>4. QED
  BY <1>1, <1>2, <1>3 DEF Endpoint

(* Sockets, time-outs, retries, lost and repeated requests and restarts of *)
(* either end add nothing to what ReliableQueue allows: every step of the  *)
(* channel is one of its steps or a stutter.                               *)
THEOREM ChannelIsReliable ==
  ASSUME ~RepeatUp
  PROVE  Spec => ImplementsReliableQueue
<1>1. Init => SentInv
  BY DEF Init, SentInv
<1>2. Spec => []SentInv
  <2>1. IInv /\ SentInv /\ [Next]_vars => SentInv'
    BY StepSent
  <2>2. QED
    BY <1>1, <2>1, Invariance, PTL DEF Spec
<1>3. Init => Promise!Init
  BY DEF Init, Promise!Init
<1>4. IInv /\ SentInv /\ [Next]_vars => [Promise!Next]_(Promise!vars)
  <2>1. CASE Wire \/ UNCHANGED vars
    BY <2>1 DEF Wire, LoseRequest, LoseAck, vars, endpointVars, history, Promise!vars
  <2>2. QED
    BY <2>1, ClientMaps, ServerMaps, EndpointMaps DEF Next
<1>5. QED
  BY <1>2, <1>3, <1>4, Invariance, PTL DEF Spec, ImplementsReliableQueue, Promise!Spec
=============================================================================
