------------------------ MODULE InstrumentAgentProofs ------------------------
(* The agent's greenlets, for every number of sessions, loops and pingers. *)
EXTENDS InstrumentAgent, TLAPS

(* The part of TypeOK that the invariants below rest on.                   *)
AgentTypeOK ==
  /\ state \in State /\ lost \in State
  /\ handler \in Handler \cup {Nil}
  /\ loops \in Nat /\ pingers \in Nat /\ reconnect \in BOOLEAN
  /\ thread \in {"none", "reading"} \cup FromDriver

AgentInv == AgentTypeOK /\ LockInv /\ ReconnectInv /\ ReconnectorAlive /\ PingerAlive

agent == <<state, lost, handler, loops, reconnect, pingers, thread>>

LEMMA InitAgent == Init => AgentInv
  <1>1. SUFFICES ASSUME Init PROVE AgentInv
    OBVIOUS
  <1>2. AgentTypeOK
    BY <1>1 DEF Init, AgentTypeOK, State
  <1>3. LockInv /\ ReconnectInv
    BY <1>1 DEF Init, LockInv, ReconnectInv
  <1>4. ReconnectorAlive /\ PingerAlive
    BY <1>1 DEF Init, ReconnectorAlive, PingerAlive
  <1>5. QED
    BY <1>2, <1>3, <1>4 DEF AgentInv

LEMMA StutterAgent == AgentInv /\ UNCHANGED agent => AgentInv'
  BY DEF AgentInv, AgentTypeOK, LockInv, ReconnectInv, ReconnectorAlive, PingerAlive, agent

(* A handler that does not use the driver.                                 *)
LEMMA MoveAgent ==
  ASSUME AgentInv, NEW e \in DOMAIN Moves, NEW by, by # "loop", Move(e, by),
         thread' \in {"none", "reading"} \cup FromDriver, UNCHANGED <<handler, pingers>>
  PROVE  AgentInv'
  <1>1. PICK next \in Moves[e] : Goto(next, by)
    BY DEF Move
  <1>2. next \in State /\ next # "UNINITIALIZED" /\ state # "UNINITIALIZED"
    BY DEF Move, Moves, Handled, State
  <1>3. AgentTypeOK'
    BY <1>1, <1>2 DEF AgentInv, AgentTypeOK, Goto, Move
  <1>4. LockInv' /\ PingerAlive'
    BY <1>1, <1>2 DEF AgentInv, LockInv, PingerAlive, Move
  <1>5. ReconnectInv' /\ ReconnectorAlive'
    <2>1. (state = "LOST_CONNECTION" => reconnect /\ loops > 0) /\ loops \in Nat
      BY DEF AgentInv, AgentTypeOK, ReconnectorAlive
    <2>2. next = "LOST_CONNECTION" => loops' > 0
      BY <1>1, <2>1 DEF Goto
    <2>3. reconnect' = (next = "LOST_CONNECTION" /\ (state # next \/ reconnect)) /\ state' = next
      BY <1>1 DEF Goto
    <2>4. reconnect' <=> state' = "LOST_CONNECTION"
      BY <2>1, <2>3
    <2>5. QED
      BY <2>2, <2>3, <2>4 DEF ReconnectInv, ReconnectorAlive
  <1>6. QED
    BY <1>3, <1>4, <1>5 DEF AgentInv

(* A handler gets the lock.                                                *)
LEMMA BeginAgent ==
  ASSUME AgentInv, NEW e \in Event, NEW by \in By, Begin(e, by),
         thread' \in {"none", "reading"} \cup FromDriver,
         by = "loop" => e = "AUTORECONNECT" /\ loops > 0,
         by = "pinger" => e = "RESOURCE" /\ pingers > 0
  PROVE  AgentInv'
  BY DEF AgentInv, AgentTypeOK, LockInv, ReconnectInv, ReconnectorAlive, PingerAlive, Begin, Handler

(* A handler is over and the state is next.                                *)
LEMMA FinishAgent ==
  ASSUME AgentInv, handler # Nil, NEW next \in State, Finish(next),
         next = "LOST_CONNECTION" => state = "LOST_CONNECTION",
         thread' \in {"none", "reading"} \cup FromDriver, pingers' \in Nat,
         next # "UNINITIALIZED" => pingers' > 0
  PROVE  AgentInv'
  <1>1. loops' \in Nat
    BY DEF AgentInv, AgentTypeOK, LockInv, Finish, Goto
  <1>2. AgentTypeOK'
    BY <1>1 DEF AgentInv, AgentTypeOK, Finish, Goto
  <1>3. LockInv' /\ PingerAlive'
    BY DEF Finish, LockInv, PingerAlive, Goto
  <1>4. ReconnectInv' /\ ReconnectorAlive'
    BY DEF AgentInv, AgentTypeOK, ReconnectInv, ReconnectorAlive, Finish, Goto
  <1>5. QED
    BY <1>2, <1>3, <1>4 DEF AgentInv

(* While a driver stops, its handler keeps the lock.                       *)
LEMMA StopDriverAgent ==
  ASSUME AgentInv, handler # Nil, StopDriver PROVE AgentInv'
  <1>1. handler \in Handler /\ handler' \in Handler
        /\ handler'.by = handler.by /\ handler'.event = handler.event
    BY DEF AgentInv, AgentTypeOK, StopDriver, Handler
  <1>2. QED
    BY <1>1 DEF AgentInv, AgentTypeOK, LockInv, ReconnectInv, ReconnectorAlive, PingerAlive, StopDriver

(* What a successful handler returns.                                      *)
LEMMA ReturnedState ==
  ASSUME AgentInv, handler # Nil, NEW next \in Returned(handler.event)
  PROVE  /\ next \in State
         /\ next = "LOST_CONNECTION" => state = "LOST_CONNECTION"
         /\ next = "UNINITIALIZED" => state = "UNINITIALIZED"
         /\ handler.event # "INITIALIZE" => next # "UNINITIALIZED"
  <1>1. handler \in Handler /\ handler.event \in Event
    BY DEF AgentInv, AgentTypeOK, Handler
  <1>2. handler.event # "INITIALIZE" => state # "UNINITIALIZED"
    BY <1>1 DEF AgentInv, LockInv, Event, Handled, State
  <1>3. state \in State
    BY DEF AgentInv, AgentTypeOK
  <1>4. QED
    BY <1>1, <1>2, <1>3 DEF Returned, State

LEMMA ReplyAgent == ASSUME AgentInv, Reply PROVE AgentInv'
  <1>1. handler # Nil
    BY DEF Reply, Commanding
  <1>2. CASE handler.event = "RESET"
    BY <1>1, <1>2, StopDriverAgent DEF Reply
  <1>3. CASE handler.event # "RESET"
    <2>1. PICK next \in Returned(handler.event) : Finish(next)
      BY <1>3 DEF Reply
    <2>2. thread' \in {"none", "reading"} \cup FromDriver
      BY <1>3 DEF Reply, AgentInv, AgentTypeOK
    <2>3. pingers' \in Nat /\ (handler.event = "INITIALIZE" => pingers' > 0)
          /\ (handler.event # "INITIALIZE" => pingers' = pingers)
      BY <1>3 DEF Reply, AgentInv, AgentTypeOK
    <2>4. handler.event # "INITIALIZE" => state # "UNINITIALIZED"
      BY <1>1 DEF AgentInv, AgentTypeOK, LockInv, Event, Handled, Handler, State
    <2>5. pingers' > 0
      BY <2>3, <2>4 DEF AgentInv, PingerAlive
    <2>6. QED
      BY <1>1, <2>1, <2>2, <2>3, <2>5, ReturnedState, FinishAgent
  <1>4. QED
    BY <1>2, <1>3

LEMMA ReplyRaisesAgent == ASSUME AgentInv, ReplyRaises PROVE AgentInv'
  <1>1. handler # Nil
    BY DEF ReplyRaises, Commanding
  <1>2. CASE handler.event \in {"RESET", "INITIALIZE"}
    BY <1>1, <1>2, StopDriverAgent DEF ReplyRaises
  <1>3. CASE handler.event \notin {"RESET", "INITIALIZE"}
    <2>1. Finish(state) /\ UNCHANGED <<pingers, thread>>
      BY <1>3 DEF ReplyRaises, driver
    <2>2. QED
      BY <1>1, <2>1, FinishAgent DEF AgentInv, AgentTypeOK, PingerAlive
  <1>4. QED
    BY <1>2, <1>3

LEMMA JoinedAgent == ASSUME AgentInv, Joined PROVE AgentInv'
  <1>1. handler # Nil /\ thread' = "none"
    BY DEF Joined
  <1>2. CASE handler.event = "GO_DIRECT_ACCESS" /\ server = Nil
    <2>1. Finish(state) /\ UNCHANGED pingers
      BY <1>2 DEF Joined
    <2>2. QED
      BY <1>1, <2>1, FinishAgent DEF AgentInv, AgentTypeOK, PingerAlive
  <1>3. CASE ~(handler.event = "GO_DIRECT_ACCESS" /\ server = Nil)
    <2>1. Finish("UNINITIALIZED") /\ pingers' = PingersAfter("UNINITIALIZED", handler.by)
      BY <1>3 DEF Joined
    <2>2. pingers' \in Nat
      BY <1>1, <2>1 DEF AgentInv, AgentTypeOK, LockInv, PingersAfter
    <2>3. "UNINITIALIZED" \in State
      BY DEF State
    <2>4. QED
      BY <1>1, <2>1, <2>2, <2>3, FinishAgent
  <1>4. QED
    BY <1>2, <1>3

LEMMA ThreadAgent == ASSUME AgentInv, ThreadStep PROVE AgentInv'
  <1>1. FromDriver \subseteq DOMAIN Moves
    BY DEF FromDriver, Moves
  <1>2. ASSUME NEW e \in FromDriver, DriverEvent(e) PROVE AgentInv'
    <2>1. CASE Move(e, "thread") /\ UNCHANGED thread
      BY <1>1, <1>2, <2>1, MoveAgent DEF ThreadStep, DriverEvent, AgentInv, AgentTypeOK
    <2>2. CASE thread' = e /\ UNCHANGED <<state, lost, loops, reconnect>>
      BY <1>2, <2>2 DEF ThreadStep, DriverEvent, AgentInv, AgentTypeOK, LockInv, ReconnectInv,
                        ReconnectorAlive, PingerAlive
    <2>3. QED
      BY <1>2, <2>1, <2>2 DEF DriverEvent
  <1>3. ASSUME DriverEventLate PROVE AgentInv'
    <2>1. thread' = "reading" /\ UNCHANGED <<handler, pingers>>
      BY <1>3 DEF DriverEventLate
    <2>2. CASE Move(thread, "thread")
      BY <1>1, <1>3, <2>1, <2>2, MoveAgent DEF DriverEventLate
    <2>3. CASE UNCHANGED <<state, lost, loops, reconnect>>
      BY <2>1, <2>3 DEF AgentInv, AgentTypeOK, LockInv, ReconnectInv, ReconnectorAlive, PingerAlive
    <2>4. QED
      BY <1>3, <2>2, <2>3 DEF DriverEventLate
  <1>4. QED
    BY <1>2, <1>3 DEF ThreadStep

LEMMA GreenletAgent ==
  ASSUME AgentInv, Loop \/ LoopEnds \/ Ping \/ PingerEnds PROVE AgentInv'
  <1>1. thread' = thread /\ thread \in {"none", "reading"} \cup FromDriver
    BY DEF Loop, LoopEnds, Ping, PingerEnds, driver, AgentInv, AgentTypeOK
  <1>2. CASE Loop
    <2>1. "AUTORECONNECT" \in Event /\ "loop" \in By
      BY DEF Event, Handled, By
    <2>2. QED
      BY <1>1, <1>2, <2>1, BeginAgent DEF Loop
  <1>3. CASE Ping
    <2>1. "RESOURCE" \in Event /\ "pinger" \in By
      BY DEF Event, Handled, By
    <2>2. QED
      BY <1>1, <1>3, <2>1, BeginAgent DEF Ping
  <1>4. CASE LoopEnds
    BY <1>1, <1>4 DEF LoopEnds, AgentInv, AgentTypeOK, LockInv, ReconnectInv, ReconnectorAlive, PingerAlive
  <1>5. CASE PingerEnds
    <2>1. handler # Nil => handler.by # "pinger"
      BY <1>5 DEF PingerEnds, AgentInv, AgentTypeOK, LockInv, Handled, State
    <2>2. QED
      BY <1>1, <1>5, <2>1 DEF PingerEnds, AgentInv, AgentTypeOK, LockInv, ReconnectInv,
                              ReconnectorAlive, PingerAlive
  <1>6. QED
    BY <1>2, <1>3, <1>4, <1>5

LEMMA RequestAgent ==
  ASSUME AgentInv, NEW e \in Event, Request(e) \/ RequestMove(e) PROVE AgentInv'
  <1>1. CASE Request(e)
    <2>1. thread' \in {"none", "reading"} \cup FromDriver
      BY <1>1 DEF Request, AgentInv, AgentTypeOK
    <2>2. "rpc" \in By
      BY DEF By
    <2>3. QED
      BY <1>1, <2>1, <2>2, BeginAgent DEF Request
  <1>2. CASE RequestMove(e)
    <2>1. e \in DOMAIN Moves /\ Move(e, "rpc") /\ UNCHANGED <<handler, pingers, thread>>
      BY <1>2 DEF RequestMove, driver
    <2>2. QED
      BY <2>1, MoveAgent DEF AgentInv, AgentTypeOK
  <1>3. QED
    BY <1>1, <1>2

LEMMA SessionAgent ==
  ASSUME AgentInv, NEW s \in Session,
         \/ GoDirectAccess(s) \/ ClientCloses(s) \/ ClientSends(s)
         \/ TimerFires(s) \/ ServerStep(s)
  PROVE  AgentInv'
  <1>1. s \in By /\ "rpc" \in By
    BY DEF By
  <1>2. {"GO_DIRECT_ACCESS", "EXECUTE_DIRECT_ACCESS", "GO_COMMAND"} \subseteq Event
    BY DEF Event, Handled
  <1>3. thread' = thread /\ thread \in {"none", "reading"} \cup FromDriver
    BY DEF GoDirectAccess, ClientCloses, ClientSends, TimerFires, ServerStep, StopSeen,
           ExecuteDirect, CloseCommand, driver, AgentInv, AgentTypeOK
  <1>4. CASE GoDirectAccess(s)
    BY <1>1, <1>2, <1>3, <1>4, BeginAgent DEF GoDirectAccess
  <1>5. CASE UNCHANGED <<state, lost, handler, loops, reconnect, pingers>>
    BY <1>3, <1>5, StutterAgent DEF agent
  <1>6. ASSUME s \notin {"loop", "pinger"}, ExecuteDirect(s) \/ CloseCommand(s) PROVE AgentInv'
    <2>1. CASE Begin("EXECUTE_DIRECT_ACCESS", s)
      BY <1>1, <1>2, <1>3, <1>6, <2>1, BeginAgent
    <2>2. CASE Begin("GO_COMMAND", s)
      BY <1>1, <1>2, <1>3, <1>6, <2>2, BeginAgent
    <2>3. QED
      BY <1>5, <1>6, <2>1, <2>2 DEF ExecuteDirect, CloseCommand
  <1>7. QED
    BY <1>4, <1>5, <1>6, SessionAssumption
       DEF ClientCloses, ClientSends, TimerFires, ServerStep, StopSeen

THEOREM AgentInvariant == Spec => []AgentInv
  <1>1. Init => AgentInv
    BY InitAgent
  <1>2. AgentInv /\ [Next]_vars => AgentInv'
    <2>1. SUFFICES ASSUME AgentInv, [Next]_vars PROVE AgentInv'
      OBVIOUS
    <2>2. CASE UNCHANGED vars
      BY <2>1, <2>2, StutterAgent DEF vars, agent, driver
    <2>3. CASE \E e \in Event : Request(e) \/ RequestMove(e)
      BY <2>1, <2>3, RequestAgent
    <2>4. CASE \E s \in Session : \/ GoDirectAccess(s) \/ ClientCloses(s) \/ ClientSends(s)
                                  \/ TimerFires(s) \/ ServerStep(s)
      BY <2>1, <2>4, SessionAgent
    <2>5. CASE HandlerStep
      <3>1. CASE ReplyTimeout
        BY <2>1, <3>1, StopDriverAgent DEF ReplyTimeout, Commanding
      <3>2. QED
        BY <2>1, <2>5, <3>1, ReplyAgent, ReplyRaisesAgent, JoinedAgent DEF HandlerStep
    <2>6. CASE ThreadStep
      BY <2>1, <2>6, ThreadAgent
    <2>7. CASE Loop \/ LoopEnds \/ Ping \/ PingerEnds
      BY <2>1, <2>7, GreenletAgent
    <2>8. QED
      BY <2>1, <2>2, <2>3, <2>4, <2>5, <2>6, <2>7 DEF Next
  <1>3. QED
    BY <1>1, <1>2, PTL DEF Spec

(* A lost connection always has a loop that tries to get it back: leaving  *)
(* and entering LOST_CONNECTION while loops sleep cannot end the last one. *)
THEOREM LostConnectionIsRetried == Spec => []ReconnectorAlive
  BY AgentInvariant, PTL DEF AgentInv

(* An initialized agent always has a pinger: none is ended by the reset    *)
(* of an earlier driver when the agent has been initialized again.         *)
THEOREM DriverIsPinged == Spec => []PingerAlive
  BY AgentInvariant, PTL DEF AgentInv

-----------------------------------------------------------------------------
(* Direct access                                                           *)

(* What the end of direct access rests on.  The agent's current server has *)
(* not been told by it to stop: whoever tells it also forgets it.  A server*)
(* whose greenlet has a handler run is waited for by nobody else.  Direct  *)
(* access has a driver, so that only GO_COMMAND's own failure could leave  *)
(* it with nothing that ends it.  While start_direct is under way the      *)
(* server may leave already, and then waits to end what has not begun.     *)
SessionsOK == server \in Session \cup {Nil} /\ session \in [Session -> SessionState]
ParentInv == server # Nil => session[server].reason # "parent"
CallingInv ==
  handler # Nil =>
    /\ handler.by \in Session => session[handler.by].tcp = "calling"
    /\ handler.event = "EXECUTE_DIRECT_ACCESS" => handler.by \in Session
DirectInv == state = "DIRECT_ACCESS" => client \/ (handler # Nil /\ handler.leg = "join")
EndInSight ==
  \/ server # Nil /\ session[server].tcp # "none"
  \/ \E s \in Session : session[s].tcp = "close"
StartInv == handler # Nil /\ handler.event = "GO_DIRECT_ACCESS" => EndInSight \/ handler.leg = "join"

AccessInv == SessionsOK /\ ParentInv /\ CallingInv /\ DirectInv /\ StartInv /\ DirectAccessIsServed

LEMMA StoppedFacts ==
  ASSUME NEW r \in SessionState, NEW x \in {"parent", "other"}
  PROVE  /\ Stopped(r, x) \in SessionState /\ Stopped(r, x).tcp = r.tcp
         /\ Stopped(r, x).reason \in {r.reason, x}
  BY DEF Stopped, SessionState

LEMMA ReapFacts ==
  ASSUME NEW r \in SessionState
  PROVE  /\ Reap(r) \in SessionState /\ Reap(r).tcp = r.tcp
         /\ Reap(r).reason \in {r.reason, "none"}
  BY DEF Reap, NoSession, SessionState

LEMMA StopServerFacts ==
  ASSUME server \in Session \cup {Nil}, NEW f \in [Session -> SessionState]
  PROVE  /\ StopServer(f) \in [Session -> SessionState]
         /\ \A s \in Session : StopServer(f)[s].tcp = f[s].tcp
  <1>1. CASE server = Nil
    BY <1>1 DEF StopServer
  <1>2. CASE server # Nil
    <2>1. StopServer(f) = [f EXCEPT ![server] = Reap(Stopped(f[server], "parent"))]
      BY <1>2 DEF StopServer
    <2>2. server \in Session /\ f[server] \in SessionState
      BY <1>2
    <2>3. Stopped(f[server], "parent") \in SessionState /\ Stopped(f[server], "parent").tcp = f[server].tcp
      BY <2>2, StoppedFacts
    <2>4. /\ Reap(Stopped(f[server], "parent")) \in SessionState
          /\ Reap(Stopped(f[server], "parent")).tcp = f[server].tcp
      BY <2>3, ReapFacts
    <2>5. QED
      BY <2>1, <2>2, <2>4
  <1>3. QED
    BY <1>1, <1>2

(* A server's greenlet leaves: either it has the agent's server forgotten  *)
(* and goes on to GO_COMMAND, or it was told to stop, or nothing is there. *)
LEMMA ClosedFacts ==
  ASSUME SessionsOK, NEW s \in Session, Closed(s)
  PROVE  /\ SessionsOK'
         /\ \A t \in Session : t # s => session'[t].tcp = session[t].tcp
         /\ \/ server' = Nil /\ session'[s].tcp = "close"
            \/ /\ UNCHANGED server /\ (session[s].reason = "parent" \/ server = Nil)
               /\ \A t \in Session : t # s => session'[t] = session[t]
  <1>. DEFINE r == [session[s] EXCEPT !.reason = IF @ = "none" THEN "other" ELSE @]
              notified == r.reason # "parent" /\ server # Nil
              f == [session EXCEPT ![s] = Reap([r EXCEPT !.tcp = IF notified THEN "close" ELSE "none"])]
  <1>1. session[s] \in SessionState
    BY DEF SessionsOK
  <1>2. r \in SessionState /\ (r.reason = "parent" => session[s].reason = "parent")
    BY <1>1 DEF SessionState
  <1>3. [r EXCEPT !.tcp = IF notified THEN "close" ELSE "none"] \in SessionState
        /\ [r EXCEPT !.tcp = IF notified THEN "close" ELSE "none"].tcp = IF notified THEN "close" ELSE "none"
    BY <1>2 DEF SessionState
  <1>4. /\ Reap([r EXCEPT !.tcp = IF notified THEN "close" ELSE "none"]) \in SessionState
        /\ Reap([r EXCEPT !.tcp = IF notified THEN "close" ELSE "none"]).tcp
             = IF notified THEN "close" ELSE "none"
    BY <1>3, ReapFacts
  <1>5. /\ f \in [Session -> SessionState] /\ f[s].tcp = IF notified THEN "close" ELSE "none"
        /\ \A t \in Session : t # s => f[t] = session[t]
    BY <1>4 DEF SessionsOK
  <1>6. IF notified THEN server' = Nil /\ session' = StopServer(f) ELSE session' = f /\ UNCHANGED server
    BY DEF Closed
  <1>7. CASE notified
    <2>1. server' = Nil /\ session' = StopServer(f) /\ f[s].tcp = "close"
      BY <1>5, <1>6, <1>7
    <2>2. session' \in [Session -> SessionState] /\ \A t \in Session : session'[t].tcp = f[t].tcp
      BY <1>5, <2>1, StopServerFacts DEF SessionsOK
    <2>3. QED
      BY <1>5, <2>1, <2>2 DEF SessionsOK
  <1>8. CASE ~notified
    BY <1>2, <1>5, <1>6, <1>8 DEF SessionsOK
  <1>9. QED
    BY <1>7, <1>8

(* So a server's end stays in sight when another greenlet, or its own,     *)
(* leaves.                                                                 *)
LEMMA ClosedKeepsEnd ==
  ASSUME SessionsOK, ParentInv, NEW s \in Session, Closed(s), session[s].tcp # "close"
  PROVE  ParentInv' /\ (EndInSight => EndInSight')
  <1>1. ParentInv'
    BY ClosedFacts, SessionAssumption DEF ParentInv, SessionsOK
  <1>2. ASSUME EndInSight PROVE EndInSight'
    BY <1>2, ClosedFacts DEF EndInSight, ParentInv, SessionsOK
  <1>3. QED
    BY <1>1, <1>2

-----------------------------------------------------------------------------
(* The steps, by what becomes of the lock.                                 *)

(* The lock, the state and the driver stay as they are; so does the end of *)
(* direct access, unless there is none to end.                             *)
LEMMA AccessStays ==
  ASSUME AccessInv, UNCHANGED <<state, handler, client>>, SessionsOK', ParentInv', CallingInv',
         EndInSight => EndInSight' \/ (handler = Nil /\ state # "DIRECT_ACCESS")
  PROVE  AccessInv'
  BY DEF AccessInv, DirectInv, StartInv, DirectAccessIsServed, EndInSight

(* A handler gets the lock.                                                *)
LEMMA AccessBegins ==
  ASSUME AccessInv, NEW e \in Event, NEW by \in By, Begin(e, by), UNCHANGED client,
         SessionsOK', ParentInv', by \in Session => session'[by].tcp = "calling",
         e = "EXECUTE_DIRECT_ACCESS" => by \in Session,
         e # "GO_COMMAND" /\ EndInSight => EndInSight', e = "GO_DIRECT_ACCESS" => EndInSight'
  PROVE  AccessInv'
  <1>1. handler = Nil /\ UNCHANGED state /\ handler' = [by |-> by, event |-> e, leg |-> "command"]
    BY DEF Begin
  <1>2. handler' # Nil /\ handler'.by = by /\ handler'.event = e
    BY <1>1, NilAssumption DEF Handler
  <1>3. QED
    BY <1>1, <1>2 DEF AccessInv, DirectInv, StartInv, CallingInv, DirectAccessIsServed, EndInSight

(* A handler is over.                                                      *)
LEMMA AccessFinishes ==
  ASSUME AccessInv, NEW next \in State, Finish(next), SessionsOK', ParentInv',
         next = "DIRECT_ACCESS" => client' /\ EndInSight'
  PROVE  AccessInv'
  BY DEF AccessInv, Finish, Goto, DirectInv, StartInv, CallingInv, DirectAccessIsServed, EndInSight

(* A driver is stopped.                                                    *)
LEMMA AccessStops ==
  ASSUME AccessInv, AgentInv, handler # Nil, StopDriver
  PROVE  AccessInv'
  <1>1. handler \in Handler /\ handler' \in Handler /\ handler'.by = handler.by /\ handler'.leg = "join"
    BY DEF AgentInv, AgentTypeOK, StopDriver, Handler
  <1>2. handler' # Nil
    BY <1>1, NilAssumption
  <1>3. QED
    BY <1>1, <1>2 DEF AccessInv, StopDriver, access, SessionsOK, ParentInv, DirectInv, StartInv,
                      CallingInv, DirectAccessIsServed

(* A handler that does not use the driver leaves direct access or is not   *)
(* about it.                                                               *)
LEMMA AccessMoves ==
  ASSUME AccessInv, NEW e \in DOMAIN Moves, NEW by, Move(e, by), UNCHANGED <<handler, client, access>>
  PROVE  AccessInv'
  <1>1. PICK next \in Moves[e] : Goto(next, by)
    BY DEF Move
  <1>2. handler = Nil /\ state' = next /\ next # "DIRECT_ACCESS"
    BY <1>1 DEF Move, Goto, Moves
  <1>3. QED
    BY <1>2 DEF AccessInv, access, SessionsOK, ParentInv, DirectInv, StartInv, CallingInv,
                DirectAccessIsServed

(* A handler that commands the driver in direct access keeps its end in    *)
(* sight, but for GO_COMMAND, which is that end.                           *)
LEMMA CommandingEnd ==
  ASSUME AccessInv, handler # Nil => handler.leg = "command" /\ handler.event # "GO_COMMAND",
         state = "DIRECT_ACCESS" \/ (handler # Nil /\ handler.event = "GO_DIRECT_ACCESS")
  PROVE  EndInSight
  BY DEF AccessInv, StartInv, DirectAccessIsServed, EndInSight

(* A caller goes on: a greenlet of a server was calling.                   *)
LEMMA ResumedFacts ==
  ASSUME SessionsOK, AgentInv, handler # Nil, CallingInv, NEW f \in [Session -> SessionState],
         \A s \in Session : f[s].tcp = session[s].tcp
  PROVE  /\ Resumed(f, handler.by) \in [Session -> SessionState]
         /\ \A s \in Session : s # handler.by => Resumed(f, handler.by)[s] = f[s]
         /\ handler.event # "GO_COMMAND" => \A s \in Session :
              Resumed(f, handler.by)[s].tcp = IF s = handler.by THEN "open" ELSE session[s].tcp
         /\ \A s \in Session : Resumed(f, handler.by)[s].reason \in {f[s].reason, "none"}
  <1>1. CASE handler.by \notin Session
    BY <1>1 DEF Resumed
  <1>2. CASE handler.by \in Session
    <2>. DEFINE b == handler.by
                g == [f[b] EXCEPT !.tcp = IF handler.event = "GO_COMMAND" THEN "none" ELSE "open"]
    <2>1. g \in SessionState /\ g.tcp = (IF handler.event = "GO_COMMAND" THEN "none" ELSE "open")
          /\ g.reason = f[b].reason
      BY <1>2 DEF SessionState
    <2>2. Reap(g) \in SessionState /\ Reap(g).tcp = g.tcp /\ Reap(g).reason \in {g.reason, "none"}
      BY <2>1, ReapFacts
    <2>3. Resumed(f, b) = [f EXCEPT ![b] = Reap(g)]
      BY <1>2 DEF Resumed
    <2>. HIDE DEF g
    <2>4. QED
      BY <1>2, <2>1, <2>2, <2>3
  <1>3. QED
    BY <1>1, <1>2

LEMMA ReplyAccess == ASSUME AccessInv, AgentInv, Reply PROVE AccessInv'
  <1>1. handler # Nil /\ handler.leg = "command"
    BY DEF Reply, Commanding
  <1>2. CASE handler.event = "RESET"
    BY <1>1, <1>2, AccessStops DEF Reply
  <1>3. CASE handler.event # "RESET"
    <2>1. PICK next \in Returned(handler.event) : Finish(next)
      BY <1>3 DEF Reply
    <2>2. next \in State
      BY <1>1, <2>1, ReturnedState
    <2>3. client' /\ session' = Resumed(session, handler.by) /\ UNCHANGED server
      BY <1>3 DEF Reply
    <2>4. SessionsOK /\ ParentInv /\ CallingInv /\ session \in [Session -> SessionState]
      BY DEF AccessInv, SessionsOK
    <2>5. SessionsOK' /\ ParentInv'
      BY <1>1, <2>3, <2>4, ResumedFacts DEF SessionsOK, ParentInv
    <2>6. ASSUME next = "DIRECT_ACCESS" PROVE EndInSight'
      <3>1. handler.event # "GO_COMMAND"
        BY <2>1, <2>6 DEF Returned
      <3>2. handler \in Handler /\ state \in Handled[handler.event]
        BY <1>1 DEF AgentInv, AgentTypeOK, LockInv
      <3>3. state = "DIRECT_ACCESS" \/ handler.event = "GO_DIRECT_ACCESS"
        BY <2>1, <2>6, <3>2 DEF Returned, Handled, Handler, Event
      <3>4. EndInSight
        BY <1>1, <3>1, <3>3, CommandingEnd
      <3>5. QED
        BY <1>1, <2>3, <2>4, <3>1, <3>4, ResumedFacts DEF EndInSight, CallingInv, SessionsOK
    <2>7. QED
      BY <2>1, <2>2, <2>3, <2>5, <2>6, AccessFinishes
  <1>4. QED
    BY <1>2, <1>3

LEMMA ReplyRaisesAccess ==
  ASSUME AccessInv, AgentInv, "GO_COMMAND" \notin Raises, ReplyRaises PROVE AccessInv'
  <1>1. handler # Nil /\ handler.leg = "command" /\ (handler.event \in Raises \/ ~client)
    BY DEF ReplyRaises, Commanding
  <1>2. CASE handler.event \in {"RESET", "INITIALIZE"}
    BY <1>1, <1>2, AccessStops DEF ReplyRaises
  <1>3. CASE handler.event \notin {"RESET", "INITIALIZE"}
    <2>1. Finish(state) /\ UNCHANGED client /\ state \in State
      BY <1>3 DEF ReplyRaises, driver, AgentInv, AgentTypeOK
    <2>2. SessionsOK /\ ParentInv /\ CallingInv /\ session \in [Session -> SessionState]
      BY DEF AccessInv, SessionsOK
    <2>3. ASSUME state = "DIRECT_ACCESS" PROVE client /\ handler.event # "GO_COMMAND"
      BY <1>1, <2>3 DEF AccessInv, DirectInv
    <2>4. CASE handler.event = "EXECUTE_DIRECT_ACCESS"
      <3>1. Closed(handler.by)
        BY <1>3, <2>4 DEF ReplyRaises
      <3>2. handler.by \in Session /\ session[handler.by].tcp = "calling"
        BY <1>1, <2>2, <2>4 DEF CallingInv
      <3>3. SessionsOK' /\ ParentInv' /\ (EndInSight => EndInSight')
        BY <2>2, <3>1, <3>2, ClosedFacts, ClosedKeepsEnd
      <3>4. state = "DIRECT_ACCESS" => EndInSight
        BY <1>1, <2>3, CommandingEnd
      <3>5. QED
        BY <2>1, <2>3, <3>3, <3>4, AccessFinishes
    <2>5. CASE handler.event # "EXECUTE_DIRECT_ACCESS"
      <3>1. session' = Resumed(session, handler.by) /\ UNCHANGED server
        BY <1>3, <2>5 DEF ReplyRaises
      <3>2. SessionsOK' /\ ParentInv'
        BY <1>1, <2>2, <3>1, ResumedFacts DEF SessionsOK, ParentInv
      <3>3. ASSUME state = "DIRECT_ACCESS" PROVE EndInSight'
        <4>1. EndInSight
          BY <1>1, <2>3, <3>3, CommandingEnd
        <4>2. QED
          BY <1>1, <2>2, <2>3, <3>1, <3>3, <4>1, ResumedFacts DEF EndInSight, CallingInv, SessionsOK
      <3>4. QED
        BY <2>1, <2>3, <3>2, <3>3, AccessFinishes
    <2>6. QED
      BY <2>4, <2>5
  <1>4. QED
    BY <1>2, <1>3

LEMMA JoinedAccess == ASSUME AccessInv, AgentInv, Joined PROVE AccessInv'
  <1>1. handler # Nil /\ handler \in Handler /\ UNCHANGED client
    BY DEF Joined, AgentInv, AgentTypeOK
  <1>2. SessionsOK /\ ParentInv /\ CallingInv /\ session \in [Session -> SessionState]
    BY DEF AccessInv, SessionsOK
  <1>3. CASE handler.event = "GO_DIRECT_ACCESS" /\ server = Nil
    <2>1. Finish(state) /\ UNCHANGED access /\ state \in State /\ state # "DIRECT_ACCESS"
      BY <1>1, <1>3 DEF Joined, AgentInv, AgentTypeOK, LockInv, Handled
    <2>2. SessionsOK' /\ ParentInv'
      BY <1>2, <2>1 DEF access, SessionsOK, ParentInv
    <2>3. QED
      BY <2>1, <2>2, AccessFinishes
  <1>4. CASE ~(handler.event = "GO_DIRECT_ACCESS" /\ server = Nil)
    <2>1. Finish("UNINITIALIZED") /\ "UNINITIALIZED" \in State
      BY <1>4 DEF Joined, State
    <2>2. SessionsOK' /\ ParentInv'
      <3>1. CASE handler.event \in {"GO_DIRECT_ACCESS", "EXECUTE_DIRECT_ACCESS"}
        <4>1. server' = Nil /\ session' = Resumed(StopServer(session), handler.by)
          BY <1>4, <3>1 DEF Joined
        <4>2. StopServer(session) \in [Session -> SessionState]
              /\ \A s \in Session : StopServer(session)[s].tcp = session[s].tcp
          BY <1>2, StopServerFacts DEF SessionsOK
        <4>3. QED
          BY <1>1, <1>2, <4>1, <4>2, ResumedFacts DEF SessionsOK, ParentInv
      <3>2. CASE handler.event \notin {"GO_DIRECT_ACCESS", "EXECUTE_DIRECT_ACCESS"}
        <4>1. session' = Resumed(session, handler.by) /\ UNCHANGED server
          BY <1>4, <3>2 DEF Joined
        <4>2. QED
          BY <1>1, <1>2, <4>1, ResumedFacts DEF SessionsOK, ParentInv
      <3>3. QED
        BY <3>1, <3>2
    <2>3. QED
      BY <2>1, <2>2, AccessFinishes
  <1>5. QED
    BY <1>3, <1>4

-----------------------------------------------------------------------------
(* Every action                                                            *)

LEMMA RequestAccess ==
  ASSUME AccessInv, NEW e \in Event, Request(e) \/ RequestMove(e) PROVE AccessInv'
  <1>1. CASE Request(e)
    <2>1. Begin(e, "rpc") /\ UNCHANGED client /\ e \notin {"GO_DIRECT_ACCESS", "EXECUTE_DIRECT_ACCESS"}
      BY <1>1 DEF Request, Requested
    <2>2. SessionsOK' /\ ParentInv' /\ (e # "GO_COMMAND" => UNCHANGED access)
      BY <1>1, StopServerFacts DEF Request, AccessInv, SessionsOK, ParentInv, access
    <2>3. e # "GO_COMMAND" /\ EndInSight => EndInSight'
      BY <2>2 DEF EndInSight, access
    <2>4. "rpc" \in By /\ "rpc" \notin Session
      BY SessionAssumption DEF By
    <2>5. QED
      BY <2>1, <2>2, <2>3, <2>4, AccessBegins
  <1>2. CASE RequestMove(e)
    BY <1>2, AccessMoves DEF RequestMove, driver
  <1>3. QED
    BY <1>1, <1>2

LEMMA StartAccess ==
  ASSUME AccessInv, NEW s \in Session, GoDirectAccess(s) PROVE AccessInv'
  <1>1. NewSession \in SessionState /\ NewSession.tcp = "open" /\ NewSession.reason = "none"
    BY DEF NewSession, SessionState
  <1>2. server' = s /\ session' = [session EXCEPT ![s] = NewSession] /\ UNCHANGED client
    BY DEF GoDirectAccess, driver
  <1>3. session' \in [Session -> SessionState] /\ session'[s] = NewSession
    BY <1>1, <1>2 DEF AccessInv, SessionsOK
  <1>4. SessionsOK' /\ ParentInv' /\ EndInSight'
    BY <1>1, <1>2, <1>3, SessionAssumption DEF SessionsOK, ParentInv, EndInSight
  <1>5. "rpc" \in By /\ "rpc" \notin Session /\ "GO_DIRECT_ACCESS" \in Event
    BY SessionAssumption DEF By, Event, Handled
  <1>6. Begin("GO_DIRECT_ACCESS", "rpc")
    BY DEF GoDirectAccess
  <1>7. QED
    BY <1>2, <1>4, <1>5, <1>6, AccessBegins

(* A server's greenlet leaves while it has no handler run.                 *)
LEMMA ClosedAccess ==
  ASSUME AccessInv, NEW s \in Session, session[s].tcp \in {"open", "data"}, Closed(s),
         UNCHANGED <<state, handler, client>>
  PROVE  AccessInv'
  <1>1. SessionsOK /\ ParentInv /\ CallingInv
    BY DEF AccessInv
  <1>2. SessionsOK' /\ ParentInv' /\ (EndInSight => EndInSight')
    BY <1>1, ClosedFacts, ClosedKeepsEnd
  <1>3. \A t \in Session : session[t].tcp = "calling" => session'[t].tcp = "calling"
    BY <1>1, ClosedFacts
  <1>4. CallingInv'
    BY <1>1, <1>3 DEF CallingInv
  <1>5. QED
    BY <1>2, <1>4, AccessStays

LEMMA TimerAccess ==
  ASSUME AccessInv, NEW s \in Session, TimerFires(s) PROVE AccessInv'
  <1>1. SessionsOK /\ ParentInv /\ CallingInv /\ session[s] \in SessionState
    BY DEF AccessInv, SessionsOK
  <1>2. session' = [session EXCEPT ![s] = Reap(Stopped(session[s], "other"))]
        /\ UNCHANGED <<state, handler, client, server>>
    BY DEF TimerFires, driver
  <1>3. /\ Stopped(session[s], "other") \in SessionState
        /\ Stopped(session[s], "other").tcp = session[s].tcp
        /\ Stopped(session[s], "other").reason \in {session[s].reason, "other"}
    BY <1>1, StoppedFacts
  <1>4. /\ session' \in [Session -> SessionState]
        /\ \A t \in Session : session'[t].tcp = session[t].tcp
        /\ \A t \in Session : session'[t].reason \in {session[t].reason, "other", "none"}
    BY <1>1, <1>2, <1>3, ReapFacts DEF SessionsOK
  <1>5. SessionsOK' /\ ParentInv' /\ CallingInv' /\ (EndInSight => EndInSight')
    BY <1>1, <1>2, <1>4 DEF SessionsOK, ParentInv, CallingInv, EndInSight
  <1>6. QED
    BY <1>2, <1>5, AccessStays

LEMMA ClientSendsAccess ==
  ASSUME AccessInv, NEW s \in Session, ClientSends(s) PROVE AccessInv'
  <1>1. SessionsOK /\ ParentInv /\ CallingInv /\ session[s] \in SessionState
    BY DEF AccessInv, SessionsOK
  <1>2. session' = [session EXCEPT ![s].tcp = "data"] /\ session[s].tcp = "open"
        /\ UNCHANGED <<state, handler, client, server>>
    BY DEF ClientSends, driver
  <1>3. /\ session' \in [Session -> SessionState] /\ session'[s].tcp = "data"
        /\ \A t \in Session : session'[t].reason = session[t].reason
        /\ \A t \in Session : t # s => session'[t] = session[t]
    BY <1>1, <1>2 DEF SessionsOK, SessionState
  <1>4. SessionsOK' /\ ParentInv' /\ CallingInv' /\ (EndInSight => EndInSight')
    BY <1>1, <1>2, <1>3 DEF SessionsOK, ParentInv, CallingInv, EndInSight
  <1>5. QED
    BY <1>2, <1>4, AccessStays

(* A greenlet takes the lock for itself.                                   *)
LEMMA CallingFacts ==
  ASSUME SessionsOK, NEW s \in Session
  PROVE  LET f == [session EXCEPT ![s].tcp = "calling"]
         IN  /\ f \in [Session -> SessionState] /\ f[s].tcp = "calling"
             /\ \A t \in Session : f[t].reason = session[t].reason
             /\ \A t \in Session : t # s => f[t] = session[t]
  BY DEF SessionsOK, SessionState

LEMMA ExecuteAccess ==
  ASSUME AccessInv, NEW s \in Session, ExecuteDirect(s) PROVE AccessInv'
  <1>1. SessionsOK /\ ParentInv /\ session[s].tcp = "data" /\ UNCHANGED client
    BY DEF AccessInv, ExecuteDirect, driver
  <1>2. CASE state # "DIRECT_ACCESS" /\ Closed(s) /\ UNCHANGED <<state, handler>>
    BY <1>1, <1>2, ClosedAccess
  <1>3. CASE /\ Begin("EXECUTE_DIRECT_ACCESS", s) /\ UNCHANGED server
             /\ session' = [session EXCEPT ![s].tcp = "calling"]
    <2>1. SessionsOK' /\ ParentInv' /\ session'[s].tcp = "calling" /\ (EndInSight => EndInSight')
      BY <1>1, <1>3, CallingFacts DEF SessionsOK, ParentInv, EndInSight
    <2>2. s \in By /\ "EXECUTE_DIRECT_ACCESS" \in Event
      BY DEF By, Event, Handled
    <2>3. QED
      BY <1>1, <1>3, <2>1, <2>2, AccessBegins
  <1>4. QED
    BY <1>2, <1>3 DEF ExecuteDirect

LEMMA CloseAccess ==
  ASSUME AccessInv, NEW s \in Session, CloseCommand(s) PROVE AccessInv'
  <1>1. SessionsOK /\ ParentInv /\ UNCHANGED client /\ handler = Nil
    BY DEF AccessInv, CloseCommand, driver
  <1>2. CASE /\ Begin("GO_COMMAND", s) /\ server' = Nil
             /\ session' = StopServer([session EXCEPT ![s].tcp = "calling"])
    <2>1. SessionsOK' /\ ParentInv' /\ session'[s].tcp = "calling"
      BY <1>1, <1>2, CallingFacts, StopServerFacts DEF SessionsOK, ParentInv
    <2>2. s \in By /\ "GO_COMMAND" \in Event
      BY DEF By, Event, Handled
    <2>3. QED
      BY <1>1, <1>2, <2>1, <2>2, AccessBegins
  <1>3. CASE /\ state # "DIRECT_ACCESS" /\ UNCHANGED <<state, handler, server>>
             /\ session' = [session EXCEPT ![s] = Reap([@ EXCEPT !.tcp = "none"])]
    <2>. DEFINE r == [session[s] EXCEPT !.tcp = "none"]
    <2>1. r \in SessionState /\ r.reason = session[s].reason
      BY <1>1 DEF SessionsOK, SessionState
    <2>2. Reap(r) \in SessionState /\ Reap(r).reason \in {session[s].reason, "none"}
      BY <2>1, ReapFacts
    <2>3. SessionsOK' /\ ParentInv'
      BY <1>1, <1>3, <2>2 DEF SessionsOK, ParentInv
    <2>4. CallingInv'
      BY <1>1, <1>3 DEF CallingInv
    <2>5. QED
      BY <1>1, <1>3, <2>3, <2>4, AccessStays
  <1>4. QED
    BY <1>2, <1>3 DEF CloseCommand

LEMMA ThreadAccess == ASSUME AccessInv, ThreadStep PROVE AccessInv'
  <1>1. FromDriver \subseteq DOMAIN Moves /\ UNCHANGED <<handler, client, access>>
    BY DEF FromDriver, Moves, ThreadStep
  <1>2. CASE \E e \in FromDriver, by \in {"thread"} : Move(e, by)
    BY <1>1, <1>2, AccessMoves
  <1>3. CASE UNCHANGED state
    <2>1. SessionsOK' /\ ParentInv' /\ CallingInv' /\ (EndInSight => EndInSight')
      BY <1>1, <1>3 DEF AccessInv, SessionsOK, ParentInv, CallingInv, EndInSight, access
    <2>2. QED
      BY <1>1, <1>3, <2>1, AccessStays
  <1>4. QED
    BY <1>2, <1>3 DEF ThreadStep, DriverEvent, DriverEventLate

LEMMA GreenletAccess ==
  ASSUME AccessInv, Loop \/ LoopEnds \/ Ping \/ PingerEnds PROVE AccessInv'
  <1>1. UNCHANGED <<client, access>>
    BY DEF Loop, LoopEnds, Ping, PingerEnds, driver
  <1>2. SessionsOK' /\ ParentInv' /\ (EndInSight => EndInSight')
    BY <1>1 DEF AccessInv, SessionsOK, ParentInv, EndInSight, access
  <1>3. /\ {"loop", "pinger"} \subseteq By \ Session
        /\ {"AUTORECONNECT", "RESOURCE"} \subseteq Event
    BY SessionAssumption DEF By, Event, Handled
  <1>4. CASE Loop
    <2>1. Begin("AUTORECONNECT", "loop")
      BY <1>4 DEF Loop
    <2>2. QED
      BY <1>1, <1>2, <1>3, <2>1, AccessBegins
  <1>5. CASE Ping
    <2>1. Begin("RESOURCE", "pinger")
      BY <1>5 DEF Ping
    <2>2. QED
      BY <1>1, <1>2, <1>3, <2>1, AccessBegins
  <1>6. CASE LoopEnds \/ PingerEnds
    <2>1. UNCHANGED <<state, handler>>
      BY <1>6 DEF LoopEnds, PingerEnds
    <2>2. CallingInv'
      BY <1>1, <2>1 DEF AccessInv, CallingInv, access
    <2>3. QED
      BY <1>1, <1>2, <2>1, <2>2, AccessStays
  <1>7. QED
    BY <1>4, <1>5, <1>6

LEMMA InitAccess == Init => AccessInv
  <1>1. SUFFICES ASSUME Init PROVE AccessInv
    OBVIOUS
  <1>2. SessionsOK
    BY <1>1 DEF Init, SessionsOK, SessionState, NoSession
  <1>3. QED
    BY <1>1, <1>2 DEF Init, AccessInv, ParentInv, CallingInv, DirectInv, StartInv, DirectAccessIsServed

(* If the driver answers GO_COMMAND, direct access never stays with nobody *)
(* to end it, whatever its sessions' clients, timers and handlers do.      *)
THEOREM DirectAccessAlwaysEnds ==
  ASSUME "GO_COMMAND" \notin Raises
  PROVE  Spec => []DirectAccessIsServed
  <1>1. Init => AccessInv
    BY InitAccess
  <1>2. AgentInv /\ AccessInv /\ [Next]_vars => AccessInv'
    <2>1. SUFFICES ASSUME AgentInv, AccessInv, [Next]_vars PROVE AccessInv'
      OBVIOUS
    <2>2. CASE UNCHANGED vars
      BY <2>1, <2>2 DEF vars, access, driver, AccessInv, SessionsOK, ParentInv, CallingInv, DirectInv,
                        StartInv, EndInSight, DirectAccessIsServed
    <2>3. CASE \E e \in Event : Request(e) \/ RequestMove(e)
      BY <2>1, <2>3, RequestAccess
    <2>4. ASSUME NEW s \in Session, GoDirectAccess(s) \/ ClientCloses(s) \/ ClientSends(s)
                                      \/ TimerFires(s) \/ ServerStep(s)
          PROVE  AccessInv'
      <3>1. CASE StopSeen(s) \/ ClientCloses(s)
        BY <2>1, <3>1, ClosedAccess DEF StopSeen, ClientCloses, driver
      <3>2. QED
        BY <2>1, <2>4, <3>1, StartAccess, ClientSendsAccess, TimerAccess, ExecuteAccess,
           CloseAccess DEF ServerStep
    <2>5. CASE HandlerStep
      <3>1. CASE ReplyTimeout
        BY <2>1, <3>1, AccessStops DEF ReplyTimeout, Commanding
      <3>2. QED
        BY <2>1, <2>5, <3>1, ReplyAccess, ReplyRaisesAccess, JoinedAccess DEF HandlerStep
    <2>6. CASE ThreadStep
      BY <2>1, <2>6, ThreadAccess
    <2>7. CASE Loop \/ LoopEnds \/ Ping \/ PingerEnds
      BY <2>1, <2>7, GreenletAccess
    <2>8. QED
      BY <2>1, <2>2, <2>3, <2>4, <2>5, <2>6, <2>7 DEF Next
  <1>3. AccessInv => DirectAccessIsServed
    BY DEF AccessInv
  <1>4. QED
    BY <1>1, <1>2, <1>3, AgentInvariant, PTL DEF Spec

-----------------------------------------------------------------------------
(* The driver client                                                       *)

(* A handler that commands the driver has the event thread; one that stops *)
(* it has no client any more; and while start_direct is under way the agent*)
(* has its server, which nothing has told to stop.                         *)
StartingInv ==
  handler # Nil /\ handler.event = "GO_DIRECT_ACCESS" =>
    server \in Session /\ session[server].reason = "none" /\ session[server].tcp = "open"
ClientInv ==
  /\ Commanding => thread # "none"
  /\ handler # Nil /\ handler.leg = "join" => ~client
  /\ client \in BOOLEAN
DriverInv == StartingInv /\ ClientInv /\ DriverMatchesState

(* Every action leaves a session for each name.                            *)
LEMMA SessionNames == ASSUME DOMAIN session = Session, [Next]_vars PROVE DOMAIN session' = Session
  <1>1. \A f, by : DOMAIN Resumed(f, by) = DOMAIN f
    BY DEF Resumed
  <1>2. \A f : DOMAIN StopServer(f) = DOMAIN f
    BY DEF StopServer
  <1>3. ASSUME NEW s, Closed(s) PROVE DOMAIN session' = Session
    BY <1>3, <1>2 DEF Closed
  <1>4. CASE UNCHANGED session
    BY <1>4
  <1>5. CASE \E e \in Event : Request(e) \/ RequestMove(e)
    BY <1>2, <1>5 DEF Request, RequestMove, access
  <1>6. ASSUME NEW s \in Session, GoDirectAccess(s) \/ ClientCloses(s) \/ ClientSends(s) \/ TimerFires(s) \/ ServerStep(s)
        PROVE  DOMAIN session' = Session
    BY <1>2, <1>3, <1>6 DEF GoDirectAccess, ClientCloses, ClientSends, TimerFires, ServerStep, StopSeen,
                           ExecuteDirect, CloseCommand
  <1>7. CASE HandlerStep
    <2>1. CASE StopDriver
      BY <2>1, <1>4 DEF StopDriver, access
    <2>2. QED
      BY <1>1, <1>2, <1>3, <1>7, <2>1 DEF HandlerStep, Reply, ReplyTimeout, ReplyRaises, Joined, access
  <1>8. CASE ThreadStep \/ Loop \/ LoopEnds \/ Ping \/ PingerEnds \/ UNCHANGED vars
    BY <1>8 DEF ThreadStep, Loop, LoopEnds, Ping, PingerEnds, vars, access
  <1>9. QED
    BY <1>5, <1>6, <1>7, <1>8 DEF Next

LEMMA InitDriver == Init => DriverInv
  BY DEF Init, DriverInv, StartingInv, ClientInv, DriverMatchesState, Commanding

(* Nothing that the driver client depends on changes.                      *)
LEMMA DriverStays ==
  ASSUME DriverInv, UNCHANGED <<handler, client>>, StartingInv',
         thread' = thread \/ (thread # "none" /\ thread' # "none"),
         state' = state \/ (state # "UNINITIALIZED" /\ state' # "UNINITIALIZED")
  PROVE  DriverInv'
  BY DEF DriverInv, ClientInv, DriverMatchesState, Commanding

LEMMA DriverBegins ==
  ASSUME AgentInv, DriverInv, NEW e \in Event, NEW by \in By, Begin(e, by), UNCHANGED client,
         thread' = IF e = "INITIALIZE" THEN "reading" ELSE thread,
         e = "GO_DIRECT_ACCESS" => server' \in Session /\ session'[server'].reason = "none" /\ session'[server'].tcp = "open"
  PROVE  DriverInv'
  <1>1. /\ handler = Nil /\ handler' = [by |-> by, event |-> e, leg |-> "command"] /\ state \in Handled[e]
        /\ handler' \in Handler
    BY DEF Begin, Handler
  <1>2. handler' # Nil /\ handler'.event = e /\ handler'.leg = "command"
    BY <1>1, NilAssumption
  <1>3. e # "INITIALIZE" => state # "UNINITIALIZED"
    BY <1>1 DEF Event, Handled, State
  <1>4. QED
    BY <1>1, <1>2, <1>3 DEF DriverInv, StartingInv, ClientInv, DriverMatchesState, Commanding

LEMMA DriverStops ==
  ASSUME AgentInv, DriverInv, Commanding, StopDriver PROVE DriverInv'
  <1>1. /\ handler # Nil /\ handler \in Handler /\ handler' = [handler EXCEPT !.leg = "join"]
        /\ client' = FALSE /\ UNCHANGED access
    BY DEF AgentInv, AgentTypeOK, StopDriver, Commanding
  <1>2. handler' \in Handler /\ handler'.event = handler.event /\ handler'.leg = "join"
    BY <1>1 DEF Handler
  <1>3. handler' # Nil
    BY <1>2, NilAssumption
  <1>4. QED
    BY <1>1, <1>2, <1>3 DEF DriverInv, StartingInv, ClientInv, DriverMatchesState, Commanding, access

LEMMA DriverHandled == ASSUME AgentInv, DriverInv, HandlerStep PROVE DriverInv'
  <1>1. handler # Nil /\ handler \in Handler /\ handler.event \in Event
    BY DEF HandlerStep, Reply, ReplyTimeout, ReplyRaises, Joined, Commanding, AgentInv, AgentTypeOK, Handler
  <1>2. handler.event # "INITIALIZE" => state # "UNINITIALIZED"
    BY <1>1 DEF AgentInv, LockInv, Event, Handled, State
  <1>3. CASE StopDriver /\ Commanding
    BY <1>3, DriverStops
  <1>4. CASE Reply /\ handler.event # "RESET"
    <2>1. PICK next \in Returned(handler.event) : Finish(next)
      BY <1>4 DEF Reply
    <2>2. client' = TRUE /\ thread' = thread /\ thread # "none" /\ handler' = Nil /\ state' = next
      BY <1>4, <2>1 DEF Reply, Finish, Goto, DriverInv, ClientInv
    <2>3. next # "UNINITIALIZED"
      <3>1. handler.event = "INITIALIZE" => next = "INACTIVE"
        BY <2>1 DEF Returned
      <3>2. QED
        BY <1>1, <2>1, <3>1, ReturnedState
    <2>4. QED
      BY <2>2, <2>3 DEF DriverInv, StartingInv, ClientInv, DriverMatchesState, Commanding
  <1>5. CASE ReplyRaises /\ handler.event \notin {"RESET", "INITIALIZE"}
    <2>1. Finish(state) /\ UNCHANGED driver /\ Commanding
      BY <1>5 DEF ReplyRaises
    <2>2. handler' = Nil /\ state' = state /\ UNCHANGED <<client, thread>>
      BY <2>1 DEF Finish, Goto, driver
    <2>3. QED
      BY <1>2, <1>5, <2>1, <2>2 DEF DriverInv, StartingInv, ClientInv, DriverMatchesState, Commanding
  <1>6. CASE Joined
    <2>1. ~(handler.event = "GO_DIRECT_ACCESS" /\ server = Nil)
      BY <1>1, SessionAssumption DEF DriverInv, StartingInv
    <2>2. Finish("UNINITIALIZED") /\ thread' = "none" /\ client' = client /\ ~client
      BY <1>6, <2>1 DEF Joined, DriverInv, ClientInv
    <2>3. handler' = Nil /\ state' = "UNINITIALIZED"
      BY <2>2 DEF Finish, Goto
    <2>4. QED
      BY <2>2, <2>3 DEF DriverInv, StartingInv, ClientInv, DriverMatchesState, Commanding
  <1>7. QED
    BY <1>3, <1>4, <1>5, <1>6 DEF HandlerStep, Reply, ReplyTimeout, ReplyRaises

(* The only session is the one that starts: nothing ends it meanwhile.     *)
LEMMA DriverSessions ==
  ASSUME ~SlowStart, \A s, t \in Session : s = t, AgentInv, DriverInv, DOMAIN session = Session, NEW s \in Session,
         GoDirectAccess(s) \/ ClientCloses(s) \/ ClientSends(s) \/ TimerFires(s) \/ ServerStep(s)
  PROVE  DriverInv'
  <1>1. CASE GoDirectAccess(s)
    <2>1. NewSession.reason = "none" /\ NewSession.tcp = "open"
      BY DEF NewSession
    <2>2. Begin("GO_DIRECT_ACCESS", "rpc") /\ server' = s /\ session' = [session EXCEPT ![s] = NewSession]
          /\ UNCHANGED <<client, thread>>
      BY <1>1 DEF GoDirectAccess, driver
    <2>3. "rpc" \in By /\ "GO_DIRECT_ACCESS" \in Event
      BY DEF By, Event, Handled
    <2>4. server' \in Session /\ session'[server'] = NewSession
      BY <2>2
    <2>5. QED
      BY <2>1, <2>2, <2>3, <2>4, DriverBegins
  <1>2. CASE ClientCloses(s) \/ ClientSends(s) \/ TimerFires(s) \/ StopSeen(s)
    <2>1. ~(handler # Nil /\ handler.event = "GO_DIRECT_ACCESS")
      BY <1>2 DEF ClientCloses, ClientSends, TimerFires, StopSeen, Starting, DriverInv, StartingInv
    <2>2. UNCHANGED <<state, handler, client, thread>>
      BY <1>2 DEF ClientCloses, ClientSends, TimerFires, StopSeen, driver
    <2>3. StartingInv'
      BY <2>1, <2>2 DEF StartingInv
    <2>4. QED
      BY <2>2, <2>3, DriverStays
  <1>3. CASE ExecuteDirect(s) \/ CloseCommand(s)
    <2>1. UNCHANGED <<client, thread>> /\ handler = Nil /\ s \in By /\ {"EXECUTE_DIRECT_ACCESS", "GO_COMMAND"} \subseteq Event
      BY <1>3 DEF ExecuteDirect, CloseCommand, driver, By, Event, Handled
    <2>2. CASE Begin("EXECUTE_DIRECT_ACCESS", s) \/ Begin("GO_COMMAND", s)
      BY <2>1, <2>2, DriverBegins
    <2>3. CASE UNCHANGED <<state, handler>>
      BY <2>1, <2>3, DriverStays DEF StartingInv
    <2>4. QED
      BY <1>3, <2>2, <2>3 DEF ExecuteDirect, CloseCommand
  <1>4. QED
    BY <1>1, <1>2, <1>3 DEF ServerStep

LEMMA DriverMoves ==
  ASSUME AgentInv, DriverInv, NEW e \in DOMAIN Moves, NEW by, Move(e, by), UNCHANGED <<handler, client>>,
         thread' = thread \/ (thread # "none" /\ thread' # "none")
  PROVE  DriverInv'
  <1>1. PICK next \in Moves[e] : Goto(next, by)
    BY DEF Move
  <1>2. next # "UNINITIALIZED" /\ state # "UNINITIALIZED"
    BY DEF Move, Moves, Handled, State
  <1>3. state' = next /\ handler = Nil
    BY <1>1 DEF Goto, Move
  <1>4. StartingInv'
    BY <1>3 DEF StartingInv
  <1>5. QED
    BY <1>2, <1>3, <1>4, DriverStays

LEMMA DriverOthers ==
  ASSUME AgentInv, DriverInv,
         ThreadStep \/ Loop \/ LoopEnds \/ Ping \/ PingerEnds \/ \E e \in Event : Request(e) \/ RequestMove(e)
  PROVE  DriverInv'
  <1>1. CASE UNCHANGED <<state, handler, client, access>> /\ (thread' = thread \/ (thread # "none" /\ thread' # "none"))
    BY <1>1, DriverStays DEF DriverInv, StartingInv, access
  <1>2. CASE ThreadStep
    <2>1. FromDriver \subseteq DOMAIN Moves /\ "none" \notin FromDriver
      BY DEF FromDriver, Moves
    <2>2. thread # "none" /\ thread' # "none" /\ UNCHANGED <<handler, client, access>>
      BY <1>2, <2>1 DEF ThreadStep, DriverEvent, DriverEventLate, AgentInv, AgentTypeOK, FromDriver
    <2>3. CASE \E e \in FromDriver, by \in {"thread"} : Move(e, by)
      BY <2>1, <2>2, <2>3, DriverMoves
    <2>4. QED
      BY <1>1, <1>2, <2>2, <2>3 DEF ThreadStep, DriverEvent, DriverEventLate
  <1>3. CASE LoopEnds \/ PingerEnds
    BY <1>1, <1>3 DEF LoopEnds, PingerEnds, driver
  <1>4. CASE Loop \/ Ping
    <2>1. {"loop", "pinger"} \subseteq By /\ {"AUTORECONNECT", "RESOURCE"} \subseteq Event
      BY DEF By, Event, Handled
    <2>2. QED
      BY <1>4, <2>1, DriverBegins DEF Loop, Ping, driver
  <1>5. ASSUME NEW e \in Event, Request(e) PROVE DriverInv'
    <2>1. "rpc" \in By /\ e # "GO_DIRECT_ACCESS"
      BY <1>5 DEF By, Request, Requested
    <2>2. QED
      BY <1>5, <2>1, DriverBegins DEF Request
  <1>6. ASSUME NEW e \in Event, RequestMove(e) PROVE DriverInv'
    BY <1>6, DriverMoves DEF RequestMove, driver
  <1>7. QED
    BY <1>2, <1>3, <1>4, <1>5, <1>6

(* Where at most one direct access server is alive, and start_direct does  *)
(* not outlast its timer, the agent has a driver client and an event thread*)
(* between handlers exactly when it is initialized, and commands no driver *)
(* without a client, whatever raises, times out or interleaves.            *)
THEOREM ClientMatchesState ==
  ASSUME ~SlowStart, \A s, t \in Session : s = t
  PROVE  Spec => []DriverMatchesState
  <1>. DEFINE Named == DOMAIN session = Session
  <1>1. AgentInv /\ DriverInv /\ Named /\ [Next]_vars => DriverInv'
    <2>1. SUFFICES ASSUME AgentInv, DriverInv, Named, [Next]_vars PROVE DriverInv'
      OBVIOUS
    <2>2. CASE UNCHANGED vars
      BY <2>1, <2>2, DriverStays DEF vars, access, driver, DriverInv, StartingInv
    <2>3. CASE HandlerStep
      BY <2>1, <2>3, DriverHandled
    <2>4. ASSUME NEW s \in Session, \/ GoDirectAccess(s) \/ ClientCloses(s) \/ ClientSends(s)
                                    \/ TimerFires(s) \/ ServerStep(s)
          PROVE  DriverInv'
      BY <2>1, <2>4, DriverSessions
    <2>5. QED
      BY <2>1, <2>2, <2>3, <2>4, DriverOthers DEF Next
  <1>2. DriverInv => DriverMatchesState
    BY DEF DriverInv
  <1>3. Init => Named
    BY DEF Init
  <1>4. Named /\ [Next]_vars => Named'
    BY SessionNames
  <1>. HIDE DEF Named
  <1>5. QED
    BY InitDriver, <1>1, <1>2, <1>3, <1>4, AgentInvariant, PTL DEF Spec
=============================================================================
