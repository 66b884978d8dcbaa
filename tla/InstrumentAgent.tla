--------------------------- MODULE InstrumentAgent ---------------------------
(***************************************************************************)
(* The instrument agent (ion/agents/instrument/instrument_agent.py), its   *)
(* driver client (driver_client.py, driver_process.py) and its direct      *)
(* access servers (direct_access/direct_access_server.py).                 *)
(*                                                                         *)
(* The agent is a state machine behind a lock: a handler that commands the *)
(* driver holds the lock until the reply, an exception or a time-out.      *)
(* Five kinds of greenlets send it events: the RPC requests, the driver    *)
(* client's event thread, the reconnect loops, the pingers and the servers *)
(* of direct access sessions, each with a timer of its own.                *)
(***************************************************************************)
EXTENDS Naturals, FiniteSets

CONSTANTS
  Session,          \* bound: direct access servers that are alive together
  MaxLoops,         \* bound: reconnect loops that are alive together
  MaxPingers,       \* bound: pingers that are alive together
  Raises,           \* the events in whose handlers the driver may raise
  Overlap,          \* the driver may send agent events while a handler runs
  SlowStart,        \* start_direct may outlast the session's timer
  Nil               \* Python's None

ASSUME SessionAssumption == Nil \notin Session /\ Session \cap {"rpc", "loop", "pinger"} = {}
ASSUME BoundAssumption == MaxLoops \in Nat /\ MaxPingers \in Nat
ASSUME DriverAssumption == Overlap \in BOOLEAN /\ SlowStart \in BOOLEAN

(* BUSY stands for BUSY, TEST and CALIBRATE, whose handlers are the same.  *)
State == {"UNINITIALIZED", "INACTIVE", "IDLE", "STOPPED", "COMMAND", "STREAMING",
          "BUSY", "DIRECT_ACCESS", "LOST_CONNECTION", "ACTIVE_UNKNOWN"}

(* The states that have a handler for an event.  RESOURCE stands for the   *)
(* events that only pass a command to the driver: GET_RESOURCE,            *)
(* SET_RESOURCE, EXECUTE_RESOURCE, GET_RESOURCE_STATE,                     *)
(* GET_RESOURCE_CAPABILITIES and PING_RESOURCE.                            *)
Handled == [
  INITIALIZE            |-> {"UNINITIALIZED"},
  RESET                 |-> State \ {"UNINITIALIZED", "BUSY", "DIRECT_ACCESS"},
  GO_ACTIVE             |-> {"INACTIVE", "ACTIVE_UNKNOWN"},
  GO_INACTIVE           |-> {"IDLE", "STOPPED", "COMMAND", "STREAMING",
                             "LOST_CONNECTION", "ACTIVE_UNKNOWN"},
  RESOURCE              |-> State \ {"UNINITIALIZED"},
  GO_DIRECT_ACCESS      |-> {"COMMAND", "ACTIVE_UNKNOWN"},
  EXECUTE_DIRECT_ACCESS |-> {"DIRECT_ACCESS"},
  GO_COMMAND            |-> {"DIRECT_ACCESS"},
  AUTORECONNECT         |-> {"LOST_CONNECTION"},
  RUN                   |-> {"IDLE"},
  RESUME                |-> {"STOPPED"},
  CLEAR                 |-> {"STOPPED", "COMMAND"},
  PAUSE                 |-> {"COMMAND"},
  DONE                  |-> {"BUSY"},
  LOST_CONNECTION       |-> {"IDLE", "STOPPED", "COMMAND", "STREAMING", "BUSY",
                             "DIRECT_ACCESS"},
  CHANGE_STATE_ASYNC    |-> {"COMMAND", "STREAMING", "BUSY"}]

Event == DOMAIN Handled
Requested == {"INITIALIZE", "RESET", "GO_ACTIVE", "GO_INACTIVE", "RESOURCE", "GO_COMMAND"}
FromDriver == {"LOST_CONNECTION", "CHANGE_STATE_ASYNC"}
ASSUME RaisesAssumption == Raises \subseteq Event

(* Where the handlers that do not use the driver go.                       *)
Moves == [RUN |-> {"COMMAND"}, RESUME |-> {"COMMAND"}, CLEAR |-> {"IDLE"},
          PAUSE |-> {"STOPPED"}, DONE |-> {"COMMAND"},
          LOST_CONNECTION |-> {"LOST_CONNECTION"},
          CHANGE_STATE_ASYNC |-> {"BUSY", "COMMAND", "STREAMING"}]

VARIABLES
  state,         \* the state machine's current state
  lost,          \* _state_when_lost
  handler,       \* the handler that holds the lock, or Nil
  client,        \* _dvr_client is not None
  thread,        \* the event thread: "none", "reading", or the event it waits to send
  loops,         \* _autoreconnect greenlets
  reconnect,     \* _autoreconnect_greenlet is not None
  pingers,       \* ping_func greenlets
  server,        \* _da_server
  session        \* each direct access server

driver == <<client, thread>>
access == <<server, session>>
vars == <<state, lost, handler, driver, loops, reconnect, pingers, access>>

By == {"rpc", "loop", "pinger"} \cup Session
Handler == [by : By, event : Event, leg : {"command", "join"}]
ASSUME NilAssumption == Nil \notin Handler

(* tcp: the server's greenlet is listening or connected, waits for the     *)
(* lock with its client's data or with GO_COMMAND, or has the handler run; *)
(* reason: close_reason once stop_server is set; timer: its timer greenlet *)
(* is alive, and already_stopping is not set.                              *)
SessionState == [tcp : {"none", "open", "data", "close", "calling"},
                 reason : {"none", "parent", "other"}, timer : BOOLEAN]
NoSession == [tcp |-> "none", reason |-> "none", timer |-> FALSE]
NewSession == [tcp |-> "open", reason |-> "none", timer |-> TRUE]

TypeOK ==
  /\ state \in State /\ lost \in State
  /\ handler \in Handler \cup {Nil}
  /\ client \in BOOLEAN /\ thread \in {"none", "reading"} \cup FromDriver
  /\ loops \in Nat /\ reconnect \in BOOLEAN /\ pingers \in Nat
  /\ server \in Session \cup {Nil} /\ session \in [Session -> SessionState]

Init ==
  /\ state = "UNINITIALIZED" /\ lost = "UNINITIALIZED" /\ handler = Nil
  /\ client = FALSE /\ thread = "none"
  /\ loops = 0 /\ reconnect = FALSE /\ pingers = 0
  /\ server = Nil /\ session = [s \in Session |-> NoSession]

-----------------------------------------------------------------------------
(* The state machine                                                       *)

(* Mutant: a loop ends with its first attempt.                             *)
GotoOneTry(next, by) ==
  /\ state' = next
  /\ reconnect' = (next = "LOST_CONNECTION" /\ (state # next \/ reconnect))
  /\ loops' = IF next = "LOST_CONNECTION" /\ state # next THEN loops + 1
              ELSE IF by = "loop" THEN loops - 1 ELSE loops

(* A transition with its exit and enter handlers.  Entering                *)
(* LOST_CONNECTION starts a loop; a loop that has sent an event stops when *)
(* the attribute is None, whichever loop has set it.                       *)
Goto(next, by) ==
  /\ state' = next
  /\ reconnect' = (next = "LOST_CONNECTION" /\ (state # next \/ reconnect))
  /\ loops' = IF next = "LOST_CONNECTION" /\ state # next THEN loops + 1
              ELSE IF by = "loop" /\ ~reconnect' THEN loops - 1 ELSE loops

(* A pinger looks at the state when its command is over.                   *)
PingersAfter(next, by) == IF by = "pinger" /\ next = "UNINITIALIZED" THEN pingers - 1 ELSE pingers

(* A handler that does not use the driver.                                 *)
Move(e, by) ==
  /\ handler = Nil /\ state \in Handled[e]
  /\ \E next \in Moves[e] : Goto(next, by)
  /\ lost' = IF e = "LOST_CONNECTION" THEN state ELSE lost
  /\ e = "LOST_CONNECTION" => loops < MaxLoops

(* A handler gets the lock and sends its first command.                    *)
Begin(e, by) ==
  /\ handler = Nil /\ state \in Handled[e]
  /\ handler' = [by |-> by, event |-> e, leg |-> "command"]
  /\ UNCHANGED <<state, lost, loops, reconnect, pingers>>

(* Mutant: stop kills the timer without telling the server.                *)
StoppedTimer(r, reason) == IF r.timer THEN [r EXCEPT !.timer = FALSE] ELSE r

(* DirectAccessServer._stop, by its parent or its timer; the server keeps  *)
(* the first reason to stop.                                               *)
Stopped(r, reason) ==
  IF r.timer THEN [r EXCEPT !.timer = FALSE, !.reason = IF @ = "none" THEN reason ELSE @] ELSE r

(* Nothing is left of a server without its greenlet and its timer.         *)
Reap(r) == IF r.tcp = "none" /\ ~r.timer THEN NoSession ELSE r

StopServer(f) == IF server = Nil THEN f ELSE [f EXCEPT ![server] = Reap(Stopped(@, "parent"))]

(* Mutant: a server that the client leaves tells nobody.                   *)
ClosedSilently(s) ==
  session' = [session EXCEPT ![s] = Reap([@ EXCEPT !.tcp = "none"])] /\ UNCHANGED server

(* A server's greenlet leaves its handler or its listen loop: _exit_handler*)
(* and _notify_parent, with the parent's callback up to its GO_COMMAND.    *)
(* The callback does not know which server calls it; without a server its  *)
(* AttributeError is swallowed.                                            *)
Closed(s) ==
  LET r == [session[s] EXCEPT !.reason = IF @ = "none" THEN "other" ELSE @]
      notified == r.reason # "parent" /\ server # Nil
      f == [session EXCEPT ![s] = Reap([r EXCEPT !.tcp = IF notified THEN "close" ELSE "none"])]
  IN IF notified THEN server' = Nil /\ session' = StopServer(f)
                 ELSE session' = f /\ UNCHANGED server

-----------------------------------------------------------------------------
(* RPC requests                                                            *)

(* execute_agent and the resource commands.  GO_COMMAND stops the server   *)
(* before it commands the driver.                                          *)
Request(e) ==
  /\ e \in Requested
  /\ Begin(e, "rpc")
  /\ e = "INITIALIZE" => pingers < MaxPingers
  /\ thread' = IF e = "INITIALIZE" THEN "reading" ELSE thread
  /\ IF e = "GO_COMMAND" THEN server' = Nil /\ session' = StopServer(session)
                         ELSE UNCHANGED access
  /\ UNCHANGED client

RequestMove(e) ==
  /\ e \in DOMAIN Moves \ FromDriver
  /\ Move(e, "rpc")
  /\ UNCHANGED <<handler, driver, pingers, access>>

(* GO_DIRECT_ACCESS starts a server, then commands the driver.             *)
GoDirectAccess(s) ==
  /\ session[s] = NoSession
  /\ Begin("GO_DIRECT_ACCESS", "rpc")
  /\ server' = s /\ session' = [session EXCEPT ![s] = NewSession]
  /\ UNCHANGED driver

-----------------------------------------------------------------------------
(* What becomes of a handler that commands the driver                      *)

(* The state that a successful handler returns: the driver's, when the     *)
(* driver is asked for it, or the current one for None.                    *)
Returned(e) ==
  CASE e = "INITIALIZE" -> {"INACTIVE"}
    [] e = "GO_INACTIVE" -> {"INACTIVE"}
    [] e = "GO_ACTIVE" /\ state = "INACTIVE" -> {"IDLE", "COMMAND", "STREAMING", "ACTIVE_UNKNOWN"}
    [] e = "GO_ACTIVE" -> {"IDLE", "COMMAND", "STREAMING", state}
    [] e = "AUTORECONNECT" -> {IF lost = "COMMAND" THEN "COMMAND" ELSE "IDLE",
                               "COMMAND", "STREAMING", "ACTIVE_UNKNOWN"}
    [] e = "GO_DIRECT_ACCESS" -> {"DIRECT_ACCESS"}
    [] e = "GO_COMMAND" -> {"COMMAND", "STREAMING"}
    [] e = "RESOURCE" /\ state \in {"COMMAND", "STREAMING", "BUSY"} ->
         {state, "COMMAND", "STREAMING", "BUSY"}
    [] OTHER -> {state}

(* The caller goes on when the handler is over: a server's greenlet reads  *)
(* its client's next data, or ends after GO_COMMAND.                       *)
Resumed(f, by) ==
  IF by \notin Session THEN f
  ELSE [f EXCEPT ![by] = Reap([@ EXCEPT !.tcp = IF handler.event = "GO_COMMAND" THEN "none" ELSE "open"])]

(* The handler returns, or an exception leaves it, and the lock is free.   *)
Finish(next) ==
  /\ handler' = Nil
  /\ Goto(next, handler.by)
  /\ UNCHANGED lost

(* Mutant: the client is kept when its driver stops.                       *)
StopDriverKeepsClient ==
  /\ handler' = [handler EXCEPT !.leg = "join"]
  /\ UNCHANGED <<state, lost, driver, loops, reconnect, pingers, access>>

(* _stop_driver: the client is forgotten, then the driver process stops,   *)
(* which waits for the event thread.                                       *)
StopDriver ==
  /\ handler' = [handler EXCEPT !.leg = "join"]
  /\ client' = FALSE
  /\ UNCHANGED <<state, lost, thread, loops, reconnect, pingers, access>>

Commanding == handler # Nil /\ handler.leg = "command"

(* Every command is answered.                                              *)
Reply ==
  /\ Commanding /\ (client \/ handler.event = "INITIALIZE")
  /\ IF handler.event = "RESET" THEN StopDriver
     ELSE /\ \E next \in Returned(handler.event) : Finish(next)
          /\ pingers' = IF handler.event = "INITIALIZE" THEN pingers + 1 ELSE pingers
          /\ client' = TRUE
          /\ session' = Resumed(session, handler.by)
          /\ UNCHANGED <<thread, server>>

(* InstDriverClientTimeoutError.                                           *)
ReplyTimeout == Commanding /\ (client \/ handler.event = "INITIALIZE") /\ StopDriver

(* Mutant: an exception ends the pinger that pings.                        *)
ReplyRaisesInPinger ==
  /\ Commanding
  /\ handler.event \in Raises \/ ~client
  /\ IF handler.event \in {"RESET", "INITIALIZE"} THEN StopDriver
     ELSE /\ Finish(state)
          /\ pingers' = IF handler.by = "pinger" THEN pingers - 1 ELSE pingers
          /\ session' = Resumed(session, handler.by)
          /\ UNCHANGED <<server, driver>>

(* Another exception: reset and initialize stop the driver, other handlers *)
(* are left with the state as it is; a server whose data failed closes.    *)
ReplyRaises ==
  /\ Commanding
  /\ handler.event \in Raises \/ ~client
  /\ IF handler.event \in {"RESET", "INITIALIZE"} THEN StopDriver
     ELSE /\ Finish(state)
          /\ IF handler.event = "EXECUTE_DIRECT_ACCESS" THEN Closed(handler.by)
             ELSE session' = Resumed(session, handler.by) /\ UNCHANGED server
          /\ UNCHANGED <<pingers, driver>>

(* Mutant: a stop that does not end at once is tried again.                *)
JoinedAgain ==
  /\ handler # Nil /\ handler.leg = "join"
  /\ handler' = [handler EXCEPT !.leg = "command"]
  /\ UNCHANGED <<state, lost, driver, loops, reconnect, pingers, access>>

(* The event thread has ended; the handler returns UNINITIALIZED.  Both    *)
(* direct access handlers stop the server now; GO_DIRECT_ACCESS does so    *)
(* without looking whether there is one.                                   *)
Joined ==
  /\ handler # Nil /\ handler.leg = "join"
  /\ thread \notin FromDriver
  /\ thread' = "none"
  /\ IF handler.event = "GO_DIRECT_ACCESS" /\ server = Nil
     THEN Finish(state) /\ UNCHANGED <<pingers, access>>
     ELSE /\ Finish("UNINITIALIZED")
          /\ pingers' = PingersAfter("UNINITIALIZED", handler.by)
          /\ IF handler.event \in {"GO_DIRECT_ACCESS", "EXECUTE_DIRECT_ACCESS"}
             THEN server' = Nil /\ session' = Resumed(StopServer(session), handler.by)
             ELSE session' = Resumed(session, handler.by) /\ UNCHANGED server
  /\ UNCHANGED client

-----------------------------------------------------------------------------
(* The event thread                                                        *)

(* A driver's agent event: it is handled, is waited with until the lock is *)
(* free, or finds no handler.                                              *)
DriverEvent(e) ==
  /\ e \in FromDriver /\ thread = "reading"
  /\ handler # Nil => handler.leg = "command"
  /\ \/ /\ handler # Nil /\ Overlap /\ thread' = e
        /\ UNCHANGED <<state, lost, loops, reconnect>>
     \/ Move(e, "thread") /\ UNCHANGED thread

DriverEventLate ==
  /\ thread \in FromDriver /\ handler = Nil
  /\ \/ Move(thread, "thread")
     \/ state \notin Handled[thread] /\ UNCHANGED <<state, lost, loops, reconnect>>
  /\ thread' = "reading"
  /\ UNCHANGED <<handler, client, pingers, access>>

-----------------------------------------------------------------------------
(* Reconnect loops and pingers                                             *)

(* A loop has slept and sends AUTORECONNECT.                               *)
Loop ==
  /\ loops > 0
  /\ Begin("AUTORECONNECT", "loop")
  /\ UNCHANGED <<driver, access>>

(* There is no handler for it in any other state.                          *)
LoopEnds ==
  /\ loops > 0 /\ handler = Nil /\ state # "LOST_CONNECTION"
  /\ loops' = IF reconnect THEN loops ELSE loops - 1
  /\ UNCHANGED <<state, lost, handler, driver, reconnect, pingers, access>>

(* on_event_if_free: a pinger does not wait for the lock.                  *)
Ping ==
  /\ pingers > 0
  /\ Begin("RESOURCE", "pinger")
  /\ UNCHANGED <<driver, access>>

PingerEnds ==
  /\ pingers > 0 /\ state = "UNINITIALIZED"
  /\ pingers' = pingers - 1
  /\ UNCHANGED <<state, lost, handler, driver, loops, reconnect, access>>

-----------------------------------------------------------------------------
(* The servers of direct access sessions                                   *)

Starting(s) == handler # Nil /\ handler.event = "GO_DIRECT_ACCESS" /\ server = s

(* _timer_greenlet: the session or its client's silence is too long.       *)
TimerFires(s) ==
  /\ session[s].timer
  /\ SlowStart \/ ~Starting(s)
  /\ session' = [session EXCEPT ![s] = Reap(Stopped(@, "other"))]
  /\ UNCHANGED <<state, lost, handler, driver, loops, reconnect, pingers, server>>

(* The greenlet polls and sees stop_server.                                *)
StopSeen(s) ==
  /\ session[s].tcp = "open" /\ session[s].reason # "none"
  /\ Closed(s)
  /\ UNCHANGED <<state, lost, handler, driver, loops, reconnect, pingers>>

(* The client closes, does not log in, or sends data in a wrong state.     *)
ClientCloses(s) ==
  /\ session[s].tcp = "open" /\ session[s].reason = "none" /\ ~Starting(s)
  /\ Closed(s)
  /\ UNCHANGED <<state, lost, handler, driver, loops, reconnect, pingers>>

(* Data of the client, in direct access: the greenlet waits for the lock.  *)
ClientSends(s) ==
  /\ session[s].tcp = "open" /\ session[s].reason = "none" /\ ~Starting(s)
  /\ state = "DIRECT_ACCESS"
  /\ session' = [session EXCEPT ![s].tcp = "data"]
  /\ UNCHANGED <<state, lost, handler, driver, loops, reconnect, pingers, server>>

(* It has the lock; the state may have changed.                            *)
ExecuteDirect(s) ==
  /\ session[s].tcp = "data" /\ handler = Nil
  /\ \/ /\ Begin("EXECUTE_DIRECT_ACCESS", s)
        /\ session' = [session EXCEPT ![s].tcp = "calling"]
        /\ UNCHANGED server
     \/ /\ state # "DIRECT_ACCESS"
        /\ Closed(s)
        /\ UNCHANGED <<state, lost, handler, loops, reconnect, pingers>>
  /\ UNCHANGED driver

(* The callback's GO_COMMAND; in another state it fails and is swallowed.  *)
CloseCommand(s) ==
  /\ session[s].tcp = "close" /\ handler = Nil
  /\ \/ /\ Begin("GO_COMMAND", s)
        /\ server' = Nil
        /\ session' = StopServer([session EXCEPT ![s].tcp = "calling"])
     \/ /\ state # "DIRECT_ACCESS"
        /\ session' = [session EXCEPT ![s] = Reap([@ EXCEPT !.tcp = "none"])]
        /\ UNCHANGED <<state, lost, handler, loops, reconnect, pingers, server>>
  /\ UNCHANGED driver

-----------------------------------------------------------------------------
HandlerStep == Reply \/ ReplyTimeout \/ ReplyRaises \/ Joined
ThreadStep ==
  /\ (\E e \in FromDriver : DriverEvent(e)) \/ DriverEventLate
  /\ UNCHANGED <<handler, client, pingers, access>>
ServerStep(s) == StopSeen(s) \/ ExecuteDirect(s) \/ CloseCommand(s)

Next ==
  \/ \E e \in Event : Request(e) \/ RequestMove(e)
  \/ \E s \in Session : GoDirectAccess(s) \/ ClientCloses(s) \/ ClientSends(s)
  \/ \E s \in Session : TimerFires(s) \/ ServerStep(s)
  \/ HandlerStep \/ ThreadStep
  \/ Loop \/ LoopEnds \/ Ping \/ PingerEnds

Spec == Init /\ [][Next]_vars

(* A greenlet that is ready runs, cmd_dvr ends with a time-out when the    *)
(* driver is silent, timers fire, and who waits for the lock gets it: its  *)
(* holder lets go of it again and again.                                   *)
Fairness ==
  /\ WF_vars(Reply \/ ReplyTimeout \/ ReplyRaises) /\ WF_vars(Joined)
  /\ SF_vars(DriverEventLate) /\ SF_vars(Loop) /\ WF_vars(LoopEnds) /\ WF_vars(PingerEnds)
  /\ \A s \in Session : /\ WF_vars(TimerFires(s)) /\ WF_vars(StopSeen(s))
                        /\ SF_vars(ExecuteDirect(s)) /\ SF_vars(CloseCommand(s))

(* The environment: the driver can connect and find its state in the end.  *)
Reconnected == Reply /\ handler.event = "AUTORECONNECT" /\ state' # "LOST_CONNECTION"

FairSpec == Spec /\ Fairness
RecoveryFairness == Fairness /\ SF_vars(Reconnected)
RecoverySpec == Spec /\ RecoveryFairness

-----------------------------------------------------------------------------
(* A handler holds the lock in a state that handles its event, and the     *)
(* greenlet that waits for it is alive.                                    *)
LockInv ==
  handler # Nil =>
    /\ state \in Handled[handler.event]
    /\ handler.by = "loop" => handler.event = "AUTORECONNECT" /\ loops > 0
    /\ handler.by = "pinger" => handler.event = "RESOURCE" /\ pingers > 0

(* The reconnect attribute is for the LOST_CONNECTION state only.          *)
ReconnectInv == reconnect <=> state = "LOST_CONNECTION"

(* Between handlers the agent has a driver client, and an event thread,    *)
(* exactly when it is initialized; and only a handler with a client, or    *)
(* the one that makes it, commands a driver.  (If no server ends while     *)
(* start_direct is under way.)                                             *)
DriverMatchesState ==
  /\ handler = Nil => (client <=> state # "UNINITIALIZED") /\ (client <=> thread # "none")
  /\ Commanding => client \/ handler.event = "INITIALIZE"

(* While the connection is lost, a loop tries to get it back.              *)
ReconnectorAlive == state = "LOST_CONNECTION" => reconnect /\ loops > 0

(* While there is a driver, something pings it, so that a dead driver is   *)
(* noticed.                                                                *)
PingerAlive == state # "UNINITIALIZED" => pingers > 0

(* In direct access there is a server whose end will be noticed, or one    *)
(* whose greenlet is about to leave direct access.                         *)
DirectAccessIsServed ==
  state = "DIRECT_ACCESS" =>
    \/ server # Nil /\ session[server].tcp # "none"
    \/ \E s \in Session : session[s].tcp = "close"
    \/ handler # Nil /\ (handler.event = "GO_COMMAND" \/ handler.leg = "join")

(* stop_messaging does "Await event thread completion and return."         *)
StopReturns == handler # Nil /\ handler.leg = "join" ~> handler = Nil

(* Every direct access server comes to its end, and with it its client's   *)
(* hold of the port.                                                       *)
SessionsEnd == \A s \in Session : session[s].tcp # "none" ~> session[s].tcp = "none"

(* Once the instrument can be reached again, a lost connection is          *)
(* re-established, however often single attempts fail.                     *)
ConnectionRecovers == state = "LOST_CONNECTION" ~> state # "LOST_CONNECTION"
=============================================================================
