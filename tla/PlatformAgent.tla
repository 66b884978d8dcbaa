---------------------------- MODULE PlatformAgent ----------------------------
(***************************************************************************)
(* The platform agent (ion/agents/platform/platform_agent.py) and its      *)
(* driver (platform_driver.py, rsn/rsn_platform_driver.py).                *)
(*                                                                         *)
(* Agent and driver are two state machines, each behind a lock of its own. *)
(* A command holds the agent's lock and takes the driver's inside it.  A   *)
(* resource monitor that reads attributes takes the driver's lock first;   *)
(* when it finds the connection lost it sends LOST_CONNECTION to the agent *)
(* with that lock held.  The children's part of a command is one leg here, *)
(* with the three ways it can end; PlatformChildren has what is in it.     *)
(***************************************************************************)
EXTENDS Naturals, FiniteSets

CONSTANTS
  Monitor,          \* bound: resource monitor greenlets that are alive together
  MaxLoops,         \* bound: reconnect loops that are alive together
  Nil               \* Python's None

LoopsAssumption == MaxLoops \in Nat
MonitorAssumption == IsFiniteSet(Monitor) /\ Nil \notin Monitor /\ "handler" \notin Monitor

(* NONE: the process has not been started.                                 *)
State == {"NONE", "LAUNCHING", "UNINITIALIZED", "INACTIVE", "IDLE", "STOPPED", "COMMAND",
          "MONITORING", "LOST_CONNECTION"}

(* The states that have a handler for an event.  RESOURCE stands for       *)
(* GET_RESOURCE, SET_RESOURCE, EXECUTE_RESOURCE and PING_RESOURCE, of      *)
(* which the last is handled in three states more.                         *)
Handled == [
  INITIALIZE       |-> {"UNINITIALIZED"},
  GO_ACTIVE        |-> {"INACTIVE"},
  GO_INACTIVE      |-> {"IDLE", "STOPPED", "COMMAND", "LOST_CONNECTION"},
  RUN              |-> {"IDLE"},
  RESET            |-> State \ {"NONE", "LAUNCHING", "UNINITIALIZED"},
  SHUTDOWN         |-> State \ {"NONE", "LAUNCHING", "LOST_CONNECTION"},
  PAUSE            |-> {"COMMAND"},
  RESUME           |-> {"STOPPED"},
  CLEAR            |-> {"STOPPED", "COMMAND"},
  START_MONITORING |-> {"COMMAND"},
  STOP_MONITORING  |-> {"MONITORING"},
  RESOURCE         |-> {"INACTIVE", "IDLE", "STOPPED", "COMMAND", "MONITORING"},
  AUTORECONNECT    |-> {"LOST_CONNECTION"},
  LOST_CONNECTION  |-> {"IDLE", "STOPPED", "COMMAND", "MONITORING"}]

(* Where a command leads when it succeeds.                                 *)
Target == [
  INITIALIZE |-> "INACTIVE", GO_ACTIVE |-> "IDLE", GO_INACTIVE |-> "INACTIVE", RUN |-> "COMMAND",
  RESET |-> "UNINITIALIZED", SHUTDOWN |-> "UNINITIALIZED", PAUSE |-> "STOPPED",
  RESUME |-> "COMMAND", CLEAR |-> "IDLE", START_MONITORING |-> "MONITORING",
  STOP_MONITORING |-> "COMMAND"]

Command == DOMAIN Target
TopDown == {"INITIALIZE", "GO_ACTIVE", "RUN"}                \* children last, errors ignored
BottomUp == {"GO_INACTIVE", "RESET", "SHUTDOWN", "PAUSE", "RESUME", "CLEAR"}
Streaming == {"START_MONITORING", "STOP_MONITORING"}         \* children first, errors ignored

VARIABLES
  state,      \* the agent's state
  lost,       \* _state_when_lost
  handler,    \* the handler that holds the agent's lock, or Nil
  drv,        \* the driver and its state, "none" when _plat_driver is None
  drvLock,    \* who holds the driver's lock: "handler", a monitor, or Nil
  prm,        \* _platform_resource_monitor is not None
  mon,        \* what each monitor greenlet does
  active,     \* _active of each monitor
  loops,      \* _autoreconnect greenlets
  reconnect,  \* _autoreconnect_greenlet is not None
  oms         \* whether the platform's OMS answers

monitors == <<prm, mon, active>>
looping == <<loops, reconnect>>
driver == <<drv, drvLock>>
vars == <<state, lost, handler, driver, monitors, looping, oms>>

(* rec: the recursion argument; leg: what the handler waits for: its       *)
(* children, CLEAR of a shutdown, the children's streams before a reset,   *)
(* the driver's lock, or a call of the driver; tries: turns of the loop in *)
(* _bring_to_uninitialized_state.                                          *)
Handler == [event : Command \cup {"RESOURCE", "AUTORECONNECT"}, rec : BOOLEAN, tries : 0..4,
            leg : {"children", "clear", "streams", "driver", "call"}]
MaxTries == 4
NilAssumption == Nil \notin Handler

TypeOK ==
  /\ state \in State /\ lost \in State
  /\ handler \in Handler \cup {Nil}
  /\ drv \in {"none", "UNCONFIGURED", "DISCONNECTED", "CONNECTED"}
  /\ drvLock \in Monitor \cup {"handler", Nil}
  /\ prm \in BOOLEAN /\ active \in [Monitor -> BOOLEAN]
  /\ mon \in [Monitor -> {"none", "sleep", "driver", "call", "agent"}]
  /\ loops \in Nat /\ reconnect \in BOOLEAN /\ oms \in BOOLEAN

Init ==
  /\ state = "NONE" /\ lost = "NONE" /\ handler = Nil
  /\ drv = "none" /\ drvLock = Nil
  /\ prm = FALSE /\ mon = [m \in Monitor |-> "none"] /\ active = [m \in Monitor |-> FALSE]
  /\ loops = 0 /\ reconnect = FALSE /\ oms = TRUE

-----------------------------------------------------------------------------
(* The state machine                                                       *)

(* A transition, with the exit and enter handlers of LOST_CONNECTION.      *)
Goto(next) ==
  /\ state' = next
  /\ reconnect' = (next = "LOST_CONNECTION" /\ (state # next \/ reconnect))
  /\ loops' = IF next = "LOST_CONNECTION" /\ state # next THEN loops + 1 ELSE loops

(* on_start, and the event that ends the launch of the children.           *)
Start == state = "NONE" /\ state' = "LAUNCHING" /\ UNCHANGED <<lost, handler, driver, monitors, looping, oms>>
LaunchComplete ==
  /\ state = "LAUNCHING" /\ handler = Nil /\ state' = "UNINITIALIZED"
  /\ UNCHANGED <<lost, handler, driver, monitors, looping, oms>>

(* PlatformResourceMonitor.start_resource_monitoring; there may be no      *)
(* attribute to monitor.  A greenlet of an earlier monitor may still end.  *)
StartMonitors ==
  /\ prm' = TRUE
  /\ \E M \in SUBSET {m \in Monitor : mon[m] = "none"} :
       /\ mon' = [m \in Monitor |-> IF m \in M THEN "sleep" ELSE mon[m]]
       /\ active' = [m \in Monitor |-> m \in M]

(* PlatformResourceMonitor.destroy                                         *)
StopMonitors == prm' = FALSE /\ active' = [m \in Monitor |-> FALSE] /\ UNCHANGED mon

(* Mutant: the platform is left to monitor while the connection is lost.   *)
LoseConnectionOnly ==
  IF state \in Handled.LOST_CONNECTION
  THEN /\ lost' = state
       /\ Goto("LOST_CONNECTION")
       /\ UNCHANGED monitors
  ELSE UNCHANGED <<state, lost, monitors, looping>>

(* The agent's part of a lost connection, for whoever has the agent's lock *)
(* or is in a state that has no handler, in which case nothing happens.    *)
LoseConnection ==
  IF state \in Handled.LOST_CONNECTION
  THEN /\ lost' = state
       /\ Goto("LOST_CONNECTION")
       /\ IF prm THEN StopMonitors ELSE UNCHANGED monitors
  ELSE UNCHANGED <<state, lost, monitors, looping>>

(* A handler that raises, or has errors of children to report: the state   *)
(* stays.                                                                  *)
Abort == handler' = Nil /\ UNCHANGED <<state, looping>>
Finish(h, next) == handler' = Nil /\ Goto(next)
Wait(h, leg) == handler' = [h EXCEPT !.leg = leg] /\ UNCHANGED <<state, looping>>

-----------------------------------------------------------------------------
(* Commands                                                                *)

(* What is left of a reset once nothing is monitored.                      *)
DisconnectOrDestroy(h) ==
  IF drv = "CONNECTED" THEN Wait(h, "driver") /\ UNCHANGED driver
  ELSE Finish(h, "UNINITIALIZED") /\ drv' = "none" /\ UNCHANGED drvLock

ResetThisPlatform(h) ==
  /\ UNCHANGED monitors
  /\ IF prm THEN Wait(h, "streams") /\ UNCHANGED driver ELSE DisconnectOrDestroy(h)

BringToUninitialized(h) ==
  CASE state = "UNINITIALIZED" -> Finish(h, "UNINITIALIZED") /\ UNCHANGED <<driver, monitors>>
    [] state = "STOPPED" -> Wait(h, "clear") /\ UNCHANGED <<driver, monitors>>
    [] OTHER -> ResetThisPlatform(h)

(* This platform's part of a command whose children come first.            *)
ThisPlatform(h) ==
  CASE h.event = "GO_INACTIVE" -> Wait(h, "driver") /\ UNCHANGED <<driver, monitors>>
    [] h.event = "RESET" -> ResetThisPlatform(h)
    [] h.event = "SHUTDOWN" -> BringToUninitialized(h)
    [] h.event = "START_MONITORING" -> Finish(h, "MONITORING") /\ StartMonitors /\ UNCHANGED driver
    [] h.event = "STOP_MONITORING" -> Finish(h, "COMMAND") /\ UNCHANGED driver
                                      /\ IF prm THEN StopMonitors ELSE UNCHANGED monitors
    [] h.event = "AUTORECONNECT" -> Finish(h, lost) /\ StartMonitors /\ UNCHANGED driver
    [] OTHER -> Finish(h, Target[h.event]) /\ UNCHANGED <<driver, monitors>>

(* A command arrives; the driver is created by INITIALIZE in one slice.    *)
Request(e, rec) ==
  LET h == [event |-> e, rec |-> rec, tries |-> 0, leg |-> "children"] IN
  /\ handler = Nil /\ state \in Handled[e]
  /\ UNCHANGED <<lost, oms>>
  /\ CASE e = "INITIALIZE" ->
            /\ drv' = "DISCONNECTED" /\ UNCHANGED <<drvLock, monitors>>
            /\ IF rec THEN Wait(h, "children") ELSE Finish(h, "INACTIVE")
       [] e \in {"GO_ACTIVE", "RESOURCE"} -> Wait(h, "driver") /\ UNCHANGED <<driver, monitors>>
       [] OTHER -> IF rec THEN Wait(h, "children") /\ UNCHANGED <<driver, monitors>>
                   ELSE ThisPlatform(h)

(* The driver cannot be created (it stays what it was) or configured.      *)
InitializeFails ==
  /\ handler = Nil /\ state = "UNINITIALIZED"
  /\ drv' \in {drv, "UNCONFIGURED"}
  /\ UNCHANGED <<state, lost, handler, drvLock, monitors, looping, oms>>

(* The children have been sent the command: all is well, some have errors, *)
(* or the loop over them raises, as when a child does not tell its state.  *)
ChildrenReply(outcome) ==
  /\ handler # Nil /\ handler.leg = "children"
  /\ UNCHANGED <<lost, oms>>
  /\ CASE handler.event \in TopDown ->
            Finish(handler, Target[handler.event]) /\ UNCHANGED <<driver, monitors>>
       [] handler.event \notin TopDown /\ outcome = "raise" -> Abort /\ UNCHANGED <<driver, monitors>>
       [] handler.event \in BottomUp /\ outcome = "errors" -> Abort /\ UNCHANGED <<driver, monitors>>
       [] OTHER -> ThisPlatform(handler)

(* The streams of the children before a reset of a monitoring platform.    *)
StreamsReply(outcome) ==
  /\ handler # Nil /\ handler.leg = "streams"
  /\ UNCHANGED <<lost, oms>>
  /\ IF outcome = "raise" THEN Abort /\ UNCHANGED <<driver, monitors>>
     ELSE StopMonitors /\ DisconnectOrDestroy(handler)

(* Mutant: the turns of a shutdown's loop are not limited.                 *)
ClearReplyForever(outcome) ==
  /\ handler # Nil /\ handler.leg = "clear"
  /\ UNCHANGED <<lost, oms>>
  /\ CASE outcome = "raise" -> Abort /\ UNCHANGED <<driver, monitors>>
       [] outcome = "ok" -> ResetThisPlatform(handler)
       [] outcome = "errors" -> Wait([handler EXCEPT !.tries = @ + 1], "clear") /\ UNCHANGED <<driver, monitors>>

(* CLEAR inside a shutdown, sent with recursion whatever the shutdown's    *)
(* own argument.  Success is a transition to IDLE, and the loop goes on    *)
(* with a reset unless its turns are over; then the shutdown succeeds      *)
(* without one.                                                            *)
ClearReply(outcome) ==
  LET h == [handler EXCEPT !.tries = @ + 1] IN
  /\ handler # Nil /\ handler.leg = "clear"
  /\ UNCHANGED <<lost, oms>>
  /\ CASE outcome = "raise" -> Abort /\ UNCHANGED <<driver, monitors>>
       [] outcome # "raise" /\ h.tries = MaxTries ->
            Finish(h, "UNINITIALIZED") /\ UNCHANGED <<driver, monitors>>
       [] outcome = "ok" /\ h.tries < MaxTries -> ResetThisPlatform(h)
       [] outcome = "errors" /\ h.tries < MaxTries -> Wait(h, "clear") /\ UNCHANGED <<driver, monitors>>

-----------------------------------------------------------------------------
(* The driver                                                              *)

DriverAcquire ==
  /\ handler # Nil /\ handler.leg = "driver" /\ drvLock = Nil
  /\ drvLock' = "handler" /\ Wait(handler, "call")
  /\ UNCHANGED <<lost, drv, monitors, oms>>

InCall(E) == handler # Nil /\ handler.leg = "call" /\ handler.event \in E /\ drvLock' = Nil /\ UNCHANGED oms

(* Mutant: GO_ACTIVE does not notice that CONNECT failed.                  *)
DriverRaisesUnnoticed ==
  /\ InCall({"GO_ACTIVE", "AUTORECONNECT", "GO_INACTIVE", "RESOURCE"})
  /\ handler.event \in {"GO_ACTIVE", "AUTORECONNECT"} => drv # "DISCONNECTED" \/ ~oms
  /\ handler.event = "GO_INACTIVE" => drv = "UNCONFIGURED" \/ (drv = "CONNECTED" /\ handler.rec)
  /\ (IF handler.event = "GO_ACTIVE" THEN Finish(handler, "IDLE") ELSE Abort)
  /\ UNCHANGED <<lost, drv, monitors>>

(* The driver's machine has no handler in its state, or its handler raises *)
(* something that is not a lost connection: a CONNECT that fails, a        *)
(* DISCONNECT with recursion that cannot turn a port off, any exception of *)
(* a RESOURCE command.  A reset's DISCONNECT has no recursion.             *)
DriverRaises ==
  /\ InCall({"GO_ACTIVE", "AUTORECONNECT", "GO_INACTIVE", "RESOURCE"})
  /\ handler.event \in {"GO_ACTIVE", "AUTORECONNECT"} => drv # "DISCONNECTED" \/ ~oms
  /\ handler.event = "GO_INACTIVE" => drv = "UNCONFIGURED" \/ (drv = "CONNECTED" /\ handler.rec)
  /\ Abort /\ UNCHANGED <<lost, drv, monitors>>

Connected ==
  /\ InCall({"GO_ACTIVE", "AUTORECONNECT"}) /\ drv = "DISCONNECTED" /\ oms
  /\ drv' = "CONNECTED"
  /\ UNCHANGED <<lost, monitors>>
  /\ CASE handler.event = "GO_ACTIVE" /\ handler.rec -> Wait(handler, "children")
       [] handler.event = "AUTORECONNECT" /\ lost = "MONITORING" -> Wait(handler, "children")
       [] handler.event = "AUTORECONNECT" /\ lost # "MONITORING" -> Finish(handler, lost)
       [] OTHER -> Finish(handler, "IDLE")

(* DISCONNECT does nothing when disconnected; a reset destroys the driver. *)
Disconnected ==
  /\ InCall({"GO_INACTIVE", "RESET", "SHUTDOWN"}) /\ drv \in {"DISCONNECTED", "CONNECTED"}
  /\ drv' = IF handler.event = "GO_INACTIVE" THEN "DISCONNECTED" ELSE "none"
  /\ Finish(handler, Target[handler.event])
  /\ UNCHANGED <<lost, monitors>>

ResourceDone ==
  /\ InCall({"RESOURCE"}) /\ drv = "CONNECTED" /\ oms
  /\ Abort /\ UNCHANGED <<lost, drv, monitors>>

(* A command finds the connection lost: its greenlet has the agent's lock  *)
(* already, and LOST_CONNECTION is handled inside the command.             *)
ResourceLoses ==
  /\ InCall({"RESOURCE"}) /\ drv = "CONNECTED" /\ ~oms
  /\ drv' = "DISCONNECTED" /\ handler' = Nil /\ LoseConnection

-----------------------------------------------------------------------------
(* Resource monitors                                                       *)

(* The period is over: the greenlet ends, or asks for the attributes.      *)
MonitorWakes(m) ==
  /\ mon[m] = "sleep"
  /\ mon' = [mon EXCEPT ![m] = IF active[m] THEN "driver" ELSE "none"]
  /\ UNCHANGED <<state, lost, handler, driver, prm, active, looping, oms>>

MonitorAcquire(m) ==
  /\ mon[m] = "driver" /\ drvLock = Nil
  /\ drvLock' = m /\ mon' = [mon EXCEPT ![m] = "call"]
  /\ UNCHANGED <<state, lost, handler, drv, prm, active, looping, oms>>

(* Values, or an exception that the monitor logs.  With _plat_driver None  *)
(* there is none to ask and the call raises as well.                       *)
MonitorReads(m) ==
  /\ mon[m] = "call" /\ (oms \/ drv # "CONNECTED")
  /\ drvLock' = Nil /\ mon' = [mon EXCEPT ![m] = "sleep"]
  /\ UNCHANGED <<state, lost, handler, drv, prm, active, looping, oms>>

(* _connection_lost: the driver disconnects and calls the agent.           *)
MonitorLoses(m) ==
  /\ mon[m] = "call" /\ ~oms /\ drv = "CONNECTED"
  /\ mon' = [mon EXCEPT ![m] = "agent"]
  /\ UNCHANGED <<state, lost, handler, driver, prm, active, looping, oms>>

(* The agent's lock is free: LOST_CONNECTION is handled, or refused, and   *)
(* the driver's machine goes to DISCONNECTED.                              *)
MonitorTells(m) ==
  /\ mon[m] = "agent" /\ handler = Nil
  /\ drv' = "DISCONNECTED" /\ drvLock' = Nil
  /\ mon' = [mon EXCEPT ![m] = "sleep"]
  /\ IF state \in Handled.LOST_CONNECTION
     THEN /\ lost' = state /\ Goto("LOST_CONNECTION")
          /\ IF prm THEN prm' = FALSE /\ active' = [k \in Monitor |-> FALSE] ELSE UNCHANGED <<prm, active>>
     ELSE UNCHANGED <<state, lost, prm, active, looping>>
  /\ UNCHANGED <<handler, oms>>

-----------------------------------------------------------------------------
(* Reconnection                                                            *)

(* A loop that sees no greenlet in the attribute ends.                     *)
LoopEnds ==
  /\ loops > 0 /\ ~reconnect /\ loops' = loops - 1
  /\ UNCHANGED <<state, lost, handler, driver, monitors, reconnect, oms>>

(* AUTORECONNECT has no argument, so its recursion is the default.         *)
Autoreconnect ==
  /\ loops > 0 /\ reconnect /\ handler = Nil /\ state \in Handled.AUTORECONNECT
  /\ handler' = [event |-> "AUTORECONNECT", rec |-> TRUE, tries |-> 0, leg |-> "driver"]
  /\ UNCHANGED <<state, lost, driver, monitors, looping, oms>>

OmsStops == oms /\ oms' = FALSE /\ UNCHANGED <<state, lost, handler, driver, monitors, looping>>
OmsWorks == ~oms /\ oms' = TRUE /\ UNCHANGED <<state, lost, handler, driver, monitors, looping>>

Loops == loops' <= MaxLoops                       \* MaxLoops is a bound of the model
Next ==
  \/ Start \/ LaunchComplete \/ InitializeFails
  \/ \E e \in Command \cup {"RESOURCE"}, rec \in BOOLEAN : (e = "RESOURCE" => rec) /\ Request(e, rec)
  \/ \E o \in {"ok", "errors", "raise"} : ChildrenReply(o) \/ StreamsReply(o) \/ ClearReply(o)
  \/ DriverAcquire \/ DriverRaises \/ Connected \/ Disconnected \/ ResourceDone
  \/ (ResourceLoses /\ Loops)
  \/ \E m \in Monitor : \/ MonitorWakes(m) \/ MonitorAcquire(m) \/ MonitorReads(m)
                        \/ MonitorLoses(m) \/ (MonitorTells(m) /\ Loops)
  \/ LoopEnds \/ Autoreconnect \/ OmsStops \/ OmsWorks

Spec == Init /\ [][Next]_vars

(* Greenlets that can run do run and calls return.  Nothing is assumed of  *)
(* commands or of the OMS.                                                 *)
Fairness ==
  /\ WF_vars(\E o \in {"ok", "errors", "raise"} : ChildrenReply(o) \/ StreamsReply(o) \/ ClearReply(o))
  /\ WF_vars(DriverAcquire)
  /\ WF_vars(DriverRaises \/ Connected \/ Disconnected \/ ResourceDone \/ (ResourceLoses /\ Loops))
  /\ \A m \in Monitor : /\ WF_vars(MonitorWakes(m)) /\ SF_vars(MonitorAcquire(m))
                        /\ WF_vars(MonitorReads(m) \/ MonitorLoses(m))
                        /\ SF_vars(MonitorTells(m) /\ Loops)
  /\ WF_vars(LoopEnds) /\ SF_vars(Autoreconnect)
FairSpec == Spec /\ Fairness

-----------------------------------------------------------------------------
(* Properties                                                              *)

(* Between commands a platform has resource monitors exactly while it is   *)
(* MONITORING, whichever path it took there or away, and a monitor that is *)
(* to go on belongs to the current object: start and stop, reset and       *)
(* shutdown, a connection lost inside a command or by a monitor, and the   *)
(* reconnection agree on it.                                               *)
MonitorsMatchState ==
  /\ handler = Nil => (prm <=> state = "MONITORING")
  /\ \A m \in Monitor : active[m] => prm

(* An operational platform has a connected driver, whichever commands and  *)
(* reconnections, each with a failure of its own, and lost connections     *)
(* brought it where it is.                                                 *)
DriverMatchesState ==
  handler = Nil /\ state \in {"IDLE", "STOPPED", "COMMAND", "MONITORING"} => drv = "CONNECTED"

(* The reconnect logic of the agent is to recover the connection once the  *)
(* OMS works normally, and to go back to the state at connection lost.     *)
Recovers == <>[]oms => []<>(state # "LOST_CONNECTION")
=============================================================================
