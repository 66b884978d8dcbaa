-------------------------------- MODULE Alerts --------------------------------
(***************************************************************************)
(* The alerts of an agent (ion/agents/agent_alert_manager.py and           *)
(* ion/agents/alerts/alerts.py).                                           *)
(*                                                                         *)
(* Driver events and commands call process_alerts from greenlets of their  *)
(* own: each alert is evaluated, one that changes publishes an event, and  *)
(* then the aggregate statuses are brought up to date, with an event for   *)
(* each that changes.  Every publication lets the other greenlets in, and  *)
(* the greenlets of the LateDataAlerts, which look for data by themselves. *)
(***************************************************************************)
EXTENDS Integers, Sequences

CONSTANTS
  Alert,        \* alert objects, each constructed once
  Def,          \* what each is: its class, its type, its aggregate type and its states
  Types,        \* the aggregate types, a sequence in the order of _str_map
  Batch,        \* lists of alerts that aparam_set_alerts is given, by a name
  Greenlet,     \* callers of process_alerts; commands come in "rpc"
  MaxLists,     \* bound: lists there have been
  MaxFailures,  \* bound: publications that raise
  Nil

State == {"COMMAND", "STREAMING", "LOST_CONNECTION"}
Value == {"inside", "outside", "zero"}   \* zero: a value that is 0, whatever the range
Command == {"failed", "other failed"}    \* the alerts' command, or another one
Type == {Types[i] : i \in DOMAIN Types}

AlertAssumption ==
  /\ Def \in [Alert -> [class : {"IntervalAlert", "LateDataAlert", "StateAlert", "CommandErrorAlert"},
                        type : {"WARNING", "ALARM"}, aggregate : Type \cup {Nil},
                        alert : SUBSET State, clear : SUBSET State]]
  /\ (\A b \in DOMAIN Batch : Batch[b] \in Seq(Alert)) /\ "rpc" \in Greenlet
BoundAssumption == MaxLists \in Nat /\ MaxFailures \in Nat

VARIABLES
  state,     \* of the agent's state machine
  lists,     \* the lists that aparam_alerts has been; the last is the current one
  status,    \* _status of each alert: None, TRUE or FALSE in the code
  agg,       \* aparam_aggstatus
  late,      \* _check_data of a LateDataAlert: none, sleep, publish
  fresh,     \* _current_value is not what _check_data read before it slept
  at,        \* where each greenlet is
  failures,
  current    \* history: aggregates were computed since a status or the list changed

vars == <<state, lists, status, agg, late, fresh, at, failures, current>>

Alerts == lists[Len(lists)]
At == [pc : {"idle", "publish", "told", "stop"}, msg : State \cup Value \cup Command \cup DOMAIN Batch \cup {"quit"},
       list : 1..MaxLists, pos : Nat, updated : [Type -> {"OK", "WARNING", "CRITICAL"}]]

TypeOK ==
  /\ state \in State \cup {"quit"} /\ lists \in Seq(Seq(Alert)) /\ failures \in 0..MaxFailures
  /\ status \in [Alert -> {"unknown", "clear", "tripped"}]
  /\ agg \in [Type -> {"UNKNOWN", "OK", "WARNING", "CRITICAL"}]
  /\ late \in [Alert -> {"none", "sleep", "publish"}] /\ fresh \in [Alert -> BOOLEAN]
  /\ at \in [Greenlet -> At] /\ current \in BOOLEAN

Idle == [pc |-> "idle", msg |-> "quit", list |-> 1, pos |-> 1, updated |-> [t \in Type |-> "OK"]]

Init ==
  /\ state = "COMMAND" /\ lists = <<<<>>>> /\ failures = 0 /\ current = FALSE
  /\ status = [a \in Alert |-> "unknown"] /\ agg = [t \in Type |-> "UNKNOWN"]
  /\ late = [a \in Alert |-> "none"] /\ fresh = [a \in Alert |-> FALSE]
  /\ at = [g \in Greenlet |-> Idle]

-----------------------------------------------------------------------------
(* process_alerts                                                          *)

(* eval_alert.  A value of 0 is no value to an IntervalAlert.              *)
Evaluated(a, m) ==
  LET d == Def[a]
      old == status[a]
      Be(b) == IF b THEN "clear" ELSE "tripped"
  IN CASE d.class = "IntervalAlert" /\ m \in {"inside", "outside"} -> Be(m = "inside")
       [] d.class = "LateDataAlert" /\ m \in Value -> "clear"
       [] d.class = "StateAlert" /\ m \in State ->
            IF old = "tripped" THEN Be(m \in d.clear) ELSE Be(m \notin d.alert)
       [] d.class = "CommandErrorAlert" /\ m = "failed" -> "tripped"
       [] d.class = "CommandErrorAlert" /\ m = "other failed" /\ old = "unknown" -> "clear"
       [] d.class = "CommandErrorAlert" /\ m \in State -> Be(old # "tripped" \/ m \in d.clear)
       [] OTHER -> old

(* Mutant: the last alert that is tripped decides.                         *)
WorstIsLast(t) ==
  LET Worse(old, a) == IF Def[a].aggregate # t \/ status[a] # "tripped" THEN old
                       ELSE IF Def[a].type = "ALARM" THEN "CRITICAL" ELSE "WARNING"
      worst[n \in 0..Len(Alerts)] == IF n = 0 THEN "OK" ELSE Worse(worst[n - 1], Alerts[n])
  IN worst[Len(Alerts)]

(* updated_status: what the statuses of the alerts make, one by one.       *)
Worst(t) ==
  LET Worse(old, a) == IF Def[a].aggregate # t \/ status[a] # "tripped" THEN old
                       ELSE IF Def[a].type = "ALARM" \/ old = "CRITICAL" THEN "CRITICAL" ELSE "WARNING"
      worst[n \in 0..Len(Alerts)] == IF n = 0 THEN "OK" ELSE Worse(worst[n - 1], Alerts[n])
  IN worst[Len(Alerts)]

(* _process_aggregate_alerts: from one publication to the next.  What is   *)
(* compared was computed before the first.                                 *)
UpdateFrom(g, updated, first) ==
  LET differ == {i \in first..Len(Types) : updated[Types[i]] # agg[Types[i]]}
      next == CHOOSE i \in differ : \A j \in differ : i <= j
  IN IF differ = {} THEN at' = [at EXCEPT ![g] = Idle] /\ UNCHANGED agg
     ELSE /\ agg' = [agg EXCEPT ![Types[next]] = updated[Types[next]]]
          /\ at' = [at EXCEPT ![g] = [Idle EXCEPT !.pc = "told", !.pos = next + 1, !.updated = updated]]

(* The alerts of a list from a place on, up to the first that changes and  *)
(* publishes; when none is left the aggregates follow at once.             *)
EvalFrom(g, m, list, first) ==
  LET l == lists[list]
      changed == {i \in first..Len(l) : Evaluated(l[i], m) # status[l[i]]}
      next == CHOOSE i \in changed : \A j \in changed : i <= j
      last == IF changed = {} THEN Len(l) ELSE next
  IN /\ fresh' = [a \in Alert |-> fresh[a] \/ /\ Def[a].class = "LateDataAlert" /\ m \in Value
                                              /\ \E i \in first..last : l[i] = a]
     /\ IF changed = {}
        THEN UpdateFrom(g, [t \in Type |-> Worst(t)], 1) /\ current' = TRUE /\ UNCHANGED status
        ELSE /\ status' = [status EXCEPT ![l[next]] = Evaluated(l[next], m)] /\ current' = FALSE /\ UNCHANGED agg
             /\ at' = [at EXCEPT ![g] = [Idle EXCEPT !.pc = "publish", !.msg = m, !.list = list, !.pos = next]]

(* A sample, a failed command, or a state that is entered: the list that   *)
(* is current now is gone through.                                         *)
ProcessAlerts(g, m) ==
  /\ at[g].pc = "idle" /\ state # "quit" /\ EvalFrom(g, m, Len(lists), 1)
  /\ state' = IF m \in State THEN m ELSE state
  /\ UNCHANGED <<lists, late, failures>>

Published(g) ==
  /\ at[g].pc = "publish" /\ EvalFrom(g, at[g].msg, at[g].list, at[g].pos + 1)
  /\ UNCHANGED <<state, lists, late, failures>>
PublicationRaises(g) ==
  /\ at[g].pc = "publish" /\ failures < MaxFailures /\ failures' = failures + 1
  /\ at' = [at EXCEPT ![g] = Idle] /\ UNCHANGED <<state, lists, status, agg, late, fresh, current>>

AggStatusTold(g) ==
  /\ at[g].pc = "told" /\ UpdateFrom(g, at[g].updated, at[g].pos)
  /\ UNCHANGED <<state, lists, status, late, fresh, failures, current>>

-----------------------------------------------------------------------------
(* LateDataAlert._check_data                                               *)

(* Mutant: != for ==                                                       *)
SilentIfFresh(a) == state = "STREAMING" /\ fresh[a] /\ status[a] = "clear"

(* No data since the greenlet last looked.                                 *)
Silent(a) == state = "STREAMING" /\ ~fresh[a] /\ status[a] = "clear"

CheckData(a) ==
  /\ late[a] = "sleep"
  /\ IF Silent(a)
     THEN /\ status' = [status EXCEPT ![a] = "tripped"] /\ late' = [late EXCEPT ![a] = "publish"]
          /\ current' = FALSE /\ UNCHANGED fresh
     ELSE fresh' = [fresh EXCEPT ![a] = FALSE] /\ UNCHANGED <<status, late, current>>
  /\ UNCHANGED <<state, lists, agg, at, failures>>

(* A publication that raises ends the greenlet.                            *)
LatePublished(a) ==
  /\ late[a] = "publish" /\ fresh' = [fresh EXCEPT ![a] = FALSE]
  /\ \/ late' = [late EXCEPT ![a] = "sleep"] /\ UNCHANGED failures
     \/ failures < MaxFailures /\ failures' = failures + 1 /\ late' = [late EXCEPT ![a] = "none"]
  /\ UNCHANGED <<state, lists, status, agg, at, current>>

-----------------------------------------------------------------------------
(* aparam_set_alerts and stop_all, in the greenlet of the commands         *)

Constructed(l) == {a \in Alert : \E i \in DOMAIN l : l[i] = a}
Used == UNION {Constructed(lists[i]) : i \in DOMAIN lists}
Spawned(l) == [a \in Alert |-> IF a \in Constructed(l) /\ Def[a].class = "LateDataAlert" THEN "sleep" ELSE late[a]]

(* set, clear, and quit: the greenlets of the alerts there are are killed  *)
(* one after the other.                                                    *)
StopAlerts(m) ==
  /\ at["rpc"].pc = "idle" /\ state # "quit" 
  /\ (m # "quit" => Len(lists) < MaxLists /\ Constructed(Batch[m]) \cap Used = {})
  /\ at' = [at EXCEPT !["rpc"] = [Idle EXCEPT !.pc = "stop", !.msg = m, !.list = Len(lists)]]
  /\ state' = IF m = "quit" THEN "quit" ELSE state
  /\ UNCHANGED <<lists, status, agg, late, fresh, failures, current>>
Stop ==
  LET p == at["rpc"] IN
  /\ p.pc = "stop" /\ p.pos <= Len(lists[p.list])
  /\ late' = [late EXCEPT ![lists[p.list][p.pos]] = "none"] /\ at' = [at EXCEPT !["rpc"].pos = @ + 1]
  /\ UNCHANGED <<state, lists, status, agg, fresh, failures, current>>
Stopped ==
  LET p == at["rpc"] IN
  /\ p.pc = "stop" /\ p.pos > Len(lists[p.list]) /\ at' = [at EXCEPT !["rpc"] = Idle]
  /\ IF p.msg = "quit" THEN UNCHANGED <<lists, late, current>>
     ELSE lists' = Append(lists, Batch[p.msg]) /\ late' = Spawned(Batch[p.msg]) /\ current' = FALSE
  /\ UNCHANGED <<state, status, agg, fresh, failures>>

(* add: a process_alerts under way goes on to the alerts that are added.   *)
(* (remove raises whenever there is an alert, and changes nothing.)        *)
AddAlerts(l) ==
  /\ at["rpc"].pc = "idle" /\ state # "quit" /\ Constructed(l) \cap Used = {}
  /\ lists' = [lists EXCEPT ![Len(lists)] = @ \o l] /\ late' = Spawned(l) /\ current' = FALSE
  /\ UNCHANGED <<state, status, agg, fresh, at, failures>>

Next ==
  \/ \E g \in Greenlet : \/ \E m \in Value : g # "rpc" /\ ProcessAlerts(g, m)
                         \/ \E m \in Command : g = "rpc" /\ ProcessAlerts(g, m)
                         \/ \E m \in State : ProcessAlerts(g, m)
                         \/ Published(g) \/ PublicationRaises(g) \/ AggStatusTold(g)
  \/ \E a \in Alert : CheckData(a) \/ LatePublished(a)
  \/ \E m \in DOMAIN Batch \cup {"quit"} : StopAlerts(m)
  \/ \E b \in DOMAIN Batch : AddAlerts(Batch[b])
  \/ Stop \/ Stopped

(* A sleep and a publication end.                                          *)
Fairness == \A a \in Alert : WF_vars(CheckData(a)) /\ WF_vars(LatePublished(a))
Spec == Init /\ [][Next]_vars /\ Fairness

-----------------------------------------------------------------------------
(* Properties                                                              *)

(* When every process_alerts has returned, the aggregate status is that of *)
(* the alerts: the worst of those that are tripped, whatever order they    *)
(* were evaluated in and whichever greenlets did.  (A LateDataAlert that   *)
(* trips, a list that is set and a publication that raises leave it to the *)
(* next process_alerts.)  It holds with one aggregate type.                *)
AggregateIsWorst ==
  current /\ (\A g \in Greenlet : at[g].pc = "idle") =>
    \A t \in Type :
      LET tripped == {Def[a].type : a \in {x \in Constructed(Alerts) : Def[x].aggregate = t /\ status[x] = "tripped"}}
      IN agg[t] = CASE "ALARM" \in tripped -> "CRITICAL"
                    [] tripped = {"WARNING"} -> "WARNING"
                    [] tripped = {} -> "OK"

(* A stream that falls silent while the agent streams is noticed: a        *)
(* LateDataAlert stays clear for ever only if data come again and again.   *)
SilenceIsNoticed ==
  \A a \in Alert : <>[](late[a] = "sleep" /\ state = "STREAMING" /\ status[a] = "clear") => []<>fresh[a]

=============================================================================
