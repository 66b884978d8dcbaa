----------------------------- MODULE StatusManager -----------------------------
(***************************************************************************)
(* The statuses that a platform keeps of itself and its children, and the  *)
(* rollup it makes of them (ion/agents/platform/status_manager.py), for    *)
(* one kind of status.                                                     *)
(*                                                                         *)
(* Each subscriber's callback, the alerts and the greenlet that launches   *)
(* children work on the same dictionaries.  Most take the manager's lock   *)
(* and keep it while they publish; the handling of a terminated child      *)
(* takes it in parts only.                                                 *)
(***************************************************************************)
EXTENDS Naturals

CONSTANTS
  Child,      \* resource ids of the platform's children
  Descendant, \* resource ids of the children of those
  Nil

Device == Child \cup Descendant

Status == {"UNKNOWN", "OK", "WARNING", "CRITICAL"}

DeviceAssumption == Child \cap Descendant = {} /\ Nil \notin Device \cup Status

VARIABLES
  active,     \* _active; "none" before the manager is made
  agg,        \* aparam_child_agg_status: Nil for a device that has no entry
  own,        \* aparam_aggstatus
  rollup,     \* aparam_rollup_status
  publishing, \* whether the holder of the lock is in a publication
  report,     \* what a device's status events on their way say, Nil if none
  answer,     \* what a child has answered the launching greenlet, Nil if nothing
  ending      \* where the handling of a child's termination is

vars == <<active, agg, own, rollup, publishing, report, answer, ending>>

TypeOK ==
  /\ active \in {"none", "yes", "no"}
  /\ agg \in [Device -> Status \cup {Nil}]
  /\ own \in Status /\ rollup \in Status
  /\ publishing \in BOOLEAN
  /\ report \in [Device -> Status \cup {Nil}] /\ answer \in [Device -> Status \cup {Nil}]
  /\ ending \in [Device -> {"none", "stop", "rollup"}]

Init ==
  /\ active = "none"
  /\ agg = [c \in Device |-> Nil] /\ own = "UNKNOWN" /\ rollup = "UNKNOWN"
  /\ publishing = FALSE
  /\ report = [c \in Device |-> Nil] /\ answer = [c \in Device |-> Nil]
  /\ ending = [c \in Device |-> "none"]

(* _consolidate_status, without warn_if_unknown                            *)
Consolidated(S) ==
  CASE "CRITICAL" \in S -> "CRITICAL"
    [] "CRITICAL" \notin S /\ "WARNING" \in S -> "WARNING"
    [] S \cap {"CRITICAL", "WARNING"} = {} /\ "OK" \in S -> "OK"
    [] OTHER -> "UNKNOWN"

Statuses(a, o) == ({a[c] : c \in Device} \ {Nil}) \cup {o}
Unlocked == ~publishing /\ \A c \in Device : ending[c] # "stop"

(* _update_rollup_status, and publication of a change by a lock holder     *)
UpdateRollup(a, o) == rollup' = Consolidated(Statuses(a, o))
UpdateAndPublish(a, o) == UpdateRollup(a, o) /\ publishing' = (rollup' # rollup)

Publish == publishing /\ publishing' = FALSE /\ UNCHANGED <<active, agg, own, rollup, report, answer, ending>>

-----------------------------------------------------------------------------
(* The constructor makes entries for the children that are configured.     *)
Create ==
  /\ active = "none" /\ active' = "yes"
  /\ agg' = [c \in Device |-> IF c \in Child THEN "UNKNOWN" ELSE Nil]
  /\ UNCHANGED <<own, rollup, publishing, report, answer, ending>>

Destroy ==
  /\ active = "yes" /\ Unlocked /\ active' = "no"
  /\ agg' = [c \in Device |-> Nil] /\ rollup' = "UNKNOWN"
  /\ UNCHANGED <<own, publishing, report, answer, ending>>

(* A status event leaves a child, and is received by whoever has an entry. *)
ChildReports(c, s) ==
  /\ active # "none" /\ report[c] = Nil /\ report' = [report EXCEPT ![c] = s]
  /\ UNCHANGED <<active, agg, own, rollup, publishing, answer, ending>>

GotAggregateStatus(c) ==
  /\ report[c] # Nil /\ Unlocked
  /\ report' = [report EXCEPT ![c] = Nil]
  /\ UNCHANGED <<active, own, answer, ending>>
  /\ IF active = "yes" /\ agg[c] \notin {Nil, report[c]}
     THEN agg' = [agg EXCEPT ![c] = report[c]] /\ UpdateAndPublish(agg', own)
     ELSE UNCHANGED <<agg, rollup, publishing>>

(* device_added or device_removed of a descendant, told by a child:        *)
(* _prepare_new_child and _remove_child                                    *)
DeviceAdded(c) ==
  /\ active = "yes" /\ Unlocked
  /\ agg' = IF agg[c] = Nil THEN [agg EXCEPT ![c] = "UNKNOWN"] ELSE agg
  /\ UpdateAndPublish(agg', own)
  /\ UNCHANGED <<active, own, report, answer, ending>>

(* Mutant: the rollup still counts a child that is removed.                *)
DeviceRemovedQuietly(c) ==
  /\ active = "yes" /\ Unlocked /\ agg[c] # Nil
  /\ agg' = [agg EXCEPT ![c] = Nil]
  /\ UNCHANGED <<active, own, rollup, publishing, report, answer, ending>>

DeviceRemoved(c) ==
  /\ active = "yes" /\ Unlocked /\ agg[c] # Nil
  /\ agg' = [agg EXCEPT ![c] = Nil]
  /\ UpdateAndPublish(agg', own)
  /\ UNCHANGED <<active, own, report, answer, ending>>

(* Alerts of the platform itself                                           *)
SetAggstatus(s) ==
  /\ active # "none" /\ Unlocked /\ own' = s
  /\ UpdateAndPublish(agg, s)
  /\ UNCHANGED <<active, agg, report, answer, ending>>

(* instrument_launched, subplatform_launched: the child answers, and later *)
(* its answer is stored, without publication; a sub-platform's answer      *)
(* brings entries of its own children with it.  A destroyed manager has no *)
(* entry for the child any more, and raises there.                         *)
ChildAnswers(c, s) ==
  /\ active # "none" /\ answer[c] = Nil /\ answer' = [answer EXCEPT ![c] = s]
  /\ UNCHANGED <<active, agg, own, rollup, publishing, report, ending>>

Launched(c, D, s) ==
  /\ answer[c] # Nil /\ Unlocked
  /\ answer' = [answer EXCEPT ![c] = Nil]
  /\ agg' = [d \in Device |-> CASE d = c /\ agg[c] # Nil -> answer[c] [] d \in D -> s [] OTHER -> agg[d]]
  /\ IF agg[c] # Nil THEN UpdateRollup(agg', own) ELSE UNCHANGED rollup
  /\ UNCHANGED <<active, own, publishing, report, ending>>

(* _device_terminated_event: the lifecycle subscriber is stopped with the  *)
(* lock held, then the status is set without it; the rollup is made with   *)
(* it, after those of other kinds have been published without.             *)
ChildTerminated(c) ==
  /\ active = "yes" /\ Unlocked /\ ending[c] = "none" /\ agg[c] # Nil
  /\ ending' = [ending EXCEPT ![c] = "stop"]
  /\ UNCHANGED <<active, agg, own, rollup, publishing, report, answer>>
SubscriberStopped(c) ==
  /\ ending[c] = "stop"
  /\ agg' = [agg EXCEPT ![c] = "UNKNOWN"] /\ ending' = [ending EXCEPT ![c] = "rollup"]
  /\ UNCHANGED <<active, own, rollup, publishing, report, answer>>
TerminatedRollup(c) ==
  /\ ending[c] = "rollup" /\ Unlocked
  /\ UpdateRollup(agg, own) /\ ending' = [ending EXCEPT ![c] = "none"]
  /\ UNCHANGED <<active, agg, own, publishing, report, answer>>

Next ==
  \/ Create \/ Destroy \/ Publish
  \/ \E s \in Status : SetAggstatus(s)
  \/ \E c \in Device, s \in Status : GotAggregateStatus(c) \/ ChildReports(c, s)
  \/ \E c \in Descendant : DeviceAdded(c) \/ DeviceRemoved(c)
  \/ \E c \in Child :
       \/ ChildTerminated(c) \/ SubscriberStopped(c) \/ TerminatedRollup(c)
       \/ \E s \in Status : ChildAnswers(c, s) \/ \E D \in SUBSET Descendant : Launched(c, D, s)

Spec == Init /\ [][Next]_vars

-----------------------------------------------------------------------------
(* Whoever holds the lock or finds it free sees a rollup that is the       *)
(* consolidation of the platform's own status and those of the devices it  *)
(* has entries for, unless a terminated child is still to be counted: no   *)
(* order of added, removed, launched and terminated children, of their     *)
(* events and of alerts leaves a rollup behind that nothing corrects.      *)
RollupConsolidates ==
  active = "yes" /\ (\A c \in Device : ending[c] # "rollup") => rollup = Consolidated(Statuses(agg, own))
=============================================================================
