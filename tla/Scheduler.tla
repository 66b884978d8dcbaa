------------------------------- MODULE Scheduler -------------------------------
(***************************************************************************)
(* The scheduler service (ion/services/cei/scheduler_service.py).          *)
(*                                                                         *)
(* A timer is an entry in the resource registry, an entry in               *)
(* schedule_entries and a greenlet for each of its times.  A greenlet that *)
(* expires publishes an event, and then starts its successor or deletes    *)
(* the timer.  Both calls let cancel_timer, on_quit and other timers in    *)
(* between.                                                                *)
(***************************************************************************)
EXTENDS Integers, FiniteSets

CONSTANTS
  Timer,        \* ids of timers
  Task,         \* what each is: an IntervalTimer or a TimeOfDayTimer
  Day,          \* the length of a day
  MaxTime,      \* bound: the clock
  MaxStarts,    \* bound: starts of the service
  MaxFailures,  \* bound: publications and registry calls that fail
  SlowPublish,  \* whether a publication may take more than ten seconds
  Nil

(* interval 0: a TimeOfDayTimer, with its times in slots and its expires   *)
(* in end; otherwise end is -1 for an interval timer without one.          *)
TaskAssumption ==
  Task \in [Timer -> [slots : SUBSET (0..(Day - 1)), start : Nat, interval : Nat, end : Int]]
BoundAssumption ==
  Day \in Nat \ {0} /\ {MaxTime, MaxStarts, MaxFailures} \subseteq Nat /\ SlowPublish \in BOOLEAN

Daily(t) == Task[t].interval = 0
Index(t) == IF Daily(t) THEN Task[t].slots ELSE {0}

VARIABLES
  now, service,  \* none, restoring, up, failed, quitting, down
  starts, failures,
  registry,      \* SchedulerEntry resources
  entries,       \* the keys of schedule_entries
  left,          \* times_of_day that are not None, in memory
  spawns,        \* the greenlets there are
  waited,        \* timers and times whose greenlets on_quit waits for
  noReschedule,  \* _no_reschedule
  cancel,        \* cancel_timer: the timer and the greenlets to kill, or Nil
  cancelled      \* history: timers that cancel_timer has reported as cancelled

faults == <<starts, failures>>
memory == <<entries, left, spawns, waited>>
vars == <<now, service, faults, registry, memory, noReschedule, cancel, cancelled>>

(* run: the start of the service that the greenlet belongs to.             *)
Greenlet == [timer : Timer, index : 0..(Day - 1), run : 1..MaxStarts, due : Nat, at : {"wait", "publish", "delete"}]

TypeOK ==
  /\ now \in 0..MaxTime /\ starts \in 0..MaxStarts /\ failures \in 0..MaxFailures
  /\ service \in {"none", "up", "failed", "quitting", "down"}
  /\ registry \subseteq Timer /\ entries \subseteq Timer /\ cancelled \subseteq Timer
  /\ left \in [Timer -> SUBSET (0..(Day - 1))]
  /\ spawns \subseteq Greenlet /\ waited \subseteq Timer \X (0..(Day - 1))
  /\ noReschedule \in BOOLEAN
  /\ cancel \in [timer : Timer, todo : SUBSET (0..(Day - 1))] \cup {Nil}

Init ==
  /\ now = 0 /\ service = "none" /\ starts = 0 /\ failures = 0
  /\ registry = {} /\ entries = {} /\ left = [t \in Timer |-> {}]
  /\ spawns = {} /\ waited = {}
  /\ noReschedule = FALSE /\ cancel = Nil /\ cancelled = {}

Tick == /\ service # "none" /\ now < MaxTime /\ now' = now + 1
        /\ UNCHANGED <<service, faults, registry, memory, noReschedule, cancel, cancelled>>

-----------------------------------------------------------------------------
(* When a timer expires                                                    *)

Today == now - (now % Day)

(* _get_expire_time: the times that today has no room for need a tomorrow. *)
Raises(t) == Daily(t) /\ Task[t].end < now + Day /\ \E k \in Index(t) : k <= now % Day
HasEnded(t) == ~Daily(t) /\ Task[t].end # -1 /\ now + Task[t].interval > Task[t].end
FirstDue(t, k) ==
  CASE Daily(t) -> IF k > now % Day THEN Today + k ELSE Today + Day + k
    [] ~Daily(t) /\ Task[t].start < now ->
         CHOOSE d \in now..(now + Task[t].interval - 1) : (d - Task[t].start) % Task[t].interval = 0
    [] OTHER -> Task[t].start + Task[t].interval

(* _get_reschedule_expire_time                                             *)
Again(t) == IF Daily(t) THEN Task[t].end > now + Day ELSE ~HasEnded(t)
NextDue(t, k) ==
  CASE Daily(t) -> Today + Day + k
    [] ~Daily(t) /\ Task[t].start <= now -> now + Task[t].interval
    [] OTHER -> Task[t].start + Task[t].interval

SpawnLater(t, k, run, due) == [timer |-> t, index |-> k, run |-> run, due |-> due, at |-> "wait"]

(* The greenlets of _schedule: none for an interval timer that has ended.  *)
Scheduled(t) ==
  IF HasEnded(t) THEN {}
  ELSE {SpawnLater(t, k, starts', FirstDue(t, k)) : k \in Index(t)}

-----------------------------------------------------------------------------
(* The service's life                                                      *)

(* _stop_pending_timers: what waits is killed, what is under way is waited *)
(* for; a greenlet that deletes its timer has no entry any more.           *)
Pending == {g \in spawns : g.at = "wait" /\ g.timer \in entries}

(* on_start: the timers of the registry are restored in one slice, up to   *)
(* one whose time cannot be had, and then the service does not start.      *)
Start ==
  /\ service \in {"none", "down", "failed"} /\ starts < MaxStarts /\ starts' = starts + 1
  /\ \E T \in SUBSET registry :
       /\ \A t \in T : ~Raises(t)
       /\ T # registry => \E t \in registry \ T : Raises(t)
       /\ service' = IF T = registry THEN "up" ELSE "failed"
       /\ entries' = T /\ left' = [t \in Timer |-> IF t \in T THEN Index(t) ELSE {}]
       /\ spawns' = (spawns \ Pending) \cup UNION {Scheduled(t) : t \in T}
  /\ noReschedule' = FALSE
  /\ UNCHANGED <<now, failures, registry, waited, cancel, cancelled>>

(* Mutant: nobody waits for callbacks that are under way.                  *)
QuitAtOnce ==
  /\ service = "up" /\ cancel = Nil /\ service' = "down"
  /\ spawns' = spawns \ Pending /\ entries' = {}
  /\ UNCHANGED <<now, faults, registry, left, waited, noReschedule, cancel, cancelled>>

(* on_quit: greenlets that wait are killed; the others are given ten       *)
(* seconds.                                                                *)
Quit ==
  /\ service = "up" /\ cancel = Nil /\ service' = "quitting" /\ noReschedule' = TRUE
  /\ spawns' = spawns \ Pending /\ entries' = {}
  /\ waited' = {<<g.timer, g.index>> : g \in {g \in spawns : g.timer \in entries}}
  /\ UNCHANGED <<now, faults, registry, left, cancel, cancelled>>
Stopped ==
  /\ service = "quitting"
  /\ SlowPublish \/ \A g \in spawns : <<g.timer, g.index>> \notin waited
  /\ service' = "down" /\ noReschedule' = FALSE /\ waited' = {}
  /\ UNCHANGED <<now, faults, registry, entries, left, spawns, cancel, cancelled>>

Crash ==
  /\ service \in {"up", "failed", "quitting"} /\ service' = "down"
  /\ entries' = {} /\ spawns' = {} /\ left' = [t \in Timer |-> {}] /\ waited' = {}
  /\ noReschedule' = FALSE /\ cancel' = Nil
  /\ UNCHANGED <<now, faults, registry, cancelled>>

-----------------------------------------------------------------------------
(* Requests                                                                *)

CreateTimer(t) ==
  /\ service = "up" /\ cancel = Nil
  /\ t \notin registry \cup cancelled \cup entries /\ \A g \in spawns : g.timer # t
  /\ ~Raises(t) /\ (~Daily(t) => Task[t].end = -1 \/ now < Task[t].end)
  /\ registry' = registry \cup {t} /\ entries' = entries \cup {t} /\ left' = [left EXCEPT ![t] = Index(t)]
  /\ UNCHANGED <<now, service, faults, waited, noReschedule, cancel, cancelled>>
  /\ spawns' = spawns \cup Scheduled(t)

CancelTimer(t) ==
  /\ service = "up" /\ cancel = Nil /\ t \in entries
  /\ cancel' = [timer |-> t, todo |-> Index(t)]
  /\ UNCHANGED <<now, service, faults, registry, memory, noReschedule, cancelled>>

(* The greenlets of its entry are killed one after the other, wherever     *)
(* they are: a call to the registry may have been sent or not.             *)
CancelKills(k) ==
  LET killed == {g \in spawns : g.timer = cancel.timer /\ g.index = k /\ g.run = starts} IN
  /\ cancel # Nil /\ k \in cancel.todo /\ cancel' = [cancel EXCEPT !.todo = @ \ {k}]
  /\ spawns' = spawns \ killed
  /\ registry' \in {registry, registry \ {g.timer : g \in {h \in killed : h.at = "delete"}}}
  /\ UNCHANGED <<now, service, faults, entries, left, waited, noReschedule, cancelled>>

(* Mutant: only memory forgets the timer.                                  *)
CancelDeletesEntryOnly ==
  /\ cancel # Nil /\ cancel.todo = {} /\ cancel' = Nil
  /\ entries' = entries \ {cancel.timer} /\ cancelled' = cancelled \cup {cancel.timer}
  /\ UNCHANGED <<now, service, faults, registry, left, spawns, waited, noReschedule>>

(* Then the timer is deleted, unless a greenlet had got to that before it  *)
(* was killed; in that case the registry's entry is left to its call.      *)
CancelDeletes ==
  /\ cancel # Nil /\ cancel.todo = {} /\ cancel' = Nil
  /\ entries' = entries \ {cancel.timer}
  /\ \/ /\ registry' = (IF cancel.timer \in entries THEN registry \ {cancel.timer} ELSE registry)
        /\ cancelled' = (IF cancel.timer \in entries THEN cancelled \cup {cancel.timer} ELSE cancelled)
        /\ UNCHANGED failures
     \/ failures < MaxFailures /\ failures' = failures + 1 /\ UNCHANGED <<registry, cancelled>>
  /\ UNCHANGED <<now, service, starts, left, spawns, waited, noReschedule>>

-----------------------------------------------------------------------------
(* _expire_callback                                                        *)

Replace(g, G) == spawns' = (spawns \ {g}) \cup G

(* Without an entry, KeyError ends it; without an event publisher, as in a *)
(* service that has failed to start, AttributeError does.                  *)
Expire(g) ==
  /\ g.at = "wait" /\ g.due <= now
  /\ Replace(g, IF g.timer \in entries /\ service # "failed" THEN {[g EXCEPT !.at = "publish"]} ELSE {})
  /\ UNCHANGED <<now, service, faults, registry, entries, left, waited, noReschedule, cancel, cancelled>>

(* The event is out: _reschedule, or else _delete, which forgets one time  *)
(* of the day and, with the last, the timer.                               *)
Published(g) ==
  LET t == g.timer
      stop == noReschedule /\ g.run = starts
      rest == IF Daily(t) THEN left[t] \ {g.index} ELSE {}
  IN
  /\ g.at = "publish"
  /\ UNCHANGED <<now, service, faults, registry, waited, noReschedule, cancel, cancelled>>
  /\ CASE t \notin entries -> Replace(g, {}) /\ UNCHANGED <<entries, left>>
       [] t \in entries /\ ~stop /\ Again(t) ->
            /\ Replace(g, {SpawnLater(t, g.index, g.run, NextDue(t, g.index))})
            /\ UNCHANGED <<entries, left>>
       [] OTHER -> /\ left' = [left EXCEPT ![t] = rest]
                   /\ IF rest = {} THEN entries' = entries \ {t} /\ Replace(g, {[g EXCEPT !.at = "delete"]})
                      ELSE Replace(g, {}) /\ UNCHANGED entries
PublishRaises(g) ==
  /\ g.at = "publish" /\ failures < MaxFailures /\ failures' = failures + 1 /\ Replace(g, {})
  /\ UNCHANGED <<now, service, starts, registry, entries, left, waited, noReschedule, cancel, cancelled>>

Deleted(g) ==
  /\ g.at = "delete" /\ registry' = registry \ {g.timer} /\ Replace(g, {})
  /\ UNCHANGED <<now, service, faults, entries, left, waited, noReschedule, cancel, cancelled>>
DeleteRaises(g) ==
  /\ g.at = "delete" /\ failures < MaxFailures /\ failures' = failures + 1 /\ Replace(g, {})
  /\ UNCHANGED <<now, service, starts, registry, entries, left, waited, noReschedule, cancel, cancelled>>

Next ==
  \/ Tick \/ Start \/ Quit \/ Stopped \/ Crash \/ CancelDeletes
  \/ \E t \in Timer : CreateTimer(t) \/ CancelTimer(t)
  \/ \E k \in 0..(Day - 1) : CancelKills(k)
  \/ \E g \in spawns : Expire(g) \/ Published(g) \/ PublishRaises(g) \/ Deleted(g) \/ DeleteRaises(g)

Spec == Init /\ [][Next]_vars

-----------------------------------------------------------------------------
(* Properties                                                              *)

Firing(g) == g.at \in {"wait", "publish"}

(* A timer fires from one greenlet for each of its times, whatever         *)
(* callbacks were under way when the service stopped, and started again.   *)
OneGreenletEach ==
  \A g, h \in spawns : g.timer = h.timer /\ g.index = h.index /\ Firing(g) /\ Firing(h) => g = h

(* A timer that cancel_timer has cancelled fires no more: no greenlet of it*)
(* is left, not even one that was publishing or starting its successor,    *)
(* and no restart brings it back.                                          *)
CancelIsFinal ==
  \A t \in cancelled : t \notin registry \cup entries /\ \A g \in spawns : Firing(g) => g.timer # t

=============================================================================
