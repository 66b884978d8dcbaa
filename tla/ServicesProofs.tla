---------------------------- MODULE ServicesProofs ----------------------------
(***************************************************************************)
(* Proofs about Scheduler, for every set of timers of either kind and any  *)
(* number of stops, crashes, restarts and failures, when no publication    *)
(* takes longer than on_quit waits (~SlowPublish); about Deployment, for   *)
(* all trees of devices and sites, models and plans; and about             *)
(* ConstraintSolver, for every problem of finitely many values.            *)
(***************************************************************************)
EXTENDS MCServices, FiniteSetTheorems, SequenceTheorems, TLAPS

-----------------------------------------------------------------------------
(* The scheduler                                                           *)


(* What the greenlets and the memory look like.  (When a timer is due is   *)
(* of no account here.)                                                    *)
MemoryOK ==
  /\ service \in {"none", "up", "failed", "quitting", "down"} /\ starts \in Nat
  /\ registry \subseteq Timer /\ entries \subseteq Timer /\ left \in [Timer -> SUBSET Int]
  /\ \A g \in spawns :
       /\ g = [timer |-> g.timer, index |-> g.index, run |-> g.run, due |-> g.due, at |-> g.at]
       /\ g.timer \in Timer /\ g.index \in Index(g.timer) /\ g.at \in {"wait", "publish", "delete"}

(* A greenlet that will fire belongs to this start of the service, has an  *)
(* entry, and its time has not been forgotten; when the service stops it   *)
(* is waited for, and a stopped service has none.                          *)
Owned ==
  \A g \in spawns : Firing(g) =>
    /\ service \in {"up", "failed"} =>
         g.timer \in entries /\ g.run = starts /\ g.index \in left[g.timer]
    /\ service = "failed" => g.at = "wait"
    /\ service = "quitting" => <<g.timer, g.index>> \in waited
    /\ service \notin {"none", "down"}

(* While a timer is cancelled, the greenlets left to kill are all that it  *)
(* has.                                                                    *)
CancelInv ==
  cancel # Nil =>
    /\ service = "up"
    /\ \A g \in spawns : Firing(g) /\ g.timer = cancel.timer => g.index \in cancel.todo

SInv == MemoryOK /\ Owned /\ CancelInv /\ OneGreenletEach /\ CancelIsFinal

LEMMA IndexInt ==
  ASSUME TaskAssumption, NEW t \in Timer PROVE Index(t) \in SUBSET Int
  BY DEF TaskAssumption, Index

LEMMA InitSInv == Init => SInv
  BY DEF Init, SInv, MemoryOK, Owned, CancelInv, OneGreenletEach, CancelIsFinal

(* What remains when greenlets go and nothing else changes.                *)
LEMMA FewerGreenlets ==
  ASSUME SInv, spawns' \subseteq spawns,
         UNCHANGED <<service, starts, registry, entries, left, waited, cancel, cancelled>>
  PROVE  SInv'
  BY DEF SInv, MemoryOK, Owned, CancelInv, OneGreenletEach, CancelIsFinal, Firing

(* The greenlets that a timer starts with.                                 *)
LEMMA ScheduledFacts ==
  ASSUME NEW t \in Timer, NEW g \in Scheduled(t), starts' \in Nat
  PROVE  /\ g = [timer |-> g.timer, index |-> g.index, run |-> g.run, due |-> g.due, at |-> g.at]
         /\ g.timer = t /\ g.index \in Index(t) /\ g.run = starts' /\ g.at = "wait"
         /\ \A h \in Scheduled(t) : h.index = g.index => h = g
  BY DEF Scheduled, SpawnLater

(* A start finds no greenlet that will fire but those it kills.            *)
LEMMA StartSInv ==
  ASSUME TaskAssumption, SInv, Start PROVE SInv'
<1>1. PICK T \in SUBSET registry :
        /\ service' \in {"up", "failed"} /\ entries' = T
        /\ left' = [t \in Timer |-> IF t \in T THEN Index(t) ELSE {}]
        /\ spawns' = (spawns \ Pending) \cup UNION {Scheduled(t) : t \in T}
  BY DEF Start
<1>2. /\ service \in {"none", "down", "failed"} /\ starts' = starts + 1 /\ starts' \in Nat
      /\ UNCHANGED <<registry, cancel, cancelled>> /\ cancel = Nil /\ T \subseteq Timer
  BY <1>1 DEF Start, SInv, CancelInv, MemoryOK
<1>3. \A g \in spawns \ Pending : ~Firing(g)
  BY <1>2 DEF Pending, SInv, Owned, Firing
<1>4. ASSUME NEW g \in spawns', Firing(g)
      PROVE \E t \in T : g \in Scheduled(t)
  <2>1. g \in UNION {Scheduled(t) : t \in T}
    BY <1>1, <1>3, <1>4
  <2>2. QED
    BY <2>1
<1>5. MemoryOK'
  <2>1. left' \in [Timer -> SUBSET Int]
    BY <1>1, IndexInt
  <2>2. ASSUME NEW g \in spawns'
        PROVE  /\ g = [timer |-> g.timer, index |-> g.index, run |-> g.run, due |-> g.due,
                       at |-> g.at]
               /\ g.timer \in Timer /\ g.index \in Index(g.timer)
                    /\ g.at \in {"wait", "publish", "delete"}
    <3>1. CASE g \in spawns
      BY <3>1 DEF SInv, MemoryOK
    <3>2. CASE g \notin spawns
      <4>1. PICK t \in T : g \in Scheduled(t)
        BY <1>1, <3>2
      <4>2. QED
        BY <1>2, <4>1, ScheduledFacts
    <3>3. QED
      BY <3>1, <3>2
  <2>3. (\A g \in spawns :
           /\ g = [timer |-> g.timer, index |-> g.index, run |-> g.run, due |-> g.due, at |-> g.at]
           /\ g.timer \in Timer /\ g.index \in Index(g.timer)
                /\ g.at \in {"wait", "publish", "delete"})'
    BY <2>2 DEF Index, Daily
  <2>4. QED
    BY <1>1, <1>2, <2>1, <2>3 DEF MemoryOK, SInv
<1>6. Owned'
  <2>1. ASSUME NEW g \in spawns', Firing(g)
        PROVE  g.timer \in entries' /\ g.run = starts' /\ g.index \in left'[g.timer]
               /\ g.at = "wait"
    <3>1. PICK t \in T : g \in Scheduled(t)
      BY <1>4, <2>1
    <3>2. QED
      BY <1>1, <1>2, <3>1, ScheduledFacts
  <2>2. QED
    BY <1>1, <2>1 DEF Owned, Firing
<1>7. OneGreenletEach'
  <2>1. ASSUME NEW g \in spawns', NEW h \in spawns', g.timer = h.timer, g.index = h.index,
               Firing(g), Firing(h)
        PROVE  g = h
    <3>1. PICK t \in T : g \in Scheduled(t)
      BY <1>4, <2>1
    <3>2. PICK u \in T : h \in Scheduled(u)
      BY <1>4, <2>1
    <3>3. t = u
      BY <1>2, <2>1, <3>1, <3>2, ScheduledFacts
    <3>4. QED
      BY <1>2, <2>1, <3>1, <3>2, <3>3, ScheduledFacts
  <2>2. QED
    BY <2>1 DEF OneGreenletEach, Firing
<1>8. CancelIsFinal'
  <2>1. ASSUME NEW g \in spawns', Firing(g) PROVE g.timer \in registry
    BY <1>2, <1>4, <2>1, ScheduledFacts
  <2>2. QED
    BY <1>1, <1>2, <2>1 DEF SInv, CancelIsFinal, Firing
<1>9. CancelInv'
  BY <1>2 DEF CancelInv
<1>10. QED
  BY <1>5, <1>6, <1>7, <1>8, <1>9 DEF SInv

(* A stop takes the entries away, and waits for the greenlets it leaves.   *)
LEMMA StopSInv ==
  ASSUME ~SlowPublish, SInv, Quit \/ Stopped \/ Crash PROVE SInv'
<1>1. CASE Quit
  BY <1>1 DEF Quit, Pending, faults, SInv, MemoryOK, Owned, CancelInv, OneGreenletEach,
     CancelIsFinal, Firing
<1>2. CASE Stopped
  <2>1. \A g \in spawns : ~Firing(g)
    BY <1>2 DEF Stopped, SInv, Owned
  <2>2. QED
    BY <1>2, <2>1 DEF Stopped, faults, SInv, MemoryOK, Owned, CancelInv, OneGreenletEach,
       CancelIsFinal, Firing
<1>3. CASE Crash
  BY <1>3 DEF Crash, faults, SInv, MemoryOK, Owned, CancelInv, OneGreenletEach, CancelIsFinal
<1>4. QED
  BY <1>1, <1>2, <1>3

(* A new timer's id is new.                                                *)
LEMMA CreateSInv ==
  ASSUME TaskAssumption, SInv, NEW t \in Timer, CreateTimer(t) PROVE SInv'
<1>1. /\ service = "up" /\ cancel = Nil /\ t \notin registry \cup cancelled \cup entries
      /\ registry' = registry \cup {t} /\ entries' = entries \cup {t}
           /\ left' = [left EXCEPT ![t] = Index(t)]
      /\ spawns' = spawns \cup Scheduled(t) /\ \A g \in spawns : g.timer # t
      /\ UNCHANGED <<service, starts, waited, cancel, cancelled>> /\ starts' \in Nat
  BY DEF CreateTimer, faults, SInv, MemoryOK
<1>2. /\ left \in [Timer -> SUBSET Int] /\ left'[t] = Index(t) /\ left' \in [Timer -> SUBSET Int]
      /\ \A u \in Timer : u # t => left'[u] = left[u]
  BY <1>1, IndexInt DEF SInv, MemoryOK
<1>3. ASSUME NEW g \in Scheduled(t)
      PROVE  /\ g = [timer |-> g.timer, index |-> g.index, run |-> g.run, due |-> g.due,
                     at |-> g.at]
             /\ g.timer = t /\ g.index \in Index(t) /\ g.run = starts /\ g.at = "wait"
             /\ \A h \in Scheduled(t) : h.index = g.index => h = g
  BY <1>1, ScheduledFacts
<1>4. MemoryOK'
  BY <1>1, <1>2, <1>3 DEF SInv, MemoryOK, Index, Daily
<1>5. Owned'
  BY <1>1, <1>2, <1>3 DEF SInv, MemoryOK, Owned, Firing
<1>6. OneGreenletEach' /\ CancelIsFinal' /\ CancelInv'
  BY <1>1, <1>3 DEF SInv, OneGreenletEach, CancelIsFinal, CancelInv, Firing
<1>7. QED
  BY <1>4, <1>5, <1>6 DEF SInv

LEMMA CancelSInv ==
  ASSUME SInv, (\E t \in Timer : CancelTimer(t)) \/ (\E k \in 0..(Day - 1) : CancelKills(k))
         \/ CancelDeletes
  PROVE  SInv'
<1> USE DEF faults, memory
<1>1. ASSUME NEW t \in Timer, CancelTimer(t) PROVE SInv'
  BY <1>1 DEF CancelTimer, SInv, MemoryOK, Owned, CancelInv, OneGreenletEach, CancelIsFinal, Firing
<1>2. ASSUME NEW k \in 0..(Day - 1), CancelKills(k) PROVE SInv'
  <2>1. /\ cancel # Nil /\ cancel' = [cancel EXCEPT !.todo = @ \ {k}]
        /\ spawns' = spawns \ {g \in spawns : g.timer = cancel.timer /\ g.index = k /\ g.run = starts}
        /\ registry' \subseteq registry
        /\ UNCHANGED <<service, starts, entries, left, waited, cancelled>>
    BY <1>2 DEF CancelKills
  <2>2. CancelInv'
    <3>1. ASSUME NEW g \in spawns', Firing(g), g.timer = cancel.timer
          PROVE  g.index \in cancel.todo \ {k}
      BY <2>1, <3>1 DEF SInv, CancelInv, Owned
    <3>2. QED
      BY <2>1, <3>1 DEF SInv, CancelInv, Firing
  <2>3. QED
    BY <2>1, <2>2 DEF SInv, MemoryOK, Owned, OneGreenletEach, CancelIsFinal, Firing
<1>3. CASE CancelDeletes
  <2>1. /\ \A g \in spawns : Firing(g) => g.timer # cancel.timer
        /\ entries' = entries \ {cancel.timer} /\ cancel' = Nil
        /\ registry' \subseteq registry
        /\ UNCHANGED <<service, starts, left, spawns, waited>>
        /\ \/ cancelled' = cancelled
           \/ cancelled' = cancelled \cup {cancel.timer} /\ cancel.timer \notin registry'
    BY <1>3 DEF CancelDeletes, SInv, CancelInv
  <2>2. QED
    BY <2>1 DEF SInv, MemoryOK, Owned, CancelInv, OneGreenletEach, CancelIsFinal, Firing
<1>4. QED
  BY <1>1, <1>2, <1>3

(* A greenlet's step: it ends, or goes on as itself.                       *)
LEMMA ReplacedSInv ==
  ASSUME SInv, NEW g \in spawns, NEW h, Replace(g, {h}),
         h = [timer |-> g.timer, index |-> g.index, run |-> g.run, due |-> h.due, at |-> h.at],
         h.at \in {"wait", "publish", "delete"}, Firing(h) => Firing(g),
         service = "failed" => h.at # "publish",
         UNCHANGED <<service, starts, registry, entries, left, waited, cancel, cancelled>>
  PROVE  SInv'
<1>1. h.timer = g.timer /\ h.index = g.index /\ h.run = g.run
  OBVIOUS
<1>2. spawns' = (spawns \ {g}) \cup {h}
  BY DEF Replace
<1>3. MemoryOK'
  BY <1>1, <1>2 DEF SInv, MemoryOK, Index, Daily
<1>4. Owned'
  BY <1>1, <1>2 DEF SInv, Owned, Firing
<1>5. OneGreenletEach' /\ CancelIsFinal' /\ CancelInv'
  BY <1>1, <1>2 DEF SInv, OneGreenletEach, CancelIsFinal, CancelInv, Firing
<1>6. QED
  BY <1>3, <1>4, <1>5 DEF SInv

LEMMA PublishedSInv ==
  ASSUME TaskAssumption, SInv, NEW g \in spawns, Published(g) PROVE SInv'
<1> DEFINE t == g.timer
           rest == IF Daily(t) THEN left[t] \ {g.index} ELSE {}
<1> USE DEF faults
<1>1. /\ g.at = "publish" /\ Firing(g) /\ t \in Timer
      /\ g = [timer |-> t, index |-> g.index, run |-> g.run, due |-> g.due, at |-> g.at]
      /\ UNCHANGED <<service, starts, registry, waited, cancel, cancelled>>
  BY DEF Published, Firing, SInv, MemoryOK
<1>2. CASE Replace(g, {}) /\ UNCHANGED <<entries, left>>
  BY <1>1, <1>2, FewerGreenlets DEF Replace
<1>3. CASE Replace(g, {SpawnLater(t, g.index, g.run, NextDue(t, g.index))})
        /\ UNCHANGED <<entries, left>>
  <2> DEFINE h == SpawnLater(t, g.index, g.run, NextDue(t, g.index))
  <2>1. /\ h = [timer |-> g.timer, index |-> g.index, run |-> g.run, due |-> h.due, at |-> h.at]
        /\ h.at = "wait"
    BY DEF SpawnLater
  <2> HIDE DEF h
  <2>2. QED
    BY <1>1, <1>3, <2>1, ReplacedSInv DEF h
<1>4. CASE /\ left' = [left EXCEPT ![t] = rest]
           /\ IF rest = {} THEN entries' = entries \ {t} /\ Replace(g, {[g EXCEPT !.at = "delete"]})
              ELSE Replace(g, {}) /\ UNCHANGED entries
  <2> DEFINE h == [g EXCEPT !.at = "delete"]
  <2>1. /\ h.timer = t /\ h.index = g.index /\ h.at = "delete"
        /\ h = [timer |-> h.timer, index |-> h.index, run |-> h.run, due |-> h.due, at |-> h.at]
    BY <1>1
  <2> HIDE DEF h
  <2>2. spawns' \subseteq (spawns \ {g}) \cup {h}
    BY <1>4 DEF Replace, h
  <2>3. rest \in SUBSET Int /\ left' \in [Timer -> SUBSET Int] /\ left'[t] = rest
        /\ \A u \in Timer : u # t => left'[u] = left[u]
    BY <1>1, <1>4 DEF SInv, MemoryOK
  <2>4. MemoryOK'
    <3>1. entries' \subseteq entries
      BY <1>4
    <3>2. h.timer \in Timer /\ h.index \in Index(h.timer)
      BY <2>1, <1>1 DEF SInv, MemoryOK
    <3>3. QED
      BY <1>1, <2>1, <2>2, <2>3, <3>1, <3>2 DEF SInv, MemoryOK, Index, Daily
  <2>5. \A f \in spawns' : Firing(f) => f \in spawns /\ f # g
    BY <2>1, <2>2 DEF Firing
  <2>6. ASSUME NEW f \in spawns', Firing(f), f.timer = t, service \in {"up", "failed"}
        PROVE  f.index \in rest /\ rest # {}
    <3>1. f \in spawns /\ f # g /\ f.index # g.index
      BY <1>1, <2>5, <2>6 DEF SInv, OneGreenletEach
    <3>2. Daily(t)
      BY <2>6, <3>1 DEF SInv, MemoryOK, Index
    <3>3. f.index \in left[t]
      BY <2>6, <3>1 DEF SInv, Owned
    <3>4. QED
      BY <3>1, <3>2, <3>3
  <2>7. Owned'
    <3>1. ASSUME NEW f \in spawns', Firing(f)
          PROVE  /\ service' \in {"up", "failed"} =>
                      f.timer \in entries' /\ f.run = starts' /\ f.index \in left'[f.timer]
                 /\ service' = "failed" => f.at = "wait"
                 /\ service' = "quitting" => <<f.timer, f.index>> \in waited'
                 /\ service' \notin {"none", "down"}
      <4>1. f \in spawns /\ f.timer \in Timer
        BY <2>5, <3>1 DEF SInv, MemoryOK
      <4>2. CASE f.timer = t
        BY <1>1, <1>4, <2>3, <2>6, <3>1, <4>1, <4>2 DEF SInv, Owned
      <4>3. CASE f.timer # t
        BY <1>1, <1>4, <2>3, <3>1, <4>1, <4>3 DEF SInv, Owned
      <4>4. QED
        BY <4>2, <4>3
    <3>2. QED
      BY <3>1 DEF Owned, Firing
  <2>8. OneGreenletEach' /\ CancelInv'
    BY <1>1, <2>5 DEF SInv, OneGreenletEach, CancelInv, Firing
  <2>9. CancelIsFinal'
    BY <1>1, <1>4, <2>5 DEF SInv, CancelIsFinal, Firing
  <2>10. QED
    BY <2>4, <2>7, <2>8, <2>9 DEF SInv
<1>5. QED
  BY <1>1, <1>2, <1>3, <1>4 DEF Published

LEMMA GreenletSInv ==
  ASSUME TaskAssumption, SInv, NEW g \in spawns,
         Expire(g) \/ Published(g) \/ PublishRaises(g) \/ Deleted(g) \/ DeleteRaises(g)
  PROVE  SInv'
<1> USE DEF faults
<1>1. g = [timer |-> g.timer, index |-> g.index, run |-> g.run, due |-> g.due, at |-> g.at]
  BY DEF SInv, MemoryOK
<1>2. CASE Expire(g)
  <2>1. CASE Replace(g, {})
    BY <1>2, <2>1, FewerGreenlets DEF Expire, Replace
  <2>2. CASE service # "failed" /\ Replace(g, {[g EXCEPT !.at = "publish"]})
    <3> DEFINE h == [g EXCEPT !.at = "publish"]
    <3>1. /\ h = [timer |-> g.timer, index |-> g.index, run |-> g.run, due |-> h.due, at |-> h.at]
          /\ h.at = "publish" /\ Firing(g)
      BY <1>1, <1>2 DEF Expire, Firing
    <3> HIDE DEF h
    <3>2. QED
      BY <1>2, <2>2, <3>1, ReplacedSInv DEF Expire, h
  <2>3. QED
    BY <1>2, <2>1, <2>2 DEF Expire
<1>3. CASE PublishRaises(g) \/ DeleteRaises(g)
  BY <1>3, FewerGreenlets DEF PublishRaises, DeleteRaises, Replace
<1>4. CASE Deleted(g)
  BY <1>4 DEF Deleted, Replace, SInv, MemoryOK, Owned, CancelInv, OneGreenletEach, CancelIsFinal,
     Firing
<1>5. CASE Published(g)
  BY <1>5, PublishedSInv
<1>6. QED
  BY <1>2, <1>3, <1>4, <1>5

LEMMA StepSInv ==
  ASSUME TaskAssumption, ~SlowPublish, SInv, [Next]_vars PROVE SInv'
<1>1. CASE Tick \/ UNCHANGED vars
  BY <1>1 DEF Tick, vars, faults, memory, SInv, MemoryOK, Owned, CancelInv, OneGreenletEach,
              CancelIsFinal, Firing
<1>2. QED
  BY <1>1, StartSInv, StopSInv, CreateSInv, CancelSInv, GreenletSInv DEF Next

(* The invariant holds for any timers, stops, crashes and failures.        *)
LEMMA Invariant ==
  ASSUME TaskAssumption, ~SlowPublish PROVE Spec => []SInv
<1>1. SInv /\ [Next]_vars => SInv'
  BY StepSInv
<1>2. QED
  BY <1>1, InitSInv, PTL DEF Spec

(* However stops, restarts, cancellations and callbacks under way come     *)
(* together, nothing fires twice for one time of one timer.                *)
THEOREM TimersFireOnce ==
  ASSUME TaskAssumption, ~SlowPublish PROVE Spec => []OneGreenletEach
<1>1. SInv => OneGreenletEach
  BY DEF SInv
<1>2. QED
  BY <1>1, Invariant, PTL

(* A timer reported as cancelled never fires again, after a restart        *)
(* neither.                                                                *)
THEOREM CancelledTimersAreSilent ==
  ASSUME TaskAssumption, ~SlowPublish PROVE Spec => []CancelIsFinal
<1>1. SInv => CancelIsFinal
  BY DEF SInv
<1>2. QED
  BY <1>1, Invariant, PTL

-----------------------------------------------------------------------------
(* Deployments                                                             *)

Node == Device \cup Site

(* What DP!TreeOf makes of a root.                                         *)
Closed(X, root, ids, children) ==
  root \in X /\ \A x \in Node : Parent[x] \in X /\ (children \/ x \in ids) => x \in X

LEMMA TreeFacts ==
  ASSUME DP!PlanAssumption, NEW root \in Node, NEW ids, NEW children
  PROVE  LET T == DP!TreeOf(root, ids, children) IN
         /\ T \subseteq Node /\ root \in T
         /\ \A X \in SUBSET Node : Closed(X, root, ids, children) => T \subseteq X
         /\ \A x \in T \ {root} : Parent[x] \in T
  <1>. DEFINE T == DP!TreeOf(root, ids, children)
  <1>1. T = {x \in Node : \A X \in SUBSET Node : Closed(X, root, ids, children) => x \in X}
    BY DEF DP!TreeOf, Closed, Node
  <1>. HIDE DEF T
  <1>2. T \in SUBSET Node /\ root \in T /\ \A X \in SUBSET Node : Closed(X, root, ids, children)
          => T \subseteq X
    BY <1>1 DEF Closed
  <1>3. Closed(T, root, ids, children)
    <2>1. ASSUME NEW x \in Node, Parent[x] \in T, children \/ x \in ids PROVE x \in T
      BY <2>1, <1>1 DEF Closed
    <2>2. QED
      BY <1>2, <2>1 DEF Closed
  <1>4. DEFINE Y == {x \in T : x = root \/ Parent[x] \in T}
  <1>5. Closed(Y, root, ids, children) /\ Y \in SUBSET Node
    BY <1>2, <1>3 DEF Closed
  <1>6. T \subseteq Y
    BY <1>2, <1>5
  <1>7. QED
    BY <1>2, <1>6 DEF T

(* A set with a parent outside it for one of its members only holds it.    *)
LEMMA NoCycle ==
  ASSUME DP!PlanAssumption, NEW X \in SUBSET Node, NEW y \in X, \A x \in X \ {y} : Parent[x] \in X
  PROVE  Parent[y] \notin X
  BY DEF DP!PlanAssumption, Node

(* What is under a device is devices, under a site sites.                  *)
LEMMA TreesAreOfAKind ==
  ASSUME DP!PlanAssumption, NEW ids, NEW children
  PROVE  /\ \A d \in Device : DP!TreeOf(d, ids, children) \subseteq Device
         /\ \A s \in Site : DP!TreeOf(s, ids, children) \subseteq Site
  <1>1. \A d \in Device : Closed(Device, d, ids, children)
    BY DEF DP!PlanAssumption, Closed, Node
  <1>2. \A s \in Site : Closed(Site, s, ids, children)
    BY DEF DP!PlanAssumption, Closed, Node
  <1>3. Device \in SUBSET Node /\ Site \in SUBSET Node
    BY DEF Node
  <1>4. QED
    BY <1>1, <1>2, <1>3, TreeFacts DEF Node

(* A collected tree has one root, and the parents of everything else.      *)
LEMMA OneRoot ==
  ASSUME DP!PlanAssumption, NEW ids \in SUBSET Node, NEW children, NEW r \in DP!Roots(ids, children)
  PROVE  LET C == DP!Collected(ids, children) IN
         /\ DP!Roots(ids, children) = {r} /\ C \subseteq Node /\ r \in C
         /\ \A x \in C \ {r} : Parent[x] \in C
         /\ Parent[r] \notin C
         /\ C = DP!TreeOf(r, ids, children)
  <1>. DEFINE T(x) == DP!TreeOf(x, ids, children)
  <1>1. r \in ids /\ ids \subseteq T(r)
    BY DEF DP!Roots
  <1>2. ASSUME NEW q \in DP!Roots(ids, children) PROVE q = r
    <2>1. SUFFICES ASSUME q # r PROVE FALSE
      OBVIOUS
    <2>2. q \in ids /\ ids \subseteq T(q)
      BY <1>2 DEF DP!Roots
    <2>3. r \in T(q) /\ q \in T(r) /\ T(q) \subseteq Node /\ T(r) \subseteq Node
      BY <1>1, <2>2, TreeFacts
    <2>4. (\A x \in T(q) \ {q} : Parent[x] \in T(q)) /\ (\A x \in T(r) \ {r} : Parent[x] \in T(r))
      BY <1>1, <2>2, TreeFacts
    <2>5. \A x \in T(q) \cup T(r) : Parent[x] \in T(q) \cup T(r)
      BY <2>1, <2>3, <2>4
    <2>6. T(q) \cup T(r) \in (SUBSET (Device \cup Site)) \ {{}}
      BY <2>3 DEF Node
    <2>7. QED
      BY <2>5, <2>6 DEF DP!PlanAssumption
  <1>3. DP!Roots(ids, children) = {r}
    BY <1>2
  <1>4. DP!Collected(ids, children) = T(r)
    BY <1>3 DEF DP!Collected
  <1>5. T(r) \subseteq Node /\ r \in T(r) /\ \A x \in T(r) \ {r} : Parent[x] \in T(r)
    BY <1>1, TreeFacts
  <1>6. Parent[r] \notin T(r)
    BY <1>5, NoCycle
  <1>7. QED
    BY <1>3, <1>4, <1>5, <1>6

(* A mapping puts each device at a site of its own, a child below its      *)
(* parent's, whether the solver or the ports decide.                       *)
Places(D, S, f) ==
  /\ f \in [D -> S]
  /\ \A d, e \in D : f[d] = f[e] => d = e
  /\ \A d \in D : Parent[d] \in D => Parent[f[d]] = f[Parent[d]]

LEMMA MappingsPlace ==
  ASSUME DP!PlanAssumption, NEW p \in Plan, DP!Collects(p), NEW f \in DP!Mappings(p)
  PROVE  DP!Devices(p) \subseteq Device /\ DP!Sites(p) \subseteq Site
         /\ Places(DP!Devices(p), DP!Sites(p), f)
  <1>. DEFINE D == DP!Devices(p)
              S == DP!Sites(p)
              plan == PlanOf[p]
  <1>1. plan.devices \subseteq Device /\ plan.sites \subseteq Site
    BY DEF DP!PlanAssumption
  <1>2. D # {} /\ S # {}
    BY DEF DP!Collects
  <1>3. PICK r \in DP!Roots(plan.devices, plan.children) : TRUE
    BY <1>2 DEF DP!Devices, DP!Collected
  <1>4. PICK q \in DP!Roots(plan.sites, plan.children) : TRUE
    BY <1>2 DEF DP!Sites, DP!Collected
  <1>5. /\ DP!Roots(plan.devices, plan.children) = {r} /\ r \in D
        /\ \A d \in D \ {r} : Parent[d] \in D
        /\ Parent[r] \notin D
        /\ D = DP!TreeOf(r, plan.devices, plan.children)
    BY <1>1, <1>3, OneRoot DEF DP!Devices, Node
  <1>6. /\ DP!Roots(plan.sites, plan.children) = {q} /\ q \in S
        /\ \A s \in S \ {q} : Parent[s] \in S
        /\ Parent[q] \notin S
        /\ S = DP!TreeOf(q, plan.sites, plan.children)
    BY <1>1, <1>4, OneRoot DEF DP!Sites, Node
  <1>7. D \subseteq Device /\ S \subseteq Site
    BY <1>1, <1>3, <1>4, <1>5, <1>6, TreesAreOfAKind DEF DP!Roots
  <1>8. CASE plan.ports = Nil
    BY <1>7, <1>8 DEF DP!Mappings, DP!Matchings, Places
  <1>9. CASE plan.ports # Nil
    <2>. DEFINE port == plan.ports
                place(d) == IF d = r THEN q ELSE port[d]
    <2>1. /\ \A d \in D \ {r} : port[d] \in S /\ Parent[port[d]] = place(Parent[d])
          /\ f = [d \in D |-> place(d)]
      <3>1. (CHOOSE s \in DP!Roots(plan.sites, plan.children) : TRUE) = q
        BY <1>6
      <3>2. f \in DP!Merges(p)
        BY <1>9 DEF DP!Mappings
      <3>3. \A d : (d \in DP!Roots(plan.devices, plan.children)) <=> d = r
        BY <1>5
      <3>4. QED
        BY <3>1, <3>2, <3>3, <1>5 DEF DP!Merges
    <2>2. \A d \in D : place(d) \in S
      BY <2>1, <1>6
    <2>3. \A d \in D \ {r} : place(d) # q
      BY <2>1, <2>2, <1>5, <1>6
    <2>4. \A d, e \in Device : port[d] \in Site /\ port[d] = port[e] => d = e
      BY <1>9 DEF DP!PlanAssumption
    <2>5. \A d, e \in D : place(d) = place(e) => d = e
      BY <2>1, <2>3, <2>4, <1>7
    <2>6. \A d \in D : Parent[d] \in D => Parent[place(d)] = place(Parent[d])
      BY <2>1, <1>5
    <2>. HIDE DEF place
    <2>7. QED
      BY <2>1, <2>2, <2>5, <2>6, <1>7 DEF Places
  <1>10. QED
    BY <1>8, <1>9

(* While a deployment is activated: its devices are at their places or are *)
(* still to be put there, and whatever else of their kind is there is      *)
(* still to be removed.                                                    *)
Underway(f) ==
  LET D == DP!Devices(dpRequest.plan) IN
  /\ D \subseteq Device /\ Places(D, DP!Sites(dpRequest.plan), f)
  /\ \A d \in D :
       /\ <<f[d], d>> \in dpHasDevice \cup dpRequest.create
       /\ \A e \in DP!Others(f[d], d) : <<f[d], e>> \in dpRequest.remove
       /\ <<f[d], d>> \notin dpRequest.remove
  /\ \A pair \in dpRequest.create : \E d \in D : pair = <<f[d], d>>

DeployInv ==
  dpRequest # Nil =>
    /\ dpRequest = [plan |-> dpRequest.plan, remove |-> dpRequest.remove,
                    create |-> dpRequest.create]
    /\ \E f : Underway(f)

LEMMA BeginDeploy ==
  ASSUME DP!PlanAssumption, DeployInv, NEW p \in Plan, DP!BeginActivate(p) PROVE DeployInv'
  <1>1. PICK f \in DP!Mappings(p) : DP!Prepare(p, f)
    BY DEF DP!BeginActivate
  <1>. DEFINE D == DP!Devices(p)
  <1>2. D \subseteq Device /\ DP!Sites(p) \subseteq Site /\ Places(D, DP!Sites(p), f)
    BY MappingsPlace DEF DP!BeginActivate
  <1>3. dpHasDevice' = dpHasDevice
    BY DEF DP!BeginActivate
  <1>4. dpRequest' = [plan |-> p, remove |-> UNION {{f[d]} \X DP!Others(f[d], d) : d \in D},
                      create |-> {<<f[d], d>> : d \in D} \ dpHasDevice]
    BY <1>1 DEF DP!Prepare
  <1>. HIDE DEF D
  <1>. DEFINE remove == UNION {{f[d]} \X DP!Others(f[d], d) : d \in D}
  <1>5. \A d \in D : \A e \in DP!Others(f[d], d) : <<f[d], e>> \in remove
    OBVIOUS
  <1>6. \A d \in D : <<f[d], d>> \notin remove
    <2>1. SUFFICES ASSUME NEW d \in D, NEW e \in D, <<f[d], d>> \in {f[e]} \X DP!Others(f[e], e)
                            PROVE FALSE
      OBVIOUS
    <2>2. f[d] = f[e] /\ d \in DP!Others(f[e], e)
      BY <2>1
    <2>3. d # e
      BY <2>2 DEF DP!Others
    <2>4. QED
      BY <1>2, <2>2, <2>3 DEF Places
  <1>7. \A d : DP!Others(f[d], d)' = DP!Others(f[d], d)
    BY <1>3 DEF DP!Others
  <1>. HIDE DEF remove
  <1>8. Underway(f)'
    BY <1>2, <1>3, <1>4, <1>5, <1>6, <1>7 DEF Underway, D, remove
  <1>9. QED
    BY <1>4, <1>8 DEF DeployInv

LEMMA UnassignDeploy ==
  ASSUME DeployInv, NEW pair, DP!Unassign(pair) PROVE DeployInv'
  <1>1. PICK f : Underway(f)
    BY DEF DeployInv, DP!Unassign
  <1>2. /\ dpHasDevice' = dpHasDevice \ {pair} /\ pair \in dpRequest.remove
        /\ dpRequest' = [plan |-> dpRequest.plan, remove |-> dpRequest.remove \ {pair},
                         create |-> dpRequest.create]
    BY DEF DeployInv, DP!Unassign
  <1>3. \A d : DP!Others(f[d], d)' = {e \in DP!Others(f[d], d) : <<f[d], e>> # pair}
    BY <1>2 DEF DP!Others
  <1>4. Underway(f)'
    BY <1>1, <1>2, <1>3 DEF Underway
  <1>5. QED
    BY <1>2, <1>4 DEF DeployInv

LEMMA AssignDeploy ==
  ASSUME DeployInv, NEW pair, DP!Assign(pair) PROVE DeployInv'
  <1>1. PICK f : Underway(f)
    BY DEF DeployInv, DP!Assign
  <1>2. /\ dpHasDevice' = dpHasDevice \cup {pair} /\ pair \in dpRequest.create
        /\ dpRequest' = [plan |-> dpRequest.plan, remove |-> dpRequest.remove,
                         create |-> dpRequest.create \ {pair}]
    BY DEF DeployInv, DP!Assign
  <1>3. \A d \in DP!Devices(dpRequest.plan) : DP!Others(f[d], d)' \subseteq DP!Others(f[d], d)
    <2>1. PICK e \in DP!Devices(dpRequest.plan) : pair = <<f[e], e>>
      BY <1>1, <1>2 DEF Underway
    <2>2. QED
      BY <1>1, <1>2, <2>1 DEF Underway, Places, DP!Others
  <1>4. Underway(f)'
    BY <1>1, <1>2, <1>3 DEF Underway
  <1>5. QED
    BY <1>2, <1>4 DEF DeployInv

LEMMA StepDeploy ==
  ASSUME DP!PlanAssumption, DeployInv, [DP!Next]_(DP!vars) PROVE DeployInv'
  <1>1. ASSUME NEW p \in Plan, DP!BeginActivate(p) PROVE DeployInv'
    BY <1>1, BeginDeploy
  <1>2. ASSUME NEW p \in Plan, DP!Deactivate(p) PROVE DeployInv'
    BY <1>2 DEF DP!Deactivate, DeployInv
  <1>3. ASSUME NEW p \in Plan, DP!Transition(p) PROVE DeployInv'
    <2>1. UNCHANGED <<dpHasDevice, dpRequest>>
      BY <1>3 DEF DP!Transition
    <2>2. QED
      BY <2>1 DEF DeployInv, Underway, DP!Others
  <1>4. ASSUME NEW pair, DP!Unassign(pair) \/ DP!Assign(pair) PROVE DeployInv'
    BY <1>4, UnassignDeploy, AssignDeploy
  <1>5. CASE DP!Activated \/ DP!Raises
    BY <1>5 DEF DP!Activated, DP!Raises, DeployInv
  <1>6. CASE UNCHANGED DP!vars
    BY <1>6 DEF DP!vars, DeployInv, Underway, DP!Others
  <1>7. QED
    BY <1>1, <1>2, <1>3, <1>4, <1>5, <1>6 DEF DP!Next

(* When an activation returns, each of its devices is at a site of its     *)
(* own, alone of its kind there, a child below its parent, whatever was    *)
(* done between its calls (prepare, activate_deployment), for all trees,   *)
(* models, ports and plans.                                                *)
THEOREM ActivatedHasPlaces == DP!Spec => ActivationHolds
  <1>1. ASSUME DeployInv, dpRequest # Nil, DP!Activated
        PROVE  LET D == DP!Devices(dpRequest.plan) IN
               \E f \in [D -> DP!Sites(dpRequest.plan)] : \A d \in D :
                 /\ {e \in DP!Primaries(f[d]) : Kind[e] = Kind[d]} = {d}
                 /\ Parent[d] \in D => Parent[f[d]] = f[Parent[d]]
    <2>. DEFINE D == DP!Devices(dpRequest.plan)
    <2>1. PICK f : Underway(f)
      BY <1>1 DEF DeployInv
    <2>2. f \in [D -> DP!Sites(dpRequest.plan)] /\ \A d \in D : Parent[d] \in D
            => Parent[f[d]] = f[Parent[d]]
      BY <2>1 DEF Underway, Places
    <2>3. ASSUME NEW d \in D PROVE {e \in DP!Primaries(f[d]) : Kind[e] = Kind[d]} = {d}
      <3>1. DP!Others(f[d], d) = {} /\ <<f[d], d>> \in dpHasDevice /\ d \in Device
        BY <1>1, <2>1 DEF Underway, DP!Activated
      <3>2. QED
        BY <3>1 DEF DP!Others, DP!Primaries
    <2>4. QED
      BY <2>2, <2>3
  <1>2. DP!Init => DeployInv
    BY DEF DP!Init, DeployInv
  <1>3. DeployInv /\ [DP!Next]_(DP!vars) => DeployInv'
    BY SuiteAssumption, StepDeploy
  <1>4. QED
    BY <1>1, <1>2, <1>3, PTL DEF DP!Spec, ActivationHolds, DP!ActivationHolds

-----------------------------------------------------------------------------
(* The solver                                                              *)

(* The problem p: what it is made of, and what solves it.                  *)
Problem(p) ==
  /\ p.domain \in [Var -> SUBSET Value]
  /\ p.parent \in [Var -> Var \cup {Nil}] /\ p.up \in [Value -> Value \cup {Nil}]

Solves(p, f) ==
  /\ \A v \in Var : f[v] \in p.domain[v]
  /\ \A v, w \in Var : v # w => f[v] # f[w]
  /\ \A v \in Var : p.parent[v] # Nil => p.up[f[v]] = f[p.parent[v]]

(* The values of the variables in N break no constraint among them.        *)
Consistent(p, a, N) ==
  /\ \A v, w \in N : v # w => a[v] # a[w]
  /\ \A v \in N : p.parent[v] \in N => p.up[a[v]] = a[p.parent[v]]

LEMMA FamilyFacts ==
  ASSUME Problem(csProblem)
  PROVE  /\ \A v \in Var : csProblem.parent[v] # Nil => <<v, csProblem.parent[v]>> \in CS!Families
         /\ \A p \in CS!Families : /\ p[1] \in Var /\ p[2] \in Var
                                   /\ csProblem.parent[p[1]] # Nil /\ p[2] = csProblem.parent[p[1]]
  BY DEF CS!Families, Problem

LEMMA SolvesIsSolution ==
  ASSUME Problem(csProblem), NEW f PROVE CS!Solution(f) <=> Solves(csProblem, f)
  <1>1. (\A p \in CS!Families : CS!Fits(f[p[1]], f[p[2]]))
        <=> \A v \in Var : csProblem.parent[v] # Nil => csProblem.up[f[v]] = f[csProblem.parent[v]]
    <2>1. ASSUME \A p \in CS!Families : CS!Fits(f[p[1]], f[p[2]]),
                 NEW v \in Var, csProblem.parent[v] # Nil
          PROVE  csProblem.up[f[v]] = f[csProblem.parent[v]]
      <3>. DEFINE p == <<v, csProblem.parent[v]>>
      <3>1. p \in CS!Families /\ p[1] = v /\ p[2] = csProblem.parent[v]
        BY <2>1, FamilyFacts
      <3>2. QED
        BY <2>1, <3>1 DEF CS!Fits
    <2>2. QED
      BY <2>1, FamilyFacts DEF CS!Fits
  <1>2. QED
    BY <1>1 DEF CS!Solution, Solves

(* Checking a value: what was consistent stays it, and what is hidden or   *)
(* rejected is no part of a solution.                                      *)
LEMMA CheckFacts ==
  ASSUME CS!SolverAssumption, Problem(csProblem), NEW N \in SUBSET Var, NEW v \in Var \ N,
         NEW a \in [Var -> Value \cup {Nil}], \A w \in Var : a[w] # Nil <=> w \in N \cup {v}
  PROVE  /\ \A w \in N \cup {v} : CS!Hides(a, v)[w] = {}
         /\ Consistent(csProblem, a, N) /\ ~CS!Broken(a, v) => Consistent(csProblem, a, N \cup {v})
  <1>1. \A w \in N \cup {v} : CS!Hides(a, v)[w] = {}
    BY DEF CS!Hides
  <1>2. ASSUME Consistent(csProblem, a, N), ~CS!Broken(a, v)
               PROVE Consistent(csProblem, a, N \cup {v})
    <2>1. ASSUME NEW u \in N \cup {v}, csProblem.parent[u] \in N \cup {v}
          PROVE  csProblem.up[a[u]] = a[csProblem.parent[u]]
      <3>1. CASE u # v /\ csProblem.parent[u] # v
        BY <1>2, <2>1, <3>1 DEF Consistent
      <3>2. CASE u = v \/ csProblem.parent[u] = v
        <4>. DEFINE p == <<u, csProblem.parent[u]>>
        <4>1. csProblem.parent[u] # Nil
          BY <2>1 DEF CS!SolverAssumption
        <4>2. p \in CS!Families /\ p[1] = u /\ p[2] = csProblem.parent[u]
          BY <4>1, FamilyFacts
        <4>3. a[p[1]] # Nil /\ a[p[2]] # Nil /\ v \in {p[1], p[2]}
          BY <2>1, <3>2, <4>2
        <4>. HIDE DEF p
        <4>4. CS!Fits(a[p[1]], a[p[2]])
          BY <1>2, <4>2, <4>3 DEF CS!Broken
        <4>5. QED
          BY <4>2, <4>4 DEF CS!Fits
      <3>3. QED
        BY <3>1, <3>2
    <2>2. ASSUME NEW u \in N \cup {v}, NEW w \in N \cup {v}, u # w PROVE a[u] # a[w]
      BY <1>2, <2>2 DEF CS!Broken
    <2>3. QED
      BY <2>1, <2>2 DEF Consistent
  <1>3. QED
    BY <1>1, <1>2

LEMMA CheckIsSound ==
  ASSUME CS!SolverAssumption, Problem(csProblem), NEW N \in SUBSET Var, NEW v \in Var \ N,
         NEW a \in [Var -> Value \cup {Nil}], \A w \in Var : a[w] # Nil <=> w \in N \cup {v},
         NEW f \in [Var -> Value], Solves(csProblem, f), \A w \in N \cup {v} : f[w] = a[w]
  PROVE  /\ ~CS!Broken(a, v)
         /\ \A w \in Var \ (N \cup {v}) : f[w] \notin CS!Hides(a, v)[w]
  <1>1. ASSUME NEW p \in CS!Families PROVE CS!Fits(f[p[1]], f[p[2]])
    BY FamilyFacts DEF Solves, CS!Fits
  <1>2. ~CS!Broken(a, v)
    <2>1. ASSUME NEW u \in Var, NEW w \in Var, u # w, a[u] # Nil PROVE a[u] # a[w]
      BY <2>1 DEF Solves
    <2>2. ASSUME NEW p \in CS!Families, a[p[1]] # Nil, a[p[2]] # Nil PROVE CS!Fits(a[p[1]], a[p[2]])
      <3>1. a[p[1]] = f[p[1]] /\ a[p[2]] = f[p[2]]
        BY <2>2, FamilyFacts
      <3>2. QED
        BY <1>1, <3>1
    <2>3. QED
      BY <2>1, <2>2 DEF CS!Broken
  <1>3. ASSUME NEW w \in Var \ (N \cup {v}) PROVE f[w] \notin CS!Hides(a, v)[w]
    <2>1. a[w] = Nil
      OBVIOUS
    <2>2. f[w] \notin CS!Seen(a)
      BY <2>1 DEF Solves, CS!Seen
    <2>3. ASSUME NEW p \in CS!Families PROVE f[w] \notin CS!Misfits(p, a, w)
      <3>1. p[1] \in Var /\ p[2] \in Var
        BY FamilyFacts
      <3>2. CASE w = p[1] /\ a[p[2]] # Nil
        <4>1. CS!Misfits(p, a, w) = {x \in Value : ~CS!Fits(x, a[p[2]])}
          BY <2>1, <3>2 DEF CS!Misfits
        <4>2. a[p[2]] = f[p[2]]
          BY <3>1, <3>2
        <4>3. QED
          BY <1>1, <3>2, <4>1, <4>2
      <3>3. CASE w = p[2] /\ a[p[1]] # Nil
        <4>1. CS!Misfits(p, a, w) = {x \in Value : ~CS!Fits(a[p[1]], x)}
          BY <2>1, <3>3 DEF CS!Misfits
        <4>2. a[p[1]] = f[p[1]]
          BY <3>1, <3>3
        <4>3. QED
          BY <1>1, <3>3, <4>1, <4>2
      <3>4. QED
        BY <3>2, <3>3 DEF CS!Misfits
    <2>4. CS!Hides(a, v)[w] = CS!Seen(a) \cup UNION {CS!Misfits(p, a,
                         w) : p \in {p \in CS!Families : v \in {p[1], p[2]}}}
      BY <2>1 DEF CS!Hides
    <2>5. QED
      BY <2>2, <2>3, <2>4
  <1>4. QED
    BY <1>2, <1>3

(* What a level of the search is restored to: what is visible, what is     *)
(* hidden, and the sizes that were pushed.                                 *)
Level == [dom : [Var -> SUBSET Value], hid : [Var -> Seq(Value)], sts : [Var -> Seq(Nat)]]
Top == [dom |-> csDomains, hid |-> csHidden, sts |-> csStates]

Elements(s) == {s[i] : i \in DOMAIN s}

(* What popState shows again, of a domain D that hides h and has pushed t. *)
ShownOf(D, h, t) == SubSeq(h, Len(h) - (t[Len(t)] - Cardinality(D)) + 1, Len(h))
ShownIn(L, v) == ShownOf(L.dom[v], L.hid[v], L.sts[v])
Popped(L, V) ==
  [dom |-> [v \in Var |-> IF v \in V THEN L.dom[v] \cup Elements(ShownIn(L, v))
                          ELSE L.dom[v]],
   hid |-> [v \in Var |-> IF v \in V THEN SubSeq(L.hid[v], 1, Len(L.hid[v]) - Len(ShownIn(L, v)))
                          ELSE L.hid[v]],
   sts |-> [v \in Var |-> IF v \in V THEN SubSeq(L.sts[v], 1, Len(L.sts[v]) - 1) ELSE L.sts[v]]]

LEMMA SolverCardinality == \A S : CS!Cardinality(S) = Cardinality(S)
  <1>1. \A S : CS!IsFiniteSet(S) = IsFiniteSet(S)
    BY DEF CS!IsFiniteSet, IsFiniteSet
  <1>2. QED
    BY <1>1 DEF CS!Cardinality, Cardinality

(* A finite set as a sequence: its elements, as many as there are.         *)
LEMMA SetToSeqFacts ==
  ASSUME NEW S \in SUBSET Value, IsFiniteSet(S)
  PROVE  /\ CS!SetToSeq(S) \in Seq(Value) /\ Len(CS!SetToSeq(S)) = Cardinality(S)
         /\ {CS!SetToSeq(S)[i] : i \in 1..Cardinality(S)} = S
  <1>. DEFINE n == Cardinality(S)
              One(f) == \A i, j \in DOMAIN f : f[i] = f[j] => i = j
              s == CHOOSE f \in [1..n -> S] : One(f)
  <1>1. n \in Nat /\ \E f : f \in Bijection(1..n, S)
    BY FS_CardinalityType DEF ExistsBijection
  <1>2. PICK f : f \in Bijection(1..n, S)
    BY <1>1
  <1>3. f \in [1..n -> S] /\ One(f)
    BY <1>2 DEF Bijection, Injection, IsInjective
  <1>4. s \in [1..n -> S] /\ One(s)
    BY <1>3
  <1>5. CS!SetToSeq(S) = s
    BY SolverCardinality DEF CS!SetToSeq, CS!IsInjective
  <1>. HIDE DEF s
  <1>6. s \in Injection(1..n, S)
    BY <1>4 DEF Injection, IsInjective
  <1>7. Cardinality(1..n) = n
    BY <1>1, FS_Interval
  <1>8. s \in Surjection(1..n, S)
    BY <1>6, <1>7, FS_Injection
  <1>9. {s[i] : i \in 1..n} = S
    BY <1>4, <1>8 DEF Surjection
  <1>. HIDE DEF n
  <1>10. s \in Seq(Value) /\ Len(s) = n
    BY <1>1, <1>4
  <1>11. QED
    BY <1>5, <1>9, <1>10 DEF n

(* The last part of a sequence.                                            *)
LEMMA LastPart ==
  ASSUME NEW h \in Seq(Value), NEW s \in Seq(Value)
  PROVE  LET t == h \o s IN
         /\ SubSeq(t, 1, Len(t) - Len(s)) = h
         /\ SubSeq(t, Len(t) - Len(s) + 1, Len(t)) = s
  <1>. DEFINE t == h \o s
  <1>1. t \in Seq(Value) /\ Len(t) = Len(h) + Len(s) /\ Len(h) \in Nat /\ Len(s) \in Nat
    OBVIOUS
  <1>2. SubSeq(t, 1, Len(h)) = h
    <2>1. /\ SubSeq(t, 1, Len(h)) = [i \in 1..Len(h) |-> t[i]]
          /\ h = [i \in 1..Len(h) |-> h[i]]
      OBVIOUS
    <2>2. \A i \in 1..Len(h) : t[i] = h[i]
      OBVIOUS
    <2>. HIDE DEF t
    <2>3. QED
      BY <2>1, <2>2
  <1>3. SubSeq(t, Len(h) + 1, Len(t)) = s
    <2>1. /\ SubSeq(t, Len(h) + 1, Len(h) + Len(s)) = [i \in 1..Len(s) |-> t[i + Len(h)]]
          /\ s = [i \in 1..Len(s) |-> s[i]]
      OBVIOUS
    <2>2. \A i \in 1..Len(s) : t[i + Len(h)] = s[i]
      OBVIOUS
    <2>. HIDE DEF t
    <2>3. QED
      BY <1>1, <2>1, <2>2
  <1>. HIDE DEF t
  <1>4. Len(t) - Len(s) = Len(h)
    BY <1>1
  <1>5. QED
    BY <1>2, <1>3, <1>4 DEF t

(* What one domain pushes and hides comes back when it is popped.          *)
LEMMA PushPopOne ==
  ASSUME IsFiniteSet(Value), NEW D \in SUBSET Value, NEW h \in Seq(Value), NEW t \in Seq(Nat), NEW H
  PROVE  LET h2 == h \o CS!SetToSeq(D \cap H)
             t2 == Append(t, Cardinality(D))
             shown == ShownOf(D \ H, h2, t2)
         IN  /\ h2 \in Seq(Value) /\ t2 \in Seq(Nat)
             /\ SubSeq(t2, 1, Len(t2) - 1) = t
             /\ SubSeq(h2, 1, Len(h2) - Len(shown)) = h
             /\ (D \ H) \cup Elements(shown) = D
             /\ D \cap H = {} => h2 = h
  <1>. DEFINE gone == D \cap H
              s == CS!SetToSeq(gone)
              rest == D \ H
              c == Cardinality(D)
              h2 == h \o s
              t2 == Append(t, c)
  <1>1. gone \in SUBSET Value /\ IsFiniteSet(gone) /\ IsFiniteSet(D)
    BY FS_Subset
  <1>2. c \in Nat /\ Cardinality(gone) \in Nat
    BY <1>1, FS_CardinalityType
  <1>3. Cardinality(rest) = c - Cardinality(gone)
    BY <1>1, FS_Difference
  <1>4. D = rest \cup gone
    OBVIOUS
  <1>. HIDE DEF gone, rest, c
  <1>5. s \in Seq(Value) /\ Len(s) = Cardinality(gone) /\ {s[i] : i \in 1..Cardinality(gone)} = gone
    BY <1>1, SetToSeqFacts
  <1>. HIDE DEF s
  <1>6. DOMAIN s = 1..Cardinality(gone)
    BY <1>5
  <1>7. Len(t2) - 1 = Len(t) /\ SubSeq(t2, 1, Len(t)) = t /\ t2[Len(t2)] = c /\ t2 \in Seq(Nat)
    BY <1>2
  <1>8. h2 \in Seq(Value) /\ SubSeq(h2, 1, Len(h2) - Len(s)) = h
          /\ SubSeq(h2, Len(h2) - Len(s) + 1, Len(h2)) = s
    BY <1>5, LastPart
  <1>. HIDE DEF h2, t2
  <1>9. t2[Len(t2)] - Cardinality(rest) = Len(s)
    BY <1>2, <1>3, <1>5, <1>7
  <1>10. ShownOf(rest, h2, t2) = s
    BY <1>8, <1>9 DEF ShownOf
  <1>11. gone = {} => h2 = h
    <2>1. SUFFICES ASSUME gone = {} PROVE h2 = h
      OBVIOUS
    <2>2. Len(s) = 0
      BY <1>5, <2>1, FS_EmptySet
    <2>3. s = <<>>
      BY <1>5, <2>2, EmptySeq
    <2>4. QED
      BY <2>3, ConcatEmptySeq DEF h2
  <1>12. rest \cup Elements(s) = D
    BY <1>4, <1>5, <1>6 DEF Elements
  <1>13. QED
    BY <1>7, <1>8, <1>10, <1>11, <1>12 DEF gone, rest, c, h2, t2, s

(* What is pushed and hidden comes back when it is popped.                 *)
LEMMA PushPop ==
  ASSUME IsFiniteSet(Value), NEW L \in Level, NEW V \in SUBSET Var, NEW H, NEW M,
         \A v \in Var \ V : H[v] = {},
         M.sts = [v \in Var |-> IF v \in V THEN Append(L.sts[v],
                  Cardinality(L.dom[v])) ELSE L.sts[v]],
         M.dom = [v \in Var |-> L.dom[v] \ H[v]],
         M.hid = [v \in Var |-> L.hid[v] \o CS!SetToSeq(L.dom[v] \cap H[v])],
         M = [dom |-> M.dom, hid |-> M.hid, sts |-> M.sts]
  PROVE  M \in Level /\ Popped(M, V) = L
  <1>1. /\ L = [dom |-> L.dom, hid |-> L.hid, sts |-> L.sts]
        /\ L.dom = [v \in Var |-> L.dom[v]] /\ L.hid = [v \in Var |-> L.hid[v]]
             /\ L.sts = [v \in Var |-> L.sts[v]]
        /\ \A v \in Var : L.dom[v] \in SUBSET Value /\ L.hid[v] \in Seq(Value)
             /\ L.sts[v] \in Seq(Nat)
    BY DEF Level
  <1>2. ASSUME NEW v \in Var
        PROVE  /\ M.hid[v] \in Seq(Value) /\ M.dom[v] \in SUBSET Value
               /\ M.sts[v] \in Seq(Nat)
               /\ v \notin V => M.hid[v] = L.hid[v] /\ M.dom[v] = L.dom[v] /\ M.sts[v] = L.sts[v]
               /\ v \in V => /\ SubSeq(M.sts[v], 1, Len(M.sts[v]) - 1) = L.sts[v]
                             /\ SubSeq(M.hid[v], 1, Len(M.hid[v]) - Len(ShownIn(M, v))) = L.hid[v]
                             /\ M.dom[v] \cup Elements(ShownIn(M, v)) = L.dom[v]
    <2>. DEFINE D == L.dom[v]
                h == L.hid[v]
                t == L.sts[v]
                h2 == h \o CS!SetToSeq(D \cap H[v])
                t2 == Append(t, Cardinality(D))
    <2>1. D \in SUBSET Value /\ h \in Seq(Value) /\ t \in Seq(Nat)
      BY <1>1
    <2>2. M.hid[v] = h2 /\ M.dom[v] = D \ H[v] /\ M.sts[v] = IF v \in V THEN t2 ELSE t
      OBVIOUS
    <2>3. v \notin V => H[v] = {}
      OBVIOUS
    <2>. HIDE DEF D, h, t
    <2>4. LET shown == ShownOf(D \ H[v], h2, t2)
          IN  /\ h2 \in Seq(Value) /\ t2 \in Seq(Nat)
              /\ SubSeq(t2, 1, Len(t2) - 1) = t
              /\ SubSeq(h2, 1, Len(h2) - Len(shown)) = h
              /\ (D \ H[v]) \cup Elements(shown) = D
              /\ D \cap H[v] = {} => h2 = h
      BY <2>1, PushPopOne
    <2>. HIDE DEF h2, t2
    <2>5. v \in V => ShownIn(M, v) = ShownOf(D \ H[v], h2, t2)
      BY <2>2 DEF ShownIn
    <2>6. v \notin V => M.hid[v] = h /\ M.dom[v] = D /\ M.sts[v] = t
      BY <2>2, <2>3, <2>4
    <2>7. v \in V => /\ SubSeq(M.sts[v], 1, Len(M.sts[v]) - 1) = t
                    /\ SubSeq(M.hid[v], 1, Len(M.hid[v]) - Len(ShownIn(M, v))) = h
                    /\ M.dom[v] \cup Elements(ShownIn(M, v)) = D
      BY <2>2, <2>4, <2>5
    <2>8. M.hid[v] \in Seq(Value) /\ M.dom[v] \in SUBSET Value /\ M.sts[v] \in Seq(Nat)
      BY <2>1, <2>2, <2>4
    <2>9. QED
      BY <2>6, <2>7, <2>8 DEF D, h, t
  <1>3. /\ M = [dom |-> M.dom, hid |-> M.hid, sts |-> M.sts]
        /\ M.dom = [v \in Var |-> M.dom[v]] /\ M.hid = [v \in Var |-> M.hid[v]]
             /\ M.sts = [v \in Var |-> M.sts[v]]
    OBVIOUS
  <1>4. M \in Level
    BY <1>2, <1>3 DEF Level
  <1>5. Popped(M, V).dom = L.dom /\ Popped(M, V).hid = L.hid /\ Popped(M, V).sts = L.sts
    BY <1>1, <1>2 DEF Popped
  <1>6. Popped(M, V) = L
    BY <1>1, <1>5 DEF Popped
  <1>7. QED
    BY <1>4, <1>6

(* The variables assigned at the first n levels, and an assignment's       *)
(* agreeing with a on them.                                                *)
Names(q, n) == {q[j].variable : j \in 1..n}
Agrees(f, a, q, n) == \A j \in 1..n : f[q[j].variable] = a[q[j].variable]

(* G is what the levels are restored to: the next one, popped.             *)
Chain(p, s, G, q) ==
  /\ G \in Seq(Level) /\ q \in Seq(CS!Entry) /\ Len(G) = Len(q) + 1
  /\ G[Len(G)] = s /\ G[1].dom = p.domain
  /\ \A i \in 1..Len(q) : G[i] = Popped(G[i + 1], q[i].pushed)
  /\ \A i \in 1..Len(G), v \in Var : G[i].dom[v] \subseteq p.domain[v]

Path(G, q, a) ==
  \A i \in 1..Len(q) :
    /\ q[i].variable \in Var \ Names(q, i - 1) /\ q[i].pushed = Var \ Names(q, i)
    /\ q[i].values \subseteq G[i].dom[q[i].variable]
    /\ a[q[i].variable] \in G[i].dom[q[i].variable] \ q[i].values

(* No solution is hidden that agrees with what has been assigned.          *)
Complete(p, G, q, a) ==
  \A f \in [Var -> Value] : Solves(p, f) =>
    \A i \in 1..Len(G) : Agrees(f, a, q, i - 1)
    => \A v \in Var \ Names(q, i - 1) : f[v] \in G[i].dom[v]

Search(p, s, G, q, a) ==
  /\ Chain(p, s, G, q) /\ Path(G, q, a) /\ Complete(p, G, q, a)
  /\ Consistent(p, a, Names(q, Len(q))) /\ a \in [Var -> Value \cup {Nil}]

(* What an earlier level has still to try.                                 *)
Open(f, q, a) == \E i \in 1..Len(q) : Agrees(f, a, q, i - 1) /\ f[q[i].variable] \in q[i].values

(* One more level, or one less.                                            *)
LEMMA OneLevel ==
  ASSUME NEW q \in Seq(CS!Entry), NEW e \in CS!Entry
  PROVE  LET r == Append(q, e) IN
         /\ r \in Seq(CS!Entry) /\ Len(r) = Len(q) + 1 /\ Len(q) \in Nat /\ r[Len(q) + 1] = e
         /\ \A i \in 1..Len(q) : r[i] = q[i]
         /\ \A n \in 0..Len(q) : Names(r, n) = Names(q, n)
         /\ Names(r, Len(q) + 1) = Names(q, Len(q)) \cup {e.variable}
         /\ \A f, a : \A n \in 0..Len(q) : Agrees(f, a, r, n) <=> Agrees(f, a, q, n)
         /\ \A f, a : Agrees(f, a, r, Len(q) + 1) <=> Agrees(f, a, q, Len(q))
              /\ f[e.variable] = a[e.variable]
         /\ \A f, a : Open(f, r, a) <=> Open(f, q, a)
              \/ (Agrees(f, a, q, Len(q)) /\ f[e.variable] \in e.values)
  <1>. DEFINE r == Append(q, e)
  <1>1. r \in Seq(CS!Entry) /\ Len(r) = Len(q) + 1 /\ Len(q) \in Nat /\ r[Len(q) + 1] = e
        /\ \A i \in 1..Len(q) : r[i] = q[i]
    OBVIOUS
  <1>. HIDE DEF r
  <1>2. 1..(Len(q) + 1) = 1..Len(q) \cup {Len(q) + 1}
          /\ \A n \in 0..Len(q) : 1..n \subseteq 1..Len(q)
    BY <1>1
  <1>3. \A n \in 0..Len(q) : Names(r, n) = Names(q, n)
    BY <1>1, <1>2 DEF Names
  <1>4. Names(r, Len(q) + 1) = Names(q, Len(q)) \cup {e.variable}
    BY <1>1, <1>2 DEF Names
  <1>5. ASSUME NEW f, NEW a, NEW n \in 0..Len(q) PROVE Agrees(f, a, r, n) <=> Agrees(f, a, q, n)
    BY <1>1, <1>2 DEF Agrees
  <1>6. ASSUME NEW f, NEW a
        PROVE  Agrees(f, a, r, Len(q) + 1) <=> Agrees(f, a, q, Len(q))
               /\ f[e.variable] = a[e.variable]
    BY <1>1, <1>2 DEF Agrees
  <1>7. ASSUME NEW f, NEW a
        PROVE  Open(f, r, a) <=> Open(f, q, a)
               \/ (Agrees(f, a, q, Len(q)) /\ f[e.variable] \in e.values)
    <2>1. \A i \in 1..Len(q) : i - 1 \in 0..Len(q)
      BY <1>1
    <2>2. \A i \in 1..Len(q) : Agrees(f, a, r, i - 1) /\ f[r[i].variable] \in r[i].values
                           <=> Agrees(f, a, q, i - 1) /\ f[q[i].variable] \in q[i].values
      BY <1>1, <1>5, <2>1
    <2>3. Agrees(f, a, r, (Len(q) + 1) - 1) <=> Agrees(f, a, q, Len(q))
      <3>1. (Len(q) + 1) - 1 = Len(q) /\ Len(q) \in 0..Len(q)
        BY <1>1
      <3>2. QED
        BY <1>5, <3>1
    <2>4. Len(q) + 1 \in 1..(Len(q) + 1) /\ 1..Len(q) \subseteq 1..(Len(q) + 1)
      BY <1>1
    <2>5. ASSUME Open(f, r, a) PROVE Open(f, q, a)
                 \/ (Agrees(f, a, q, Len(q)) /\ f[e.variable] \in e.values)
      <3>1. PICK i \in 1..(Len(q) + 1) : Agrees(f, a, r, i - 1) /\ f[r[i].variable] \in r[i].values
        BY <1>1, <2>5 DEF Open
      <3>2. QED
        BY <1>1, <1>2, <2>2, <2>3, <3>1 DEF Open
    <2>6. ASSUME Open(f, q, a) \/ (Agrees(f, a, q, Len(q)) /\ f[e.variable] \in e.values)
                 PROVE Open(f, r, a)
      BY <1>1, <2>2, <2>3, <2>4, <2>6 DEF Open
    <2>7. QED
      BY <2>5, <2>6
  <1>8. QED
    BY <1>1, <1>3, <1>4, <1>5, <1>6, <1>7 DEF r

(* What is assigned to the variable of the current level is of no account  *)
(* to the ones before.                                                     *)
LEMMA Reassign ==
  ASSUME NEW q \in Seq(CS!Entry), NEW v \in Var \ Names(q, Len(q)),
         NEW a \in [Var -> Value \cup {Nil}],
         NEW x \in Value \cup {Nil}
  PROVE  LET b == [a EXCEPT ![v] = x] IN
         /\ \A i \in 1..Len(q) : b[q[i].variable] = a[q[i].variable]
         /\ \A f : \A n \in 0..Len(q) : Agrees(f, b, q, n) <=> Agrees(f, a, q, n)
         /\ \A f : Open(f, q, b) <=> Open(f, q, a)
         /\ \A p, s, G : Search(p, s, G, q, a) => Search(p, s, G, q, b)
  <1>. DEFINE b == [a EXCEPT ![v] = x]
  <1>1. b \in [Var -> Value \cup {Nil}] /\ \A w \in Var \ {v} : b[w] = a[w]
    OBVIOUS
  <1>2. \A i \in 1..Len(q) : q[i].variable \in Names(q, Len(q)) /\ q[i].variable \in Var
    <2>1. \A i \in 1..Len(q) : q[i] \in CS!Entry
      OBVIOUS
    <2>2. QED
      BY <2>1 DEF Names, CS!Entry
  <1>3. \A i \in 1..Len(q) : b[q[i].variable] = a[q[i].variable]
    BY <1>2
  <1>. HIDE DEF b
  <1>4. ASSUME NEW f, NEW n \in 0..Len(q) PROVE Agrees(f, b, q, n) <=> Agrees(f, a, q, n)
    BY <1>3 DEF Agrees
  <1>5. ASSUME NEW f PROVE Open(f, q, b) <=> Open(f, q, a)
    <2>1. \A i \in 1..Len(q) : i - 1 \in 0..Len(q)
      OBVIOUS
    <2>2. QED
      BY <1>4, <2>1 DEF Open
  <1>6. ASSUME NEW p, NEW s, NEW G, Search(p, s, G, q, a) PROVE Search(p, s, G, q, b)
    <2>1. Path(G, q, b)
      BY <1>3, <1>6 DEF Search, Path
    <2>2. Complete(p, G, q, b)
      <3>1. \A i \in 1..Len(G) : i - 1 \in 0..Len(q)
        BY <1>6 DEF Search, Chain
      <3>2. QED
        BY <1>4, <1>6, <3>1 DEF Search, Complete
    <2>3. Consistent(p, b, Names(q, Len(q)))
      <3>1. \A w \in Names(q, Len(q)) : w \in Var /\ w # v
        BY <1>2 DEF Names
      <3>2. \A w \in Names(q, Len(q)) : b[w] = a[w]
        BY <1>1, <3>1
      <3>3. QED
        BY <1>6, <3>2 DEF Search, Consistent
    <2>4. QED
      BY <1>1, <1>6, <2>1, <2>2, <2>3 DEF Search
  <1>7. QED
    BY <1>3, <1>4, <1>5, <1>6 DEF b

(* The next level begins with what is left after hiding values.            *)
LEMMA Extend ==
  ASSUME NEW p, NEW s, NEW G, NEW q, NEW a, Search(p, s, G, q, a), NEW e \in CS!Entry,
         NEW t \in Level,
         e.variable \in Var \ Names(q, Len(q)),
         e.pushed = Var \ (Names(q, Len(q)) \cup {e.variable}),
         e.values \subseteq s.dom[e.variable], a[e.variable] \in s.dom[e.variable] \ e.values,
         Popped(t, e.pushed) = s, \A v \in Var : t.dom[v] \subseteq s.dom[v],
         Consistent(p, a, Names(q, Len(q)) \cup {e.variable}),
         \A f \in [Var -> Value] : Solves(p, f) /\ Agrees(f, a, q, Len(q))
         /\ f[e.variable] = a[e.variable] =>
           \A v \in Var \ (Names(q, Len(q)) \cup {e.variable}) : f[v] \in t.dom[v]
  PROVE  Search(p, t, Append(G, t), Append(q, e), a)
  <1>. DEFINE r == Append(q, e)
              H == Append(G, t)
              n == Len(q)
  <1>1. /\ q \in Seq(CS!Entry) /\ G \in Seq(Level) /\ Len(G) = n + 1 /\ n \in Nat /\ G[n + 1] = s
        /\ \A i \in 1..(n + 1), v \in Var : G[i].dom[v] \subseteq p.domain[v]
    BY DEF Search, Chain
  <1>2. /\ r \in Seq(CS!Entry) /\ Len(r) = n + 1 /\ r[n + 1] = e
        /\ \A i \in 1..n : r[i] = q[i]
        /\ \A i \in 0..n : Names(r, i) = Names(q, i)
        /\ Names(r, n + 1) = Names(q, n) \cup {e.variable}
        /\ \A f : \A i \in 0..n : Agrees(f, a, r, i) <=> Agrees(f, a, q, i)
        /\ \A f : Agrees(f, a, r, n + 1) <=> Agrees(f, a, q, n) /\ f[e.variable] = a[e.variable]
    BY <1>1, OneLevel
  <1>3. H \in Seq(Level) /\ Len(H) = n + 2 /\ H[n + 2] = t /\ \A i \in 1..(n + 1) : H[i] = G[i]
    BY <1>1
  <1>. HIDE DEF r, H, n
  <1>4. /\ 1..(n + 1) = 1..n \cup {n + 1} /\ 1..(n + 2) = 1..(n + 1) \cup {n + 2}
        /\ (n + 1) - 1 = n /\ (n + 2) - 1 = n + 1 /\ (n + 1) + 1 = n + 2
        /\ n \in 0..n /\ 1 \in 1..(n + 1) /\ n + 1 \in 1..(n + 1)
        /\ \A i \in 1..n : i - 1 \in 0..n /\ i \in 0..n /\ i + 1 \in 1..(n + 1)
        /\ \A i \in 1..(n + 1) : i - 1 \in 0..n
    BY <1>1
  <1>5. Chain(p, t, H, r)
    <2>1. \A i \in 1..(n + 1) : H[i] = Popped(H[i + 1], r[i].pushed)
      <3>1. \A i \in 1..n : H[i] = Popped(H[i + 1], r[i].pushed)
        BY <1>2, <1>3, <1>4 DEF Search, Chain, n
      <3>2. H[n + 1] = Popped(H[(n + 1) + 1], r[n + 1].pushed)
        <4>1. H[n + 1] = s /\ H[(n + 1) + 1] = t /\ r[n + 1] = e
          BY <1>1, <1>2, <1>3, <1>4
        <4>2. QED
          BY <4>1
      <3>3. QED
        BY <1>4, <3>1, <3>2
    <2>2. \A v \in Var : t.dom[v] \subseteq p.domain[v]
      BY <1>1, <1>4
    <2>3. \A i \in 1..(n + 2), v \in Var : H[i].dom[v] \subseteq p.domain[v]
      BY <1>1, <1>3, <1>4, <2>2
    <2>4. H[1].dom = p.domain
      BY <1>3, <1>4 DEF Search, Chain
    <2>5. Len(H) = Len(r) + 1
      BY <1>1, <1>2, <1>3
    <2>6. QED
      BY <1>2, <1>3, <2>1, <2>3, <2>4, <2>5 DEF Chain
  <1>6. Path(H, r, a)
    <2>1. ASSUME NEW i \in 1..n
          PROVE  /\ r[i].variable \in Var \ Names(r, i - 1) /\ r[i].pushed = Var \ Names(r, i)
                 /\ r[i].values \subseteq H[i].dom[r[i].variable]
                 /\ a[r[i].variable] \in H[i].dom[r[i].variable] \ r[i].values
      <3>1. r[i] = q[i] /\ H[i] = G[i] /\ Names(r, i - 1) = Names(q, i - 1)
              /\ Names(r, i) = Names(q, i)
        BY <1>2, <1>3, <1>4
      <3>2. QED
        BY <3>1 DEF Search, Path, n
    <2>2. /\ r[n + 1].variable \in Var \ Names(r, (n + 1) - 1)
             /\ r[n + 1].pushed = Var \ Names(r, n + 1)
          /\ r[n + 1].values \subseteq H[n + 1].dom[r[n + 1].variable]
          /\ a[r[n + 1].variable] \in H[n + 1].dom[r[n + 1].variable] \ r[n + 1].values
      <3>1. r[n + 1] = e /\ H[n + 1] = s /\ Names(r, (n + 1) - 1) = Names(q, n)
            /\ Names(r, n + 1) = Names(q, n) \cup {e.variable}
        BY <1>1, <1>2, <1>3, <1>4
      <3>2. QED
        BY <3>1 DEF n
    <2>3. QED
      BY <1>2, <1>4, <2>1, <2>2 DEF Path
  <1>7. Complete(p, H, r, a)
    <2>1. ASSUME NEW f \in [Var -> Value], Solves(p, f), NEW i \in 1..(n + 1),
                 Agrees(f, a, r, i - 1),
                 NEW v \in Var \ Names(r, i - 1)
          PROVE  f[v] \in H[i].dom[v]
      <3>1. H[i] = G[i] /\ Names(r, i - 1) = Names(q, i - 1) /\ Agrees(f, a, q, i - 1)
        BY <1>2, <1>3, <1>4, <2>1
      <3>2. QED
        BY <1>1, <2>1, <3>1 DEF Search, Complete
    <2>2. ASSUME NEW f \in [Var -> Value], Solves(p, f), Agrees(f, a, r, (n + 2) - 1),
                 NEW v \in Var \ Names(r, (n + 2) - 1)
          PROVE  f[v] \in H[n + 2].dom[v]
      <3>1. Agrees(f, a, q, n) /\ f[e.variable] = a[e.variable]
            /\ v \in Var \ (Names(q, n) \cup {e.variable})
        BY <1>2, <1>4, <2>2
      <3>2. QED
        BY <1>3, <2>2, <3>1 DEF n
    <2>3. QED
      BY <1>3, <1>4, <2>1, <2>2 DEF Complete
  <1>8. QED
    BY <1>2, <1>5, <1>6, <1>7 DEF Search, r, H, n

(* The last level is left, and what it hid is visible again.               *)
LEMMA Retract ==
  ASSUME NEW p, NEW s, NEW G, NEW r, NEW a, Search(p, s, G, r, a), r # <<>>
  PROVE  LET n == Len(r) - 1
             q == SubSeq(r, 1, n)
             e == r[Len(r)]
         IN  /\ n \in Nat /\ q \in Seq(CS!Entry) /\ Len(q) = n /\ e \in CS!Entry /\ r = Append(q, e)
             /\ Search(p, Popped(s, e.pushed), SubSeq(G, 1, n + 1), q, a)
             /\ e.variable \in Var \ Names(q, n) /\ e.pushed = Var \ (Names(q, n) \cup {e.variable})
             /\ e.values \subseteq Popped(s, e.pushed).dom[e.variable]
             /\ a[e.variable] \notin e.values
  <1>. DEFINE n == Len(r) - 1
              q == SubSeq(r, 1, n)
              e == r[Len(r)]
              H == SubSeq(G, 1, n + 1)
  <1>1. r \in Seq(CS!Entry) /\ G \in Seq(Level) /\ Len(G) = Len(r) + 1
    BY DEF Search, Chain
  <1>2. /\ n \in Nat /\ q \in Seq(CS!Entry) /\ Len(q) = n /\ e \in CS!Entry /\ Len(r) = n + 1
           /\ Len(G) = n + 2
        /\ \A i \in 1..n : q[i] = r[i]
    <2>1. Len(r) \in Nat \ {0}
      BY <1>1, EmptySeq
    <2>2. n \in Nat /\ Len(r) = n + 1 /\ Len(G) = n + 2 /\ Len(r) \in 1..Len(r)
      BY <1>1, <2>1
    <2>3. e \in CS!Entry
      BY <1>1, <2>2
    <2>. HIDE DEF n
    <2>4. q \in Seq(CS!Entry) /\ Len(q) = n /\ \A i \in 1..n : q[i] = r[i]
      BY <1>1, <2>2
    <2>5. QED
      BY <2>2, <2>3, <2>4
  <1>3. r = Append(q, e)
    <2>1. r[n + 1] = e
      BY <1>2
    <2>. HIDE DEF q, e, n
    <2>2. Append(q, e) \in Seq(CS!Entry) /\ Len(Append(q, e)) = Len(r)
      BY <1>2
    <2>3. \A i \in 1..Len(r) : Append(q, e)[i] = r[i]
      BY <1>1, <1>2, <2>1
    <2>4. QED
      BY <1>1, <2>2, <2>3, SeqEqual
  <1>4. H \in Seq(Level) /\ Len(H) = n + 1 /\ \A i \in 1..(n + 1) : H[i] = G[i]
    BY <1>1, <1>2
  <1>. HIDE DEF q, H, e, n
  <1>5. /\ \A i \in 0..n : Names(r, i) = Names(q, i)
        /\ Names(r, n + 1) = Names(q, n) \cup {e.variable}
        /\ \A f : \A i \in 0..n : Agrees(f, a, r, i) <=> Agrees(f, a, q, i)
    BY <1>2, <1>3, OneLevel
  <1>6. /\ 1..(n + 1) = 1..n \cup {n + 1} /\ 1..(n + 1) \subseteq 1..(n + 2)
        /\ (n + 1) - 1 = n /\ (n + 1) + 1 = n + 2
        /\ n \in 0..n /\ 1 \in 1..(n + 1) /\ n + 1 \in 1..(n + 1)
        /\ \A i \in 1..n : i - 1 \in 0..n /\ i \in 0..n /\ i + 1 \in 1..(n + 1) /\ i \in 1..(n + 1)
        /\ \A i \in 1..(n + 1) : i - 1 \in 0..n
    BY <1>2
  <1>7. r[n + 1] = e /\ H[n + 1] = G[n + 1] /\ G[n + 1] = Popped(s, e.pushed)
    <2>1. r[n + 1] = e
      BY <1>2 DEF e
    <2>2. G[n + 1] = Popped(G[(n + 1) + 1], r[n + 1].pushed)
      BY <1>2, <1>6 DEF Search, Chain
    <2>3. G[(n + 1) + 1] = s
      BY <1>2, <1>6 DEF Search, Chain
    <2>4. QED
      BY <1>4, <1>6, <2>1, <2>2, <2>3
  <1>8. Chain(p, Popped(s, e.pushed), H, q)
    <2>1. ASSUME NEW i \in 1..n PROVE H[i] = Popped(H[i + 1], q[i].pushed)
      <3>1. H[i] = G[i] /\ H[i + 1] = G[i + 1] /\ q[i] = r[i]
        BY <1>2, <1>4, <1>6
      <3>2. G[i] = Popped(G[i + 1], r[i].pushed)
        BY <1>2, <1>6 DEF Search, Chain
      <3>3. QED
        BY <3>1, <3>2
    <2>2. \A i \in 1..(n + 1), v \in Var : H[i].dom[v] \subseteq p.domain[v]
      BY <1>2, <1>4, <1>6 DEF Search, Chain
    <2>3. H[1].dom = p.domain
      BY <1>4, <1>6 DEF Search, Chain
    <2>4. QED
      BY <1>2, <1>4, <1>7, <2>1, <2>2, <2>3 DEF Chain
  <1>9. Path(H, q, a)
    <2>1. ASSUME NEW i \in 1..n
          PROVE  /\ q[i].variable \in Var \ Names(q, i - 1) /\ q[i].pushed = Var \ Names(q, i)
                 /\ q[i].values \subseteq H[i].dom[q[i].variable]
                 /\ a[q[i].variable] \in H[i].dom[q[i].variable] \ q[i].values
      <3>1. /\ r[i] = q[i] /\ H[i] = G[i] /\ Names(r, i - 1) = Names(q, i - 1)
               /\ Names(r, i) = Names(q, i)
            /\ i \in 1..Len(r)
        BY <1>2, <1>4, <1>5, <1>6
      <3>2. QED
        BY <3>1 DEF Search, Path
    <2>2. QED
      BY <1>2, <2>1 DEF Path
  <1>10. Complete(p, H, q, a)
    <2>1. ASSUME NEW f \in [Var -> Value], Solves(p, f), NEW i \in 1..(n + 1),
                 Agrees(f, a, q, i - 1),
                 NEW v \in Var \ Names(q, i - 1)
          PROVE  f[v] \in H[i].dom[v]
      <3>1. H[i] = G[i] /\ Names(r, i - 1) = Names(q, i - 1) /\ Agrees(f, a, r, i - 1)
              /\ i \in 1..Len(G)
        BY <1>2, <1>4, <1>5, <1>6, <2>1
      <3>2. QED
        BY <2>1, <3>1 DEF Search, Complete
    <2>2. QED
      BY <1>4, <2>1 DEF Complete
  <1>11. Consistent(p, a, Names(q, n)) /\ a \in [Var -> Value \cup {Nil}]
    BY <1>2, <1>5 DEF Search, Consistent
  <1>12. /\ e.variable \in Var \ Names(q, n) /\ e.pushed = Var \ (Names(q, n) \cup {e.variable})
         /\ e.values \subseteq Popped(s, e.pushed).dom[e.variable] /\ a[e.variable] \notin e.values
    <2>1. /\ r[n + 1].variable \in Var \ Names(r, (n + 1) - 1)
             /\ r[n + 1].pushed = Var \ Names(r, n + 1)
          /\ r[n + 1].values \subseteq G[n + 1].dom[r[n + 1].variable]
          /\ a[r[n + 1].variable] \in G[n + 1].dom[r[n + 1].variable] \ r[n + 1].values
      BY <1>2, <1>6 DEF Search, Path
    <2>2. Names(r, (n + 1) - 1) = Names(q, n)
      BY <1>5, <1>6
    <2>3. QED
      BY <1>5, <1>7, <2>1, <2>2
  <1>13. Search(p, Popped(s, e.pushed), H, q, a)
    BY <1>2, <1>8, <1>9, <1>10, <1>11 DEF Search
  <1>14. QED
    BY <1>2, <1>3, <1>12, <1>13 DEF q, e, H, n

LEMMA AgreesOnNames ==
  ASSUME NEW f, NEW a, NEW q, NEW n
  PROVE  Agrees(f, a, q, n) <=> \A v \in Names(q, n) : f[v] = a[v]
  BY DEF Agrees, Names

(* What may still be found: from what an earlier level has to try, or from *)
(* the current one.                                                        *)
Ahead(f, q, c, a, at) ==
  Open(f, q, a) \/ (Agrees(f, a, q, Len(q)) /\ (at = "try" => f[c.variable] \in c.values))

Listed(p, out) ==
  /\ out \in Seq([Var -> Value]) /\ \A i, j \in DOMAIN out : out[i] = out[j] => i = j
  /\ \A i \in DOMAIN out : Solves(p, out[i])

Found(p, out, q, c, a, at) ==
  \A f \in [Var -> Value] : Solves(p, f) => (f \in Elements(out) <=> ~Ahead(f, q, c, a, at))

(* What is assigned, and what the current level is about.                  *)
Where(s, q, c, a, at) ==
  /\ at = "choose" => \A v \in Var : a[v] # Nil <=> v \in Names(q, Len(q))
  /\ at = "try" => /\ c \in CS!Entry /\ c.variable \in Var \ Names(q, Len(q))
                   /\ c.pushed = Var \ (Names(q, Len(q)) \cup {c.variable})
                   /\ c.values \subseteq s.dom[c.variable]
                   /\ \A v \in Var \ {c.variable} : a[v] # Nil <=> v \in Names(q, Len(q))

(* A solution is found or pending, never both; and what is pending is not  *)
(* hidden.                                                                 *)
SolverInv ==
  /\ Problem(csProblem) /\ Listed(csProblem, csSolutions) /\ csPc \in {"choose", "try", "done"}
  /\ csPc # "done" => \E G : /\ Search(csProblem, Top, G, csQueue, csAssignments)
                             /\ Where(Top, csQueue, csCurrent, csAssignments, csPc)
                             /\ Found(csProblem, csSolutions, csQueue, csCurrent, csAssignments, csPc)
  /\ csPc = "done" => /\ csDomains = csProblem.domain
                      /\ \A f \in [Var -> Value] : Solves(csProblem, f)
                           => f \in Elements(csSolutions)

LEMMA SearchFacts ==
  ASSUME NEW p, NEW s, NEW G, NEW q, NEW a, Search(p, s, G, q, a)
  PROVE  /\ q \in Seq(CS!Entry) /\ Len(q) \in Nat /\ s \in Level /\ a \in [Var -> Value \cup {Nil}]
         /\ Names(q, Len(q)) \in SUBSET Var
         /\ \A f \in [Var -> Value] : Solves(p, f) /\ Agrees(f, a, q, Len(q)) =>
              \A v \in Var \ Names(q, Len(q)) : f[v] \in s.dom[v]
  <1>1. q \in Seq(CS!Entry) /\ Len(q) \in Nat /\ G \in Seq(Level) /\ Len(G) = Len(q) + 1
          /\ G[Len(G)] = s
    BY DEF Search, Chain
  <1>2. Len(G) \in 1..Len(G) /\ Len(G) - 1 = Len(q)
    BY <1>1
  <1>3. s \in Level
    BY <1>1, <1>2
  <1>4. Names(q, Len(q)) \in SUBSET Var
    <2>1. \A i \in 1..Len(q) : q[i] \in CS!Entry
      BY <1>1
    <2>2. QED
      BY <2>1 DEF Names, CS!Entry
  <1>5. \A f \in [Var -> Value] : Solves(p, f) /\ Agrees(f, a, q, Len(q)) =>
          \A v \in Var \ Names(q, Len(q)) : f[v] \in s.dom[v]
    BY <1>1, <1>2 DEF Search, Complete
  <1>6. QED
    BY <1>1, <1>3, <1>4, <1>5 DEF Search

LEMMA TopFacts == Top.dom = csDomains /\ Top.hid = csHidden /\ Top.sts = csStates
  BY DEF Top

LEMMA InitSolver ==
  ASSUME CS!SolverAssumption PROVE CS!Init => SolverInv
  <1>1. SUFFICES ASSUME CS!Init PROVE SolverInv
    OBVIOUS
  <1>2. Problem(csProblem)
    BY <1>1 DEF CS!Init, CS!SolverAssumption, Problem
  <1>3. csQueue = <<>> /\ csSolutions = <<>> /\ csPc = "choose"
          /\ csAssignments = [v \in Var |-> Nil]
        /\ csDomains = csProblem.domain /\ csHidden = [v \in Var |-> <<>>]
             /\ csStates = [v \in Var |-> <<>>]
    BY <1>1 DEF CS!Init
  <1>4. Listed(csProblem, csSolutions) /\ Elements(csSolutions) = {}
    BY <1>3 DEF Listed, Elements
  <1>5. Top \in Level
    BY <1>2, <1>3 DEF Top, Level, Problem
  <1>6. Names(<<>>, 0) = {} /\ Len(<<>>) = 0 /\ <<>> \in Seq(CS!Entry) /\ \A f,
          a : Agrees(f, a, <<>>, 0)
    BY DEF Names, Agrees
  <1>. DEFINE G == <<Top>>
  <1>7. G \in Seq(Level) /\ Len(G) = 1 /\ G[1] = Top
    BY <1>5
  <1>. HIDE DEF G
  <1>8. Chain(csProblem, Top, G, <<>>)
    BY <1>3, <1>6, <1>7, TopFacts DEF Chain
  <1>9. Path(G, <<>>, csAssignments) /\ Consistent(csProblem, csAssignments, {})
    BY DEF Path, Consistent
  <1>10. Complete(csProblem, G, <<>>, csAssignments)
    <2>1. 1..1 = {1} /\ 1 - 1 = 0
      OBVIOUS
    <2>2. QED
      BY <1>3, <1>7, <2>1, TopFacts DEF Complete, Solves
  <1>11. csAssignments \in [Var -> Value \cup {Nil}]
    BY <1>3
  <1>12. Search(csProblem, Top, G, csQueue, csAssignments)
    BY <1>3, <1>6, <1>8, <1>9, <1>10, <1>11 DEF Search
  <1>13. Where(Top, csQueue, csCurrent, csAssignments, csPc)
    BY <1>3, <1>6 DEF Where
  <1>14. Found(csProblem, csSolutions, csQueue, csCurrent, csAssignments, csPc)
    BY <1>3, <1>4, <1>6 DEF Found, Ahead
  <1>15. QED
    BY <1>2, <1>3, <1>4, <1>12, <1>13, <1>14 DEF SolverInv

LEMMA StepChoose ==
  ASSUME CS!SolverAssumption, SolverInv, CS!Choose PROVE SolverInv'
  <1>1. PICK v \in Var : /\ CS!Chooses(v)
                         /\ csCurrent' = [variable |-> v, values |-> csDomains[v],
                                          pushed |-> CS!Unassigned \ {v}]
    BY DEF CS!Choose
  <1>2. csPc = "choose" /\ csPc' = "try"
        /\ UNCHANGED <<csProblem, csDomains, csHidden, csStates, csAssignments, csQueue,
                       csSolutions>>
    BY DEF CS!Choose
  <1>3. PICK G : /\ Search(csProblem, Top, G, csQueue, csAssignments)
                 /\ Where(Top, csQueue, csCurrent, csAssignments, csPc)
                 /\ Found(csProblem, csSolutions, csQueue, csCurrent, csAssignments, csPc)
    BY <1>2 DEF SolverInv
  <1>. DEFINE N == Names(csQueue, Len(csQueue))
              c == [variable |-> v, values |-> csDomains[v], pushed |-> CS!Unassigned \ {v}]
  <1>4. CS!Unassigned = Var \ N /\ v \in Var \ N
    BY <1>1, <1>2, <1>3 DEF Where, CS!Unassigned, CS!Chooses
  <1>5. /\ Top \in Level /\ \A f \in [Var -> Value] : Solves(csProblem, f)
           /\ Agrees(f, csAssignments, csQueue, Len(csQueue)) =>
             \A w \in Var \ N : f[w] \in csDomains[w]
    BY <1>3, SearchFacts, TopFacts
  <1>6. c.variable = v /\ c.values = csDomains[v] /\ c.pushed = Var \ (N \cup {v}) /\ c \in CS!Entry
    <2>1. csDomains[v] \subseteq Value
      BY <1>5, TopFacts DEF Level
    <2>2. QED
      BY <1>4, <2>1 DEF CS!Entry
  <1>. HIDE DEF c, N
  <1>7. Where(Top, csQueue, c, csAssignments, "try")
    BY <1>2, <1>3, <1>4, <1>6, TopFacts DEF Where, N
  <1>8. Found(csProblem, csSolutions, csQueue, c, csAssignments, "try")
    BY <1>2, <1>3, <1>4, <1>5, <1>6 DEF Found, Ahead
  <1>9. csCurrent' = c /\ Top' = Top
    BY <1>1, <1>2 DEF c, Top
  <1>10. QED
    BY <1>2, <1>3, <1>7, <1>8, <1>9 DEF SolverInv

LEMMA PopIs ==
  ASSUME NEW V, CS!PopState(V) PROVE Top' = Popped(Top, V)
  <1>1. \A v : CS!Shown(v) = ShownIn(Top, v)
    BY SolverCardinality DEF CS!Shown, CS!Last, ShownIn, ShownOf, Top
  <1>2. \A s : CS!Range(s) = Elements(s) /\ CS!Front(s) = SubSeq(s, 1, Len(s) - 1)
    BY DEF CS!Range, Elements, CS!Front
  <1>3. /\ csDomains' = [v \in Var |-> IF v \in V THEN csDomains[v] \cup Elements(ShownIn(Top,
                         v)) ELSE csDomains[v]]
        /\ csHidden' = [v \in Var |-> IF v \in V THEN SubSeq(csHidden[v], 1,
                        Len(csHidden[v]) - Len(ShownIn(Top, v)))
                                      ELSE csHidden[v]]
        /\ csStates' = [v \in Var |-> IF v \in V THEN SubSeq(csStates[v], 1,
                        Len(csStates[v]) - 1) ELSE csStates[v]]
    BY <1>1, <1>2 DEF CS!PopState
  <1>4. QED
    BY <1>3, TopFacts DEF Popped, Top

(* The level before is resumed: with b assigned, which leaves its variable *)
(* as it was, and everything found that was ahead only further on.         *)
LEMMA Resumes ==
  ASSUME CS!SolverAssumption, Problem(csProblem), NEW G, NEW b, NEW out, CS!Resume,
         Search(csProblem, Top, G, csQueue, b), csQueue # <<>>, Listed(csProblem, out),
         \A v \in Var : b[v] # Nil <=> v \in Names(csQueue, Len(csQueue)),
         \A f \in [Var -> Value] : Solves(csProblem, f)
         => (f \in Elements(out) <=> ~Open(f, csQueue, b)),
         UNCHANGED csProblem, csAssignments' = b, csSolutions' = out, csPc' = "try"
  PROVE  SolverInv'
  <1>. DEFINE n == Len(csQueue) - 1
              q == SubSeq(csQueue, 1, n)
              e == csQueue[Len(csQueue)]
              H == SubSeq(G, 1, n + 1)
  <1>1. /\ n \in Nat /\ q \in Seq(CS!Entry) /\ Len(q) = n /\ e \in CS!Entry
           /\ csQueue = Append(q, e)
        /\ Search(csProblem, Popped(Top, e.pushed), H, q, b)
        /\ e.variable \in Var \ Names(q, n) /\ e.pushed = Var \ (Names(q, n) \cup {e.variable})
        /\ e.values \subseteq Popped(Top, e.pushed).dom[e.variable]
        /\ b[e.variable] \notin e.values
    BY Retract
  <1>2. csCurrent' = e /\ csQueue' = q /\ CS!PopState(e.pushed)
    BY DEF CS!Resume, CS!Last, CS!Front
  <1>. HIDE DEF q, e, H, n
  <1>3. Top' = Popped(Top, e.pushed)
    BY <1>2, PopIs
  <1>4. Names(csQueue, Len(csQueue)) = Names(q, n) \cup {e.variable}
        /\ \A f : Open(f, csQueue, b) <=> Open(f, q, b)
             \/ (Agrees(f, b, q, n) /\ f[e.variable] \in e.values)
    <2>1. Len(csQueue) = n + 1
      BY <1>1
    <2>2. QED
      BY <1>1, <2>1, OneLevel
  <1>5. Where(Popped(Top, e.pushed), q, e, b, "try")
    BY <1>1, <1>4 DEF Where
  <1>6. Found(csProblem, out, q, e, b, "try")
    BY <1>1, <1>4 DEF Found, Ahead
  <1>7. Search(csProblem', Top', H, csQueue', csAssignments')
    BY <1>1, <1>2, <1>3
  <1>8. Where(Top', csQueue', csCurrent', csAssignments', csPc')
    BY <1>2, <1>3, <1>5
  <1>9. Found(csProblem', csSolutions', csQueue', csCurrent', csAssignments', csPc')
    BY <1>2, <1>6
  <1>10. QED
    BY <1>7, <1>8, <1>9 DEF SolverInv

(* What has a value for every variable, and has broken nothing, solves the *)
(* problem.                                                                *)
LEMMA AllAssigned ==
  ASSUME NEW p, Problem(p), CS!SolverAssumption, NEW s, NEW G, NEW q, NEW a, Search(p, s, G, q, a),
         Names(q, Len(q)) = Var
  PROVE  a \in [Var -> Value] /\ Solves(p, a) /\ ~Open(a, q, a)
  <1>1. ASSUME NEW v \in Var PROVE a[v] \in p.domain[v]
    <2>1. PICK i \in 1..Len(q) : q[i].variable = v
      BY DEF Names
    <2>2. a[v] \in G[i].dom[v] /\ i \in 1..Len(G)
      BY <2>1 DEF Search, Path, Chain
    <2>3. QED
      BY <2>2 DEF Search, Chain
  <1>2. a \in [Var -> Value]
    BY <1>1 DEF Search, Problem
  <1>3. \A v \in Var : p.parent[v] # Nil => p.parent[v] \in Var
    BY DEF Problem
  <1>4. Solves(p, a)
    BY <1>1, <1>3 DEF Search, Consistent, Solves
  <1>5. ~Open(a, q, a)
    BY DEF Search, Path, Open
  <1>6. QED
    BY <1>2, <1>4, <1>5

LEMMA StepYield ==
  ASSUME CS!SolverAssumption, SolverInv, CS!Yield PROVE SolverInv'
  <1>1. /\ csPc = "choose" /\ CS!Unassigned = {}
           /\ csSolutions' = Append(csSolutions, csAssignments) /\ CS!Resume
        /\ csPc' = "try" /\ UNCHANGED <<csProblem, csAssignments>>
    BY DEF CS!Yield
  <1>2. PICK G : /\ Search(csProblem, Top, G, csQueue, csAssignments)
                 /\ Where(Top, csQueue, csCurrent, csAssignments, csPc)
                 /\ Found(csProblem, csSolutions, csQueue, csCurrent, csAssignments, csPc)
    BY <1>1 DEF SolverInv
  <1>. DEFINE a == csAssignments
              out == Append(csSolutions, a)
  <1>3. Problem(csProblem) /\ Listed(csProblem, csSolutions)
    BY DEF SolverInv
  <1>4. csQueue \in Seq(CS!Entry) /\ Names(csQueue, Len(csQueue)) \in SUBSET Var
        /\ \A v \in Var : a[v] # Nil <=> v \in Names(csQueue, Len(csQueue))
    BY <1>1, <1>2, SearchFacts DEF Where
  <1>5. Names(csQueue, Len(csQueue)) = Var
    BY <1>1, <1>4 DEF CS!Unassigned
  <1>6. csQueue # <<>>
    BY <1>5 DEF Names, CS!SolverAssumption
  <1>7. a \in [Var -> Value] /\ Solves(csProblem, a) /\ ~Open(a, csQueue, a)
    BY <1>2, <1>3, <1>5, AllAssigned
  <1>8. \A f \in [Var -> Value] : Agrees(f, a, csQueue, Len(csQueue)) <=> f = a
    BY <1>5, <1>7, AgreesOnNames
  <1>9. a \notin Elements(csSolutions)
    BY <1>1, <1>2, <1>7, <1>8 DEF Found, Ahead
  <1>10. /\ out \in Seq([Var -> Value]) /\ Len(out) = Len(csSolutions) + 1
            /\ out[Len(csSolutions) + 1] = a
         /\ \A i \in DOMAIN csSolutions : out[i] = csSolutions[i]
         /\ DOMAIN out = DOMAIN csSolutions \cup {Len(csSolutions) + 1}
    BY <1>3, <1>7 DEF Listed
  <1>. HIDE DEF out
  <1>11. Listed(csProblem, out)
    BY <1>3, <1>7, <1>9, <1>10 DEF Listed, Elements
  <1>12. Elements(out) = Elements(csSolutions) \cup {a}
    BY <1>10 DEF Elements
  <1>13. ASSUME NEW f \in [Var -> Value], Solves(csProblem, f)
         PROVE  f \in Elements(out) <=> ~Open(f, csQueue, a)
    BY <1>1, <1>2, <1>7, <1>8, <1>12, <1>13 DEF Found, Ahead
  <1>14. csSolutions' = out
    BY <1>1 DEF out
  <1>15. QED
    BY <1>1, <1>2, <1>3, <1>4, <1>6, <1>11, <1>13, <1>14, Resumes

LEMMA StepBack ==
  ASSUME CS!SolverAssumption, SolverInv, CS!Back PROVE SolverInv'
  <1>. DEFINE v == csCurrent.variable
              b == [csAssignments EXCEPT ![v] = Nil]
              N == Names(csQueue, Len(csQueue))
  <1>1. /\ csPc = "try" /\ csCurrent.values = {} /\ csAssignments' = b
        /\ UNCHANGED <<csProblem, csSolutions>>
        /\ IF csQueue = <<>> THEN csPc' = "done" /\ UNCHANGED csDomains ELSE CS!Resume
             /\ UNCHANGED csPc
    BY DEF CS!Back
  <1>2. PICK G : /\ Search(csProblem, Top, G, csQueue, csAssignments)
                 /\ Where(Top, csQueue, csCurrent, csAssignments, csPc)
                 /\ Found(csProblem, csSolutions, csQueue, csCurrent, csAssignments, csPc)
    BY <1>1 DEF SolverInv
  <1>3. Problem(csProblem) /\ Listed(csProblem, csSolutions)
    BY DEF SolverInv
  <1>4. csQueue \in Seq(CS!Entry) /\ N \in SUBSET Var /\ csAssignments \in [Var -> Value \cup {Nil}]
    BY <1>2, SearchFacts
  <1>5. v \in Var \ N /\ \A w \in Var \ {v} : csAssignments[w] # Nil <=> w \in N
    BY <1>1, <1>2 DEF Where
  <1>6. Search(csProblem, Top, G, csQueue, b)
          /\ \A f : Open(f, csQueue, b) <=> Open(f, csQueue, csAssignments)
    BY <1>2, <1>4, <1>5, Reassign
  <1>7. \A w \in Var : b[w] # Nil <=> w \in N
    BY <1>4, <1>5
  <1>8. \A f \in [Var -> Value] : Solves(csProblem, f)
        => (f \in Elements(csSolutions) <=> ~Open(f, csQueue, b))
    BY <1>1, <1>2, <1>6 DEF Found, Ahead
  <1>. HIDE DEF b, v, N
  <1>9. CASE csQueue # <<>>
    <2>1. CS!Resume /\ csPc' = "try" /\ csSolutions' = csSolutions
      BY <1>1, <1>9
    <2>2. QED
      BY <1>1, <1>3, <1>6, <1>7, <1>8, <1>9, <2>1, Resumes DEF N
  <1>10. CASE csQueue = <<>>
    <2>1. \A f : ~Open(f, csQueue, b)
      BY <1>10 DEF Open
    <2>2. csDomains = csProblem.domain
      <3>1. Len(G) = 1
        BY <1>2, <1>10 DEF Search, Chain
      <3>2. QED
        BY <1>2, <3>1, TopFacts DEF Search, Chain
    <2>3. QED
      BY <1>1, <1>3, <1>8, <1>10, <2>1, <2>2 DEF SolverInv
  <1>11. QED
    BY <1>9, <1>10

LEMMA StepTry ==
  ASSUME CS!SolverAssumption, SolverInv, CS!Try PROVE SolverInv'
  <1>. DEFINE v == csCurrent.variable
              N == Names(csQueue, Len(csQueue))
              P == csCurrent.pushed
  <1>1. PICK x \in csCurrent.values :
          LET b == [csAssignments EXCEPT ![v] = x]
              H == CS!Hides(b, v)
              entry == [csCurrent EXCEPT !.values = @ \ {x}]
          IN  /\ csAssignments' = b
              /\ IF CS!Broken(b, v) \/ \E w \in P : csDomains[w] \subseteq H[w]
                 THEN csCurrent' = entry
                 /\ UNCHANGED <<csDomains, csHidden, csStates, csQueue, csPc>>
                 ELSE /\ CS!PushAndHide(P, H)
                      /\ csQueue' = Append(csQueue, entry) /\ csCurrent' = Nil /\ csPc' = "choose"
    BY DEF CS!Try
  <1>. DEFINE b == [csAssignments EXCEPT ![v] = x]
              H == CS!Hides(b, v)
              entry == [csCurrent EXCEPT !.values = @ \ {x}]
              empties == \E w \in P : csDomains[w] \subseteq H[w]
  <1>2. csPc = "try" /\ UNCHANGED <<csProblem, csSolutions>>
    BY DEF CS!Try
  <1>3. PICK G : /\ Search(csProblem, Top, G, csQueue, csAssignments)
                 /\ Where(Top, csQueue, csCurrent, csAssignments, csPc)
                 /\ Found(csProblem, csSolutions, csQueue, csCurrent, csAssignments, csPc)
    BY <1>2 DEF SolverInv
  <1>4. Problem(csProblem) /\ Listed(csProblem, csSolutions)
    BY DEF SolverInv
  <1>5. /\ csQueue \in Seq(CS!Entry) /\ N \in SUBSET Var
           /\ csAssignments \in [Var -> Value \cup {Nil}]
        /\ Top \in Level /\ Len(csQueue) \in 0..Len(csQueue)
        /\ \A f \in [Var -> Value] : Solves(csProblem, f)
             /\ Agrees(f, csAssignments, csQueue, Len(csQueue)) =>
              \A w \in Var \ N : f[w] \in csDomains[w]
    BY <1>3, SearchFacts, TopFacts
  <1>6. /\ v \in Var \ N /\ \A w \in Var \ {v} : csAssignments[w] # Nil <=> w \in N
        /\ csCurrent \in CS!Entry /\ P = Var \ (N \cup {v})
             /\ csCurrent.values \subseteq csDomains[v]
    BY <1>2, <1>3, TopFacts DEF Where
  <1>7. x \in Value /\ x # Nil /\ x \in csDomains[v]
    BY <1>6 DEF CS!Entry, CS!SolverAssumption
  <1>8. /\ entry \in CS!Entry /\ entry.variable = v /\ entry.pushed = P
           /\ entry.values = csCurrent.values \ {x}
    BY <1>6 DEF CS!Entry
  <1>9. b \in [Var -> Value \cup {Nil}] /\ b[v] = x /\ \A w \in Var \ {v} : b[w] = csAssignments[w]
    BY <1>5, <1>6, <1>7
  <1>10. \A w \in Var : b[w] # Nil <=> w \in N \cup {v}
    BY <1>6, <1>7, <1>9
  <1>11. /\ \A f : Agrees(f, b, csQueue, Len(csQueue)) <=> Agrees(f, csAssignments, csQueue, Len(csQueue))
         /\ \A f : Open(f, csQueue, b) <=> Open(f, csQueue, csAssignments)
         /\ Search(csProblem, Top, G, csQueue, b)
    BY <1>3, <1>5, <1>6, <1>7, Reassign
  <1>12. ASSUME NEW f \in [Var -> Value], Solves(csProblem, f)
         PROVE  f \in Elements(csSolutions) <=>
                  ~(Open(f, csQueue, b) \/ (Agrees(f, b, csQueue, Len(csQueue)) /\ f[v] \in csCurrent.values))
    BY <1>2, <1>3, <1>11, <1>12 DEF Found, Ahead
  <1>. HIDE DEF b, H, entry, N, P, v
  <1>13. ASSUME NEW f \in [Var -> Value], Solves(csProblem, f),
                Agrees(f, b, csQueue, Len(csQueue)), f[v] = x
         PROVE  ~CS!Broken(b, v) /\ \A w \in P : f[w] \in csDomains[w] /\ f[w] \notin H[w]
    <2>1. \A w \in N \cup {v} : f[w] = b[w]
      BY <1>9, <1>13, AgreesOnNames DEF N
    <2>2. ~CS!Broken(b, v) /\ \A w \in Var \ (N \cup {v}) : f[w] \notin H[w]
      BY <1>4, <1>5, <1>6, <1>9, <1>10, <1>13, <2>1, CheckIsSound DEF H
    <2>3. \A w \in Var \ N : f[w] \in csDomains[w]
      BY <1>5, <1>11, <1>13
    <2>4. QED
      BY <1>6, <2>2, <2>3
  <1>14. CASE CS!Broken(b, v) \/ empties
    <2>1. /\ csAssignments' = b /\ csCurrent' = entry
          /\ UNCHANGED <<csDomains, csHidden, csStates, csQueue, csPc>>
      BY <1>1, <1>14 DEF b, H, entry, P, v
    <2>2. Top' = Top
      BY <2>1 DEF Top
    <2>3. Where(Top, csQueue, entry, b, "try")
      BY <1>6, <1>8, <1>10, TopFacts DEF Where, N
    <2>4. \A f \in [Var -> Value] : Solves(csProblem, f) /\ Agrees(f, b, csQueue, Len(csQueue))
          => f[v] # x
      BY <1>13, <1>14
    <2>5. Found(csProblem, csSolutions, csQueue, entry, b, "try")
      BY <1>8, <1>12, <2>4 DEF Found, Ahead
    <2>6. csPc' = "try"
      BY <1>2, <2>1
    <2>7. QED
      BY <1>2, <1>4, <1>11, <2>1, <2>2, <2>3, <2>5, <2>6 DEF SolverInv
  <1>15. CASE ~CS!Broken(b, v) /\ ~empties
    <2>1. /\ csAssignments' = b /\ CS!PushAndHide(P, H)
          /\ csQueue' = Append(csQueue, entry) /\ csPc' = "choose"
      BY <1>1, <1>15 DEF b, H, entry, P, v
    <2>2. /\ \A w \in N \cup {v} : H[w] = {}
          /\ Consistent(csProblem, b, N) => Consistent(csProblem, b, N \cup {v})
      BY <1>4, <1>5, <1>6, <1>9, <1>10, <1>15, CheckFacts DEF H
    <2>3. Top' \in Level /\ Popped(Top', P) = Top
      <3>. DEFINE M == [dom |-> [w \in Var |-> Top.dom[w] \ H[w]],
                        hid |-> [w \in Var |-> Top.hid[w] \o CS!SetToSeq(Top.dom[w] \cap H[w])],
                        sts |-> [w \in Var |-> IF w \in P THEN Append(Top.sts[w],
                                 Cardinality(Top.dom[w]))
                                               ELSE Top.sts[w]]]
      <3>1. IsFiniteSet(Value)
        BY DEF CS!SolverAssumption, CS!IsFiniteSet, IsFiniteSet
      <3>2. P \in SUBSET Var /\ \A w \in Var \ P : H[w] = {}
        BY <1>6, <2>2
      <3>3. M \in Level /\ Popped(M, P) = Top
        BY <1>5, <3>1, <3>2, PushPop
      <3>4. Top' = M
        BY <2>1, SolverCardinality, TopFacts DEF CS!PushAndHide, Top
      <3>5. QED
        BY <3>3, <3>4
    <2>4. \A w \in Var : csDomains'[w] = csDomains[w] \ H[w]
      BY <2>1 DEF CS!PushAndHide
    <2>5. Top'.dom = csDomains' /\ Top.dom = csDomains
      BY DEF Top
    <2>6. ASSUME NEW f \in [Var -> Value], Solves(csProblem, f),
                 Agrees(f, b, csQueue, Len(csQueue)), f[v] = b[v],
                 NEW w \in Var \ (N \cup {v})
          PROVE  f[w] \in Top'.dom[w]
      BY <1>6, <1>9, <1>13, <2>4, <2>5, <2>6
    <2>7. Consistent(csProblem, b, N \cup {v})
      BY <1>11, <2>2 DEF Search, N
    <2>8. /\ entry.variable \in Var \ N /\ entry.pushed = Var \ (N \cup {entry.variable})
          /\ entry.values \subseteq Top.dom[entry.variable]
          /\ b[entry.variable] \in Top.dom[entry.variable] \ entry.values
          /\ \A w \in Var : Top'.dom[w] \subseteq Top.dom[w]
          /\ Popped(Top', entry.pushed) = Top
      BY <1>6, <1>7, <1>8, <1>9, <2>3, <2>4, <2>5
    <2>9. Search(csProblem, Top', Append(G, Top'), Append(csQueue, entry), b)
      BY <1>8, <1>11, <2>3, <2>6, <2>7, <2>8, Extend DEF N
    <2>10. LET r == Append(csQueue, entry) IN
           /\ Names(r, Len(r)) = N \cup {v}
           /\ \A f : Agrees(f, b, r, Len(r)) <=> Agrees(f, b, csQueue, Len(csQueue)) /\ f[v] = b[v]
           /\ \A f : Open(f, r, b) <=>
                Open(f, csQueue, b)
                \/ (Agrees(f, b, csQueue, Len(csQueue)) /\ f[v] \in entry.values)
      <3>. DEFINE r == Append(csQueue, entry)
      <3>1. /\ Len(r) = Len(csQueue) + 1
            /\ Names(r, Len(csQueue) + 1) = Names(csQueue, Len(csQueue)) \cup {entry.variable}
            /\ \A f : Agrees(f, b, r, Len(csQueue) + 1) <=>
                 Agrees(f, b, csQueue, Len(csQueue)) /\ f[entry.variable] = b[entry.variable]
            /\ \A f : Open(f, r, b) <=>
                 Open(f, csQueue, b)
                 \/ (Agrees(f, b, csQueue, Len(csQueue)) /\ f[entry.variable] \in entry.values)
        <4>1. csQueue \in Seq(CS!Entry) /\ entry \in CS!Entry
          BY <1>5, <1>8
        <4>2. /\ Len(r) = Len(csQueue) + 1
              /\ Names(r, Len(csQueue) + 1) = Names(csQueue, Len(csQueue)) \cup {entry.variable}
          BY <4>1, OneLevel
        <4>3. \A f, a : Agrees(f, a, r, Len(csQueue) + 1) <=>
                Agrees(f, a, csQueue, Len(csQueue)) /\ f[entry.variable] = a[entry.variable]
          BY <4>1, OneLevel
        <4>4. \A f, a : Open(f, r, a) <=>
                Open(f, csQueue, a)
                \/ (Agrees(f, a, csQueue, Len(csQueue)) /\ f[entry.variable] \in entry.values)
          BY <4>1, OneLevel
        <4>. HIDE DEF r
        <4>5. QED
          BY <4>2, <4>3, <4>4
      <3>. HIDE DEF r
      <3>2. QED
        BY <1>8, <3>1 DEF N, r
    <2>11. Where(Top', Append(csQueue, entry), Nil, b, "choose")
      BY <1>10, <2>10 DEF Where
    <2>12. Found(csProblem, csSolutions, Append(csQueue, entry), Nil, b, "choose")
      BY <1>8, <1>9, <1>12, <2>10 DEF Found, Ahead
    <2>13. csCurrent' = Nil
      BY <1>1, <1>15 DEF b, H, entry, P, v
    <2>14. QED
      BY <1>2, <1>4, <2>1, <2>9, <2>11, <2>12, <2>13 DEF SolverInv
  <1>16. QED
    BY <1>14, <1>15

(* The search ends with every solution, each of them once, and with the    *)
(* domains as they were: hiding values loses no solution, and what was     *)
(* hidden on the way to one is visible again for the next (getSolutionIter,*)
(* hideValue, popState), in any order of values and for any forest of      *)
(* devices and sites.                                                      *)
THEOREM SolverIsExact == CS!Spec => []SolutionsExact
  <1>1. CS!SolverAssumption
    BY SuiteAssumption
  <1>2. SolverInv /\ [CS!Next]_(CS!vars) => SolverInv'
    <2>1. SUFFICES ASSUME SolverInv, [CS!Next]_(CS!vars) PROVE SolverInv'
      OBVIOUS
    <2>2. CASE CS!Next
      BY <1>1, <2>1, <2>2, StepChoose, StepYield, StepTry, StepBack DEF CS!Next
    <2>3. CASE UNCHANGED CS!vars
      <3>1. Top' = Top
        BY <2>3 DEF CS!vars, Top
      <3>2. QED
        BY <2>1, <2>3, <3>1 DEF SolverInv, CS!vars
    <2>4. QED
      BY <2>1, <2>2, <2>3
  <1>3. SolverInv => SolutionsExact
    <2>1. SUFFICES ASSUME SolverInv, csPc = "done"
                   PROVE  /\ CS!Range(csSolutions) = {f \in [Var -> Value] : CS!Solution(f)}
                          /\ Len(csSolutions) = CS!Cardinality(CS!Range(csSolutions))
                          /\ csDomains = csProblem.domain
      BY DEF SolutionsExact, CS!SolutionsExact
    <2>2. CS!Range(csSolutions) = Elements(csSolutions)
      BY DEF CS!Range, Elements
    <2>3. \A f : CS!Solution(f) <=> Solves(csProblem, f)
      BY <2>1, SolvesIsSolution DEF SolverInv
    <2>4. Elements(csSolutions) = {f \in [Var -> Value] : CS!Solution(f)}
      BY <2>1, <2>3 DEF SolverInv, Listed, Elements
    <2>5. Cardinality(Elements(csSolutions)) = Len(csSolutions)
      <3>. DEFINE n == Len(csSolutions)
      <3>1. /\ csSolutions \in [1..n -> Elements(csSolutions)] /\ n \in Nat
            /\ \A i \in 1..n : \A j \in 1..n : csSolutions[i] = csSolutions[j] => i = j
            /\ \A f \in Elements(csSolutions) : \E k \in 1..n : csSolutions[k] = f
        BY <2>1 DEF SolverInv, Listed, Elements
      <3>. HIDE DEF n
      <3>2. csSolutions \in Bijection(1..n, Elements(csSolutions))
        <4>1. csSolutions \in Injection(1..n, Elements(csSolutions))
          BY <3>1 DEF Injection, IsInjective
        <4>2. csSolutions \in Surjection(1..n, Elements(csSolutions))
          BY <3>1 DEF Surjection
        <4>3. QED
          BY <4>1, <4>2 DEF Bijection
      <3>3. IsFiniteSet(1..n) /\ Cardinality(1..n) = n
        BY <3>1, FS_Interval
      <3>4. QED
        BY <3>2, <3>3, FS_Bijection DEF ExistsBijection, n
    <2>6. QED
      BY <2>1, <2>2, <2>4, <2>5, SolverCardinality DEF SolverInv
  <1>4. CS!Init => SolverInv
    BY <1>1, InitSolver
  <1>5. QED
    BY <1>2, <1>3, <1>4, PTL DEF CS!Spec
===============================================================================
