---------------------------- MODULE PlatformMonitor ----------------------------
(***************************************************************************)
(* The monitoring of a platform's attributes:                              *)
(* ion/agents/platform/resource_monitor.py, platform_resource_monitor.py.  *)
(*                                                                         *)
(* A monitor for each rate asks the platform for the values that are new   *)
(* since the last one it got, and fills buffers that one publisher         *)
(* empties.  An object is started once and stopped once: the agent makes a *)
(* new one for each time it monitors.                                      *)
(***************************************************************************)
EXTENDS Naturals, Sequences, FiniteSets

CONSTANTS
  Attr,       \* attributes, each with a rate, and so a monitor, of its own
  Window,     \* how far back a monitor asks (_MULT_INTERVAL times its rate)
  MaxTime,    \* bound: the platform has one value of each attribute at 1..MaxTime
  Nil

AttrAssumption == IsFiniteSet(Attr) /\ Nil \notin Attr
TimeAssumption == Window \in Nat \ {0} /\ MaxTime \in Nat

VARIABLES
  phase,      \* the object: none, on, stopping (until it has the lock), off
  now,        \* the clock
  mon,        \* what the monitor of an attribute does: sleep, ask, lock (it waits for it), end
  from,       \* the time a monitor asks from
  got,        \* the values a monitor has in hand, by their times
  last,       \* _last_ts_millis, 0 for None
  buffer,     \* _buffers, by their times
  publisher,  \* sleep, notify (it has the lock and the values are on their way), end
  sent,       \* history: times of an attribute's values in the order published
  skipped     \* history: times that fell out of the window before they were asked for

vars == <<phase, now, mon, from, got, last, buffer, publisher, sent, skipped>>

Time == 1..MaxTime
TypeOK ==
  /\ phase \in {"none", "on", "stopping", "off"} /\ now \in 0..MaxTime
  /\ mon \in [Attr -> {"sleep", "ask", "lock", "end"}]
  /\ from \in [Attr -> 0..(MaxTime + 1)] /\ last \in [Attr -> 0..MaxTime]
  /\ got \in [Attr -> SUBSET Time] /\ buffer \in [Attr -> SUBSET Time]
  /\ publisher \in {"sleep", "notify", "end"}
  /\ sent \in [Attr -> Seq(Time)] /\ skipped \in [Attr -> SUBSET Time]

Init ==
  /\ phase = "none" /\ now = 0
  /\ mon = [a \in Attr |-> "end"] /\ from = [a \in Attr |-> 0] /\ got = [a \in Attr |-> {}]
  /\ last = [a \in Attr |-> 0] /\ buffer = [a \in Attr |-> {}]
  /\ publisher = "end"
  /\ sent = [a \in Attr |-> <<>>] /\ skipped = [a \in Attr |-> {}]

Tick == now < MaxTime /\ now' = now + 1
        /\ UNCHANGED <<phase, mon, from, got, last, buffer, publisher, sent, skipped>>

StartMonitoring ==
  /\ phase = "none" /\ phase' = "on"
  /\ mon' = [a \in Attr |-> "sleep"] /\ publisher' = "sleep"
  /\ UNCHANGED <<now, from, got, last, buffer, sent, skipped>>

Unlocked == publisher # "notify"

(* The flags go down at once; the buffers are cleared with the lock.       *)
Stop == phase = "on" /\ phase' = "stopping"
        /\ UNCHANGED <<now, mon, from, got, last, buffer, publisher, sent, skipped>>
Stopped ==
  /\ phase = "stopping" /\ Unlocked /\ phase' = "off"
  /\ buffer' = [a \in Attr |-> {}]
  /\ UNCHANGED <<now, mon, from, got, last, publisher, sent, skipped>>

-----------------------------------------------------------------------------
(* Monitors                                                                *)

Oldest == IF now > Window THEN now - Window ELSE 1

(* Mutant: the next request starts at the last value again.                *)
AskAgain(a) ==
  /\ mon[a] = "sleep"
  /\ mon' = [mon EXCEPT ![a] = IF phase = "on" THEN "ask" ELSE "end"]
  /\ from' = [from EXCEPT ![a] = IF last[a] > Oldest THEN last[a] ELSE Oldest]
  /\ UNCHANGED <<phase, now, got, last, buffer, publisher, sent, skipped>>

(* The rate has passed: _retrieve_attribute_values asks from after the     *)
(* last value, but not from before the window.                             *)
Ask(a) ==
  /\ mon[a] = "sleep"
  /\ mon' = [mon EXCEPT ![a] = IF phase = "on" THEN "ask" ELSE "end"]
  /\ from' = [from EXCEPT ![a] = IF last[a] # 0 /\ last[a] >= Oldest THEN last[a] + 1 ELSE Oldest]
  /\ skipped' = [skipped EXCEPT ![a] = IF last[a] = 0 THEN {} ELSE @ \cup {t \in Time : last[a] < t /\ t < from'[a]}]
  /\ UNCHANGED <<phase, now, got, last, buffer, publisher, sent>>

(* The answer: values up to now.  Without any, or with an exception, the   *)
(* monitor sleeps again.  The last time is noted before the values are     *)
(* handed over.                                                            *)
Retrieved(a) ==
  LET new == {t \in Time : from[a] <= t /\ t <= now} IN
  /\ mon[a] = "ask"
  /\ IF new = {} THEN /\ mon' = [mon EXCEPT ![a] = "sleep"] /\ UNCHANGED <<got, last>>
     ELSE /\ mon' = [mon EXCEPT ![a] = "lock"]
          /\ got' = [got EXCEPT ![a] = new] /\ last' = [last EXCEPT ![a] = now]
  /\ UNCHANGED <<phase, now, from, buffer, publisher, sent, skipped>>
RetrievalFails(a) ==
  /\ mon[a] = "ask" /\ mon' = [mon EXCEPT ![a] = "sleep"]
  /\ UNCHANGED <<phase, now, from, got, last, buffer, publisher, sent, skipped>>

(* _receive_from_monitor: nothing is kept when there are no buffers.       *)
ReceiveFromMonitor(a) ==
  /\ mon[a] = "lock" /\ Unlocked
  /\ buffer' = IF phase = "off" THEN buffer ELSE [buffer EXCEPT ![a] = @ \cup got[a]]
  /\ got' = [got EXCEPT ![a] = {}] /\ mon' = [mon EXCEPT ![a] = "sleep"]
  /\ UNCHANGED <<phase, now, from, last, publisher, sent, skipped>>

-----------------------------------------------------------------------------
(* Publisher                                                               *)

InOrder(T) == CHOOSE s \in [1..Cardinality(T) -> T] : \A i, j \in DOMAIN s : i < j => s[i] < s[j]

(* Mutant: the flag is not looked at again once the lock is taken.         *)
PublishAnyway ==
  /\ publisher = "sleep"
  /\ publisher' = "notify" /\ sent' = [a \in Attr |-> sent[a] \o InOrder(buffer[a])]
  /\ buffer' = [a \in Attr |-> {}]
  /\ UNCHANGED <<phase, now, mon, from, got, last, skipped>>

(* The rate has passed: what is buffered is published in the order of its  *)
(* times, with the lock held until the notification returns.               *)
Publish ==
  /\ publisher = "sleep"
  /\ IF phase = "on" /\ \E a \in Attr : buffer[a] # {}
     THEN /\ publisher' = "notify" /\ sent' = [a \in Attr |-> sent[a] \o InOrder(buffer[a])]
          /\ buffer' = [a \in Attr |-> {}]
     ELSE publisher' = (IF phase = "on" THEN "sleep" ELSE "end") /\ UNCHANGED <<sent, buffer>>
  /\ UNCHANGED <<phase, now, mon, from, got, last, skipped>>
Notified ==
  /\ publisher = "notify" /\ publisher' = "sleep"
  /\ UNCHANGED <<phase, now, mon, from, got, last, buffer, sent, skipped>>

Next ==
  \/ Tick \/ StartMonitoring \/ Stop \/ Stopped \/ Publish \/ Notified
  \/ \E a \in Attr : Ask(a) \/ Retrieved(a) \/ RetrievalFails(a) \/ ReceiveFromMonitor(a)

Spec == Init /\ [][Next]_vars

-----------------------------------------------------------------------------
(* Properties                                                              *)

SentTimes(a) == {sent[a][i] : i \in DOMAIN sent[a]}

(* While it is monitored, each attribute's values reach the stream once,   *)
(* in order and without a gap but for what fell out of the window: however *)
(* retrievals, their failures and publications are interleaved, the values *)
(* up to the last one retrieved are sent, buffered or in hand.             *)
EachValueOnce ==
  /\ \A a \in Attr : \A i, j \in DOMAIN sent[a] : i < j => sent[a][i] < sent[a][j]
  /\ phase = "on" => \A a \in Attr :
       LET known == SentTimes(a) \cup buffer[a] \cup got[a] IN
       \A t \in known, u \in Time : t < u /\ u <= last[a] => u \in known \cup skipped[a]

(* When stop_resource_monitoring has returned, nothing is published, not   *)
(* even by a monitor that was retrieving or a publisher that had woken up. *)
StopIsFinal ==
  /\ phase = "off" => publisher # "notify" /\ \A a \in Attr : buffer[a] = {}
=============================================================================
