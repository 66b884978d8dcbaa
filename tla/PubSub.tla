-------------------------------- MODULE PubSub --------------------------------
(***************************************************************************)
(* Streams, topics and subscriptions                                       *)
(* (ion/services/dm/distribution/pubsub_management_service.py).            *)
(*                                                                         *)
(* A subscription has an exchange name, a queue, and once it is activated  *)
(* the queue is bound with the keys of the subscription's streams, its     *)
(* exchange points, and its topics and their descendants.  The registry    *)
(* holds what a subscription has; the broker holds the bindings.  Requests *)
(* are served one at a time, a binding or a registry call after the other; *)
(* the registry may raise between them, and a binding that the broker      *)
(* refuses is only logged.  Streams and topics come and go meanwhile.      *)
(***************************************************************************)
EXTENDS Naturals, FiniteSets

CONSTANTS
  Topic,
  Stream,
  Point,         \* exchange points
  Subscription,
  Name,          \* exchange names
  MaxMishaps,    \* bound: events that excuse bindings
  MaxWanted,     \* bound: streams, points and topics that one subscription has
  Root,          \* the parent of a topic without one
  Nil

Key == Stream \cup Point \cup Topic
Record == [xn : Name, activated : BOOLEAN, streams : SUBSET Stream, topics : SUBSET Topic, points : SUBSET Point]
Request == [op : {"activate", "deactivate", "move"}, sub : Subscription, to : Name, was : BOOLEAN,
            do : {"bind", "unbind", "rename", "reattach"}, todo : SUBSET Key]

PubSubAssumption ==
  /\ Root \notin Topic /\ Nil \notin Record \cup Request
  /\ {MaxMishaps, MaxWanted} \subseteq Nat

VARIABLES
  topics,    \* the topics that exist, with their parents
  streams,   \* the streams that exist
  subs,      \* a subscription's exchange name, flag and associations, or Nil
  holders,   \* hasSubscription, of an exchange name and a subscription
  registers, \* the exchange names are resources of the registry
  bindings,  \* of an exchange name and a key, at the broker
  request,   \* what is being done, or Nil
  mishaps,   \* events that excused bindings, how many
  excused    \* bindings of which nothing is promised any more

vars == <<topics, streams, subs, holders, registers, bindings, request, mishaps, excused>>

TypeOK ==
  /\ \E T \in SUBSET Topic : topics \in [T -> Topic \cup {Root}]
  /\ streams \subseteq Stream
  /\ subs \in [Subscription -> Record \cup {Nil}]
  /\ holders \subseteq Name \X Subscription /\ registers \in BOOLEAN
  /\ bindings \subseteq Name \X Key /\ excused \subseteq Name \X Key
  /\ request \in Request \cup {Nil} /\ mishaps \in 0..MaxMishaps

Init ==
  /\ topics = [t \in {} |-> Root] /\ streams = {}
  /\ subs = [s \in Subscription |-> Nil]
  /\ holders = {} /\ registers \in BOOLEAN
  /\ bindings = {} /\ request = Nil /\ mishaps = 0 /\ excused = {}

-----------------------------------------------------------------------------
(* What a subscription wants                                               *)

(* _child_topics: the topics in T and their descendants, the least set     *)
(* that has the children of its topics.                                    *)
Closed(T, U) == T \cap DOMAIN topics \subseteq U /\ \A t \in DOMAIN topics : topics[t] \in U => t \in U
Tree(T) == {t \in DOMAIN topics : \A U \in SUBSET DOMAIN topics : Closed(T, U) => t \in U}

Exists(s) == subs[s] # Nil
Active(s) == Exists(s) /\ subs[s].activated
Keys(s) == subs[s].streams \cup subs[s].points \cup Tree(subs[s].topics)
Wanted(s) == {subs[s].xn} \X Keys(s)
Wanting == UNION {Wanted(s) : s \in {s \in Subscription : Active(s)}}
WantedByOthers(s) == UNION {Wanted(o) : o \in {o \in Subscription \ {s} : Active(o)}}

(* Nothing is promised of the bindings in B from now on.                   *)
Excuse(B) ==
  /\ excused' = excused \cup B
  /\ IF B \subseteq excused THEN UNCHANGED mishaps ELSE mishaps < MaxMishaps /\ mishaps' = mishaps + 1

-----------------------------------------------------------------------------
(* Topics and streams.  Active subscriptions are not told: a binding of    *)
(* theirs is missing, or stays, and is excused.                            *)

CreateTopic(t, parent) ==
  /\ t \notin DOMAIN topics /\ parent \in DOMAIN topics \cup {Root}
  /\ topics' = [u \in DOMAIN topics \cup {t} |-> IF u = t THEN parent ELSE topics[u]]
  /\ Excuse({<<subs[s].xn, t>> : s \in {s \in Subscription : Active(s) /\ parent \in Keys(s)}})
  /\ UNCHANGED <<streams, subs, holders, registers, bindings, request>>

(* delete_topic: every association to the topic goes.                      *)
DeleteTopic(t) ==
  /\ t \in DOMAIN topics /\ \A u \in DOMAIN topics : topics[u] # t
  /\ Excuse({<<subs[s].xn, t>> : s \in {s \in Subscription : Active(s) /\ t \in Keys(s)}})
  /\ topics' = [u \in DOMAIN topics \ {t} |-> topics[u]]
  /\ subs' = [s \in Subscription |->
                IF Exists(s) THEN [subs[s] EXCEPT !.topics = @ \ {t}] ELSE Nil]
  /\ UNCHANGED <<streams, holders, registers, bindings, request>>

CreateStream(st) ==
  /\ st \notin streams /\ streams' = streams \cup {st}
  /\ UNCHANGED <<topics, subs, holders, registers, bindings, request, mishaps, excused>>

(* delete_stream: _has_subscription looks for subjects that are streams,   *)
(* and no stream has a stream.                                             *)
DeleteStream(st) ==
  /\ st \in streams /\ streams' = streams \ {st}
  /\ Excuse({<<subs[s].xn, st>> : s \in {s \in Subscription : Active(s) /\ st \in Keys(s)}})
  /\ subs' = [s \in Subscription |->
                IF Exists(s) THEN [subs[s] EXCEPT !.streams = @ \ {st}] ELSE Nil]
  /\ UNCHANGED <<topics, holders, registers, bindings, request>>

-----------------------------------------------------------------------------
(* Subscriptions                                                           *)

CreateSubscription(s, xn, S, P, T) ==
  /\ ~Exists(s) /\ S \subseteq streams /\ T \subseteq DOMAIN topics
  /\ Cardinality(S) + Cardinality(P) + Cardinality(T) <= MaxWanted
  /\ subs' = [subs EXCEPT ![s] = [xn |-> xn, activated |-> FALSE, streams |-> S, points |-> P, topics |-> T]]
  /\ holders' = IF registers THEN holders \cup {<<xn, s>>} ELSE holders
  /\ UNCHANGED <<topics, streams, registers, bindings, request, mishaps, excused>>

(* delete_subscription: a queue that no subscription is associated with is *)
(* undeclared, with its bindings.                                          *)
DeleteSubscription(s) ==
  LET left == {h \in holders : h[2] # s}
      undeclared == {xn \in Name : <<xn, s>> \in holders /\ \A h \in left : h[1] # xn}
  IN
  /\ Exists(s) /\ ~Active(s)
  /\ subs' = [subs EXCEPT ![s] = Nil]
  /\ holders' = left
  /\ bindings' = {b \in bindings : b[1] \notin undeclared}
  /\ Excuse({b \in WantedByOthers(s) : b[1] \in undeclared})
  /\ UNCHANGED <<topics, streams, registers, request>>

Begin(op, s, to, do, todo) ==
  request' = [op |-> op, sub |-> s, to |-> to, was |-> Active(s), do |-> do, todo |-> todo]

BeginActivate(s) ==
  /\ Exists(s) /\ ~Active(s) /\ Begin("activate", s, subs[s].xn, "bind", Keys(s))
  /\ UNCHANGED <<topics, streams, subs, holders, registers, bindings, mishaps, excused>>

BeginDeactivate(s) ==
  /\ Active(s) /\ Begin("deactivate", s, subs[s].xn, "unbind", Keys(s))
  /\ UNCHANGED <<topics, streams, subs, holders, registers, bindings, mishaps, excused>>

(* Mutant: the subscription has its new name before its old bindings go.   *)
BeginMoveRenamed(s, to) ==
  /\ Exists(s) /\ Begin("move", s, to, IF Active(s) THEN "unbind" ELSE "rename", IF Active(s) THEN Keys(s) ELSE {})
  /\ subs' = [subs EXCEPT ![s].xn = to]
  /\ UNCHANGED <<topics, streams, holders, registers, bindings, mishaps, excused>>

BeginMove(s, to) ==
  /\ Exists(s) /\ Begin("move", s, to, IF Active(s) THEN "unbind" ELSE "rename", IF Active(s) THEN Keys(s) ELSE {})
  /\ UNCHANGED <<topics, streams, subs, holders, registers, bindings, mishaps, excused>>

(* _bind                                                                   *)
Bind(k) ==
  LET b == <<subs[request.sub].xn, k>> IN
  /\ request.do = "bind" /\ k \in request.todo
  /\ request' = [request EXCEPT !.todo = @ \ {k}]
  /\ \/ bindings' = bindings \cup {b} /\ excused' = excused \ {b} /\ UNCHANGED mishaps
     \/ Excuse({b}) /\ UNCHANGED bindings
  /\ UNCHANGED <<topics, streams, subs, holders, registers>>

(* _unbind: another subscription of this exchange name loses the binding.  *)
Unbind(k) ==
  LET b == <<subs[request.sub].xn, k>> IN
  /\ request.do = "unbind" /\ k \in request.todo
  /\ request' = [request EXCEPT !.todo = @ \ {k}]
  /\ \/ bindings' = bindings \ {b}
        /\ IF b \in WantedByOthers(request.sub) THEN Excuse({b}) ELSE excused' = excused \ {b} /\ UNCHANGED mishaps
     \/ Excuse({b}) /\ UNCHANGED bindings
  /\ UNCHANGED <<topics, streams, subs, holders, registers>>

(* The subscription is updated: activate_subscription ends.                *)
Bound ==
  /\ request.do = "bind" /\ request.todo = {}
  /\ subs' = [subs EXCEPT ![request.sub].activated = TRUE] /\ request' = Nil
  /\ UNCHANGED <<topics, streams, holders, registers, bindings, mishaps, excused>>

(* Likewise deactivate_subscription; a move goes on.                       *)
Unbound ==
  /\ request.do = "unbind" /\ request.todo = {}
  /\ subs' = [subs EXCEPT ![request.sub].activated = FALSE]
  /\ request' = IF request.op = "move" THEN [request EXCEPT !.do = "rename"] ELSE Nil
  /\ UNCHANGED <<topics, streams, holders, registers, bindings, mishaps, excused>>

(* move_subscription: without an exchange name in the registry it returns  *)
(* here, and a subscription that was active is not any more.               *)
Rename ==
  /\ request.do = "rename"
  /\ subs' = [subs EXCEPT ![request.sub].xn = request.to]
  /\ request' = IF registers THEN [request EXCEPT !.do = "reattach"] ELSE Nil
  /\ UNCHANGED <<topics, streams, holders, registers, bindings, mishaps, excused>>

Reattach ==
  /\ request.do = "reattach"
  /\ holders' = {h \in holders : h[2] # request.sub} \cup {<<request.to, request.sub>>}
  /\ request' = IF request.was THEN [request EXCEPT !.do = "bind", !.todo = Keys(request.sub)] ELSE Nil
  /\ UNCHANGED <<topics, streams, subs, registers, bindings, mishaps, excused>>

(* The registry raises.                                                    *)
Raises ==
  /\ request # Nil /\ request' = Nil
  /\ Excuse(IF request.do \in {"bind", "unbind"} THEN Wanted(request.sub) ELSE {})
  /\ UNCHANGED <<topics, streams, subs, holders, registers, bindings>>

Resources ==
  \/ \E t \in Topic : DeleteTopic(t) \/ \E parent \in Topic \cup {Root} : CreateTopic(t, parent)
  \/ \E st \in Stream : CreateStream(st) \/ DeleteStream(st)
Requests ==
  \E s \in Subscription :
    \/ BeginActivate(s) \/ BeginDeactivate(s) \/ DeleteSubscription(s)
    \/ \E xn \in Name :
         \/ BeginMove(s, xn)
         \/ \E S \in SUBSET Stream, P \in SUBSET Point, T \in SUBSET Topic : CreateSubscription(s, xn, S, P, T)
Serve ==
  Bound \/ Unbound \/ Rename \/ Reattach \/ Raises \/ \E k \in Key : Bind(k) \/ Unbind(k)

Next == IF request = Nil THEN Resources \/ Requests ELSE Serve
Spec == Init /\ [][Next]_vars

-----------------------------------------------------------------------------
(* Between requests, a queue has exactly the bindings that the activated   *)
(* subscriptions with its name want, except for those that are excused: a  *)
(* binding refused by the broker, left halfway by a request that raised,   *)
(* of a topic or a stream that came or went while a subscription was       *)
(* active, or taken by another subscription of the same queue.  A moved    *)
(* subscription leaves nothing behind; see move_subscription (394-420).    *)
BindingsMatchActivation ==
  request = Nil => bindings \ excused = Wanting \ excused

(* "Can not delete the stream while there are remaining subscriptions"     *)
(* (delete_stream, 199-200).                                               *)
StreamsWithSubscriptionsStay ==
  [][\A s \in Subscription : Exists(s) => subs[s].streams \cap streams \subseteq streams']_vars
===============================================================================
