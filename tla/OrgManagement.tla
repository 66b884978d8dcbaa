---------------------------- MODULE OrgManagement ----------------------------
(***************************************************************************)
(* Membership, roles, negotiations and commitments of one Org              *)
(* (ion/services/coi/org_management_service.py).                           *)
(*                                                                         *)
(* Everything is kept in the resource registry, as resources and           *)
(* associations between them; an operation is a sequence of registry calls *)
(* any of which may raise.  One instance of the service handles one        *)
(* request after the other; several instances interleave.  The negotiation *)
(* handler is external: it checks the preconditions when a negotiation is  *)
(* opened, and executes the accept action when both sides have accepted.   *)
(***************************************************************************)
EXTENDS Naturals, FiniteSets

CONSTANTS
  Instance,        \* instances of the service
  Actor,
  Resource,
  MaxTime,         \* bound: the clock
  MaxPeriod,       \* how long a resource may be acquired exclusively (12 hours)
  MaxCommitments,  \* bound: commitments, together
  Nil

OrgAssumption == IsFiniteSet(Actor) /\ IsFiniteSet(Resource) /\ Nil \notin Actor \cup Resource
BoundAssumption == {MaxTime, MaxPeriod, MaxCommitments} \subseteq Nat

Role == {"ORG_MEMBER", "INSTRUMENT_OPERATOR"}
Kind == {"Enrollment", "RequestRole", "AcquireResource", "AcquireResourceExclusive"}

VARIABLES
  now,         \* the clock
  member,      \* hasMembership
  roles,       \* hasRole
  shared,      \* hasResource
  commitments, \* hasCommitment: who, what, exclusive, expiration (0 for never)
  negotiation, \* an actor's open negotiation, or Nil
  request      \* what each instance is doing, or Nil

vars == <<now, member, roles, shared, commitments, negotiation, request>>

(* do: the registry call that comes next.                                  *)
Request == [do : {"membership", "roles", "unrole", "enrolled", "role", "open", "decide", "accept", "commit"},
            actor : Actor, role : Role \cup {Nil}, todo : SUBSET Role]
Negotiation == [kind : Kind, resource : Resource \cup {Nil}, expiration : 0..MaxTime, accepted : BOOLEAN]
Commitment == [consumer : Actor, resource : Resource, exclusive : BOOLEAN, expiration : 0..MaxTime]

TypeOK ==
  /\ now \in 0..MaxTime
  /\ member \subseteq Actor /\ roles \subseteq Actor \X Role /\ shared \subseteq Resource
  /\ commitments \subseteq Commitment
  /\ negotiation \in [Actor -> Negotiation \cup {Nil}]
  /\ request \in [Instance -> Request \cup {Nil}]

Init ==
  /\ now = 0 /\ member = {} /\ roles = {} /\ shared = {} /\ commitments = {}
  /\ negotiation = [a \in Actor |-> Nil] /\ request = [i \in Instance |-> Nil]

Tick == now < MaxTime /\ now' = now + 1
        /\ UNCHANGED <<member, roles, shared, commitments, negotiation, request>>

-----------------------------------------------------------------------------
(* Requests                                                                *)

Receive(i, do, a, r) ==
  /\ request[i] = Nil
  /\ request' = [request EXCEPT ![i] = [do |-> do, actor |-> a, role |-> r, todo |-> {}]]
Doing(i, do) == request[i] # Nil /\ request[i].do = do
Then(i, do) == request' = [request EXCEPT ![i].do = do]
End(i) == request' = [request EXCEPT ![i] = Nil]

(* A registry call raises: what was written before it stays.               *)
Raises(i) == request[i] # Nil /\ End(i)
             /\ UNCHANGED <<now, member, roles, shared, commitments, negotiation>>

BeginEnrollMember(i, a) == Receive(i, "membership", a, "ORG_MEMBER")
                           /\ UNCHANGED <<now, member, roles, shared, commitments, negotiation>>
BeginCancel(i, a) == Receive(i, "roles", a, Nil)
                     /\ UNCHANGED <<now, member, roles, shared, commitments, negotiation>>
BeginGrantRole(i, a, r) == Receive(i, "enrolled", a, r)
                           /\ UNCHANGED <<now, member, roles, shared, commitments, negotiation>>

-----------------------------------------------------------------------------
(* Enrollment and roles                                                    *)

(* enroll_member: an association that exists already makes the call raise. *)
CreateMembership(i) ==
  /\ Doing(i, "membership") /\ request[i].actor \notin member
  /\ member' = member \cup {request[i].actor} /\ Then(i, "role")
  /\ UNCHANGED <<now, roles, shared, commitments, negotiation>>

AddRoleAssociation(i) ==
  LET grant == <<request[i].actor, request[i].role>> IN
  /\ Doing(i, "role") /\ grant \notin roles
  /\ roles' = roles \cup {grant} /\ End(i)
  /\ UNCHANGED <<now, member, shared, commitments, negotiation>>

(* grant_role: only a member is granted a role.                            *)
IsEnrolled(i) ==
  /\ Doing(i, "enrolled") /\ request[i].actor \in member /\ Then(i, "role")
  /\ UNCHANGED <<now, member, roles, shared, commitments, negotiation>>

RevokeRole(i, a, r) ==
  /\ request[i] = Nil /\ <<a, r>> \in roles /\ roles' = roles \ {<<a, r>>}
  /\ UNCHANGED <<now, member, shared, commitments, negotiation, request>>

(* Mutant: the membership is cancelled before the roles are revoked.       *)
FindRolesMembershipFirst(i) ==
  /\ Doing(i, "roles")
  /\ request' = [request EXCEPT ![i].do = "unrole", ![i].todo = {r \in Role : <<request[i].actor, r>> \in roles}]
  /\ member' = member \ {request[i].actor}
  /\ UNCHANGED <<now, roles, shared, commitments, negotiation>>

(* cancel_member_enrollment: the roles found are revoked one after the     *)
(* other, and the membership last.                                         *)
FindRoles(i) ==
  /\ Doing(i, "roles")
  /\ request' = [request EXCEPT ![i].do = "unrole", ![i].todo = {r \in Role : <<request[i].actor, r>> \in roles}]
  /\ UNCHANGED <<now, member, roles, shared, commitments, negotiation>>
DeleteRole(i) ==
  /\ Doing(i, "unrole")
  /\ \E r \in request[i].todo :
       /\ <<request[i].actor, r>> \in roles /\ roles' = roles \ {<<request[i].actor, r>>}
       /\ request' = [request EXCEPT ![i].todo = @ \ {r}]
  /\ UNCHANGED <<now, member, shared, commitments, negotiation>>
DeleteMembership(i) ==
  /\ Doing(i, "unrole") /\ request[i].todo = {}
  /\ member' = member \ {request[i].actor} /\ End(i)
  /\ UNCHANGED <<now, roles, shared, commitments, negotiation>>

ShareResource(i, x) ==
  /\ request[i] = Nil /\ x \notin shared /\ shared' = shared \cup {x}
  /\ UNCHANGED <<now, member, roles, commitments, negotiation, request>>
UnshareResource(i, x) ==
  /\ request[i] = Nil /\ x \in shared /\ shared' = shared \ {x}
  /\ UNCHANGED <<now, member, roles, commitments, negotiation, request>>

-----------------------------------------------------------------------------
(* Commitments                                                             *)

(* is_resource_acquired, is_resource_acquired_exclusively: released        *)
(* commitments are taken out of the set; one that never expires is not     *)
(* seen as an exclusive one.                                               *)
Acquired(a, x) == \E c \in commitments : c.resource = x /\ c.consumer = a /\ (c.expiration = 0 \/ now < c.expiration)
Exclusive(A, x) == {c \in commitments : /\ c.resource = x /\ c.consumer \in A
                                        /\ c.exclusive /\ 0 < c.expiration /\ now < c.expiration}

(* create_resource_commitment, once it is associated with the resource.    *)
Commit(i) ==
  LET a == request[i].actor
      n == negotiation[a]
  IN
  /\ Doing(i, "commit") /\ Cardinality(commitments) < MaxCommitments
  /\ commitments' = commitments \cup
       {[consumer |-> a, resource |-> n.resource, exclusive |-> n.kind = "AcquireResourceExclusive",
         expiration |-> n.expiration]}
  /\ negotiation' = [negotiation EXCEPT ![a] = Nil] /\ End(i)
  /\ UNCHANGED <<now, member, roles, shared>>

ReleaseCommitment(i, c) ==
  /\ request[i] = Nil /\ c \in commitments /\ commitments' = commitments \ {c}
  /\ UNCHANGED <<now, member, roles, shared, negotiation, request>>

-----------------------------------------------------------------------------
(* Negotiations                                                            *)

PreCondition(a, n) ==
  CASE n.kind = "Enrollment" -> a \notin member
    [] n.kind = "RequestRole" -> a \in member /\ <<a, "INSTRUMENT_OPERATOR">> \notin roles
    [] n.kind = "AcquireResource" ->
         a \in member /\ <<a, "INSTRUMENT_OPERATOR">> \in roles /\ n.resource \in shared
    [] n.kind = "AcquireResourceExclusive" -> Acquired(a, n.resource) /\ Exclusive({a}, n.resource) = {}

(* A consumer's initial proposal: the negotiation is opened and recorded.  *)
Propose(i, a, kind, x, t) ==
  LET n == [kind |-> kind, resource |-> x, expiration |-> t, accepted |-> FALSE] IN
  /\ negotiation[a] = Nil /\ PreCondition(a, n)
  /\ (x = Nil) = (kind \in {"Enrollment", "RequestRole"})
  /\ kind # "AcquireResourceExclusive" => t = 0            \* bound: others never expire
  /\ Receive(i, IF kind = "AcquireResourceExclusive" THEN "decide" ELSE "open", a, Nil)
  /\ negotiation' = [negotiation EXCEPT ![a] = n]
  /\ UNCHANGED <<now, member, roles, shared, commitments>>

(* Any other proposal leaves it open.                                      *)
Opened(i) ==
  /\ Doing(i, "open") /\ End(i)
  /\ UNCHANGED <<now, member, roles, shared, commitments, negotiation>>

(* Mutant: nobody looks whether another actor has the resource.            *)
DecideBlindly(i) ==
  LET a == request[i].actor n == negotiation[a] IN
  /\ Doing(i, "decide")
  /\ IF n.expiration = 0 \/ n.expiration > now + MaxPeriod
     THEN negotiation' = [negotiation EXCEPT ![a] = Nil] /\ End(i)
     ELSE negotiation' = [negotiation EXCEPT ![a].accepted = TRUE] /\ Then(i, "accept")
  /\ UNCHANGED <<now, member, roles, shared, commitments>>

(* The provider's answer to an exclusive acquisition, in the same request. *)
Decide(i) ==
  LET a == request[i].actor n == negotiation[a] IN
  /\ Doing(i, "decide")
  /\ IF Exclusive(Actor, n.resource) # {} \/ n.expiration = 0 \/ n.expiration > now + MaxPeriod
     THEN negotiation' = [negotiation EXCEPT ![a] = Nil] /\ End(i)
     ELSE negotiation' = [negotiation EXCEPT ![a].accepted = TRUE] /\ Then(i, "accept")
  /\ UNCHANGED <<now, member, roles, shared, commitments>>

(* The provider's manager answers another negotiation later: an acceptance *)
(* is followed by the consumer's, which the service makes itself.          *)
Answer(i, a, accepts) ==
  /\ negotiation[a] # Nil /\ ~negotiation[a].accepted /\ negotiation[a].kind # "AcquireResourceExclusive"
  /\ IF accepts THEN /\ Receive(i, "accept", a, Nil)
                     /\ negotiation' = [negotiation EXCEPT ![a].accepted = TRUE]
     ELSE request[i] = Nil /\ negotiation' = [negotiation EXCEPT ![a] = Nil] /\ UNCHANGED request
  /\ UNCHANGED <<now, member, roles, shared, commitments>>

(* Both sides have accepted: the accept action.                            *)
AcceptAction(i) ==
  LET a == request[i].actor kind == negotiation[a].kind IN
  /\ Doing(i, "accept")
  /\ CASE kind = "Enrollment" ->
            request' = [request EXCEPT ![i].do = "membership", ![i].role = "ORG_MEMBER"]
       [] kind = "RequestRole" ->
            request' = [request EXCEPT ![i].do = "enrolled", ![i].role = "INSTRUMENT_OPERATOR"]
       [] OTHER -> Then(i, "commit")
  /\ negotiation' = IF kind \in {"Enrollment", "RequestRole"} THEN [negotiation EXCEPT ![a] = Nil] ELSE negotiation
  /\ UNCHANGED <<now, member, roles, shared, commitments>>

Next ==
  \/ Tick
  \/ \E i \in Instance :
       \/ Raises(i) \/ CreateMembership(i) \/ AddRoleAssociation(i) \/ IsEnrolled(i)
       \/ FindRoles(i) \/ DeleteRole(i) \/ DeleteMembership(i)
       \/ Commit(i) \/ Opened(i) \/ Decide(i) \/ AcceptAction(i)
       \/ \E a \in Actor : \/ BeginEnrollMember(i, a) \/ BeginCancel(i, a)
                           \/ \E yes \in BOOLEAN : Answer(i, a, yes)
                           \/ \E r \in Role : BeginGrantRole(i, a, r) \/ RevokeRole(i, a, r)
                           \/ \E k \in Kind, x \in Resource \cup {Nil}, t \in 0..MaxTime : Propose(i, a, k, x, t)
       \/ \E x \in Resource : ShareResource(i, x) \/ UnshareResource(i, x)
       \/ \E c \in commitments : ReleaseCommitment(i, c)

Spec == Init /\ [][Next]_vars

-----------------------------------------------------------------------------
(* Properties                                                              *)

(* "The actor is not a member of the specified Org": whoever has a role of *)
(* the Org is a member of it, whichever call of an enrollment, a grant or  *)
(* a cancellation has raised.                                              *)
RolesOfMembers == \A g \in roles : g[1] \in member

(* "The resource has already been acquired exclusively": nobody else has   *)
(* it at that time.                                                        *)
OneExclusive == \A x \in Resource : Cardinality(Exclusive(Actor, x)) <= 1
==============================================================================
