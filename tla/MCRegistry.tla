------------------------------ MODULE MCRegistry ------------------------------
(* TerrestrialEndpoint, and with it other components that keep what they know*)
(* in the resource registry: organizations and subscriptions.                *)
(* They share no state here: each behaviour is one of the component in       *)
(* subject, and the others stay as they begin.                               *)
EXTENDS TerrestrialEndpoint, TLC

CONSTANTS Instance, Actor, Resource, MaxExpiration, MaxPeriod,
    MaxCommitments, Topic, Stream, Point, Subscription, Name, MaxMishaps,
    MaxWanted, Root

Symmetry == Permutations(Topic) \cup Permutations(Subscription) \cup Permutations(Name)

VARIABLE subject  \* the component of this behaviour
VARIABLES omNow, omMember, omRoles, omShared, omCommitments, omNegotiation,
    omRequest
VARIABLES psTopics, psStreams, psSubs, psHolders, psRegisters, psBindings,
    psRequest, psMishaps, psExcused

omVars == <<omNow, omMember, omRoles, omShared, omCommitments,
             omNegotiation, omRequest>>
psVars == <<psTopics, psStreams, psSubs, psHolders, psRegisters,
             psBindings, psRequest, psMishaps, psExcused>>

OM == INSTANCE OrgManagement WITH
    MaxTime <- MaxExpiration, now <- omNow, member <- omMember,
    roles <- omRoles, shared <- omShared, commitments <- omCommitments,
    negotiation <- omNegotiation, request <- omRequest
PS == INSTANCE PubSub WITH
    topics <- psTopics, streams <- psStreams, subs <- psSubs,
    holders <- psHolders, registers <- psRegisters, bindings <- psBindings,
    request <- psRequest, mishaps <- psMishaps, excused <- psExcused

ASSUME SuiteAssumption ==
  /\ OM!OrgAssumption /\ OM!BoundAssumption
  /\ PS!PubSubAssumption

SuiteInit ==
  /\ subject \in {"TE", "OM", "PS"}
  /\ Init /\ OM!Init /\ PS!Init
  /\ (subject # "PS" => psRegisters)

suiteVars == <<subject, vars, omVars, psVars>>

SuiteNext ==
  \/ subject = "TE" /\ Next /\ UNCHANGED <<subject, omVars, psVars>>
  \/ subject = "OM" /\ OM!Next /\ UNCHANGED <<subject, vars, psVars>>
  \/ subject = "PS" /\ PS!Next /\ UNCHANGED <<subject, vars, omVars>>

SuiteSpec == SuiteInit /\ [][SuiteNext]_suiteVars


(* Whoever has a role is a member of the Org; see OrgManagement.             *)
RolesOfMembers == OM!RolesOfMembers

(* A resource is acquired exclusively by one at most; see OrgManagement.     *)
OneExclusive == OM!OneExclusive

(* A queue has the bindings of its active subscriptions; see PubSub.         *)
BindingsMatchActivation == PS!BindingsMatchActivation
===============================================================================
