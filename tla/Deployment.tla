------------------------------ MODULE Deployment ------------------------------
(***************************************************************************)
(* Activation and deactivation of deployments                              *)
(* (ion/services/sa/observatory/deployment_activator.py and                *)
(* activate_deployment, deactivate_deployment of                           *)
(* observatory_management_service.py).                                     *)
(*                                                                         *)
(* A deployment names devices and sites.  Activating it collects their     *)
(* trees, maps the devices to sites, by the port assignments or else by a  *)
(* constraint problem, whose solutions ConstraintSolver shows to be those  *)
(* of Matchings, and then removes and creates hasDevice associations one   *)
(* after the other, any of which may raise.                                *)
(***************************************************************************)
EXTENDS Naturals, FiniteSets

CONSTANTS
  Device, Site,
  Plan,         \* deployments
  Parent,       \* of a device or site, another one or Nil
  Kind,         \* of a device: of a platform or an instrument
  Supports,     \* pairs of a site and a device: the site has the device's model
  PlanOf,       \* devices and sites, whether children are included, and ports
  Nil

(* Devices and sites form trees, of one or the other: the recursion of     *)
(* _build_tree would not end on a cycle.  A port, the reference designator *)
(* of a site, is given to one device.                                      *)
PlanAssumption ==
  /\ Device \cap Site = {} /\ Nil \notin Device \cup Site
  /\ Parent \in [Device \cup Site -> Device \cup Site \cup {Nil}]
  /\ \A d \in Device : Parent[d] \notin Site
  /\ \A s \in Site : Parent[s] \notin Device
  /\ \A X \in (SUBSET (Device \cup Site)) \ {{}} : \E x \in X : Parent[x] \notin X
  /\ Supports \subseteq Site \X Device /\ DOMAIN Kind = Device
  /\ \A p \in Plan :
       /\ PlanOf[p].devices \subseteq Device /\ PlanOf[p].sites \subseteq Site
       /\ PlanOf[p].children \in BOOLEAN
       /\ \/ PlanOf[p].ports = Nil
          \/ /\ PlanOf[p].ports \in [Device -> Site \cup {Nil}]
             /\ \A d, e \in Device : PlanOf[p].ports[d] \in Site /\ PlanOf[p].ports[d] = PlanOf[p].ports[e] => d = e

VARIABLES
  hasDevice,  \* of a site and its primary device
  deployed,   \* plans whose life cycle state is DEPLOYED
  request     \* what is being done, or Nil

vars == <<hasDevice, deployed, request>>

TypeOK ==
  /\ hasDevice \subseteq Site \X Device /\ deployed \subseteq Plan
  /\ request \in [plan : Plan, remove : SUBSET (Site \X Device), create : SUBSET (Site \X Device)] \cup {Nil}

Init == hasDevice = {} /\ deployed = {} /\ request = Nil

-----------------------------------------------------------------------------
(* DeploymentResourceCollector                                             *)

(* _build_tree: a root, and the children of what is in the tree, either    *)
(* all of them or those in the plan.                                       *)
TreeOf(root, ids, children) ==
  LET Closed(X) == root \in X /\ \A x \in Device \cup Site : Parent[x] \in X /\ (children \/ x \in ids) => x \in X
  IN  {x \in Device \cup Site : \A X \in SUBSET (Device \cup Site) : Closed(X) => x \in X}

(* _attempt_site_tree_build, _attempt_device_tree_build                    *)
Roots(ids, children) == {r \in ids : ids \subseteq TreeOf(r, ids, children)}
Collected(ids, children) == UNION {TreeOf(r, ids, children) : r \in Roots(ids, children)}

Devices(p) == Collected(PlanOf[p].devices, PlanOf[p].children)
Sites(p) == Collected(PlanOf[p].sites, PlanOf[p].children)

(* collect: whether it does not raise.                                     *)
Collects(p) ==
  /\ Cardinality(Devices(p)) <= Cardinality(Sites(p))
  /\ PlanOf[p].devices # {} /\ Devices(p) # {} /\ Sites(p) # {}

-----------------------------------------------------------------------------
(* DeploymentActivator                                                     *)

(* _get_deployment_csp_solutions                                           *)
Matchings(p) ==
  {f \in [Devices(p) -> Sites(p)] :
    \A d \in Devices(p) :
      /\ <<f[d], d>> \in Supports
      /\ \A e \in Devices(p) : d # e => f[d] # f[e]
      /\ Parent[d] \in Devices(p) => Parent[f[d]] = f[Parent[d]]}

(* _merge_trees: the roots belong together, and so does a device with the  *)
(* site that its port names, under its parent's site.  A device left over, *)
(* or without a port, makes it raise.  Whether the site has its model is   *)
(* only logged.                                                            *)
Merges(p) ==
  LET port == PlanOf[p].ports
      place(d) == IF d \in Roots(PlanOf[p].devices, PlanOf[p].children)
                  THEN CHOOSE s \in Roots(PlanOf[p].sites, PlanOf[p].children) : TRUE
                  ELSE port[d]
      under(d) == /\ port[d] \in Sites(p) /\ Parent[port[d]] = place(Parent[d])
  IN  IF \A d \in Devices(p) \ Roots(PlanOf[p].devices, PlanOf[p].children) : under(d)
      THEN {[d \in Devices(p) |-> place(d)]} ELSE {}

(* The solver's order decides which of several solutions comes first.      *)
Mappings(p) == IF PlanOf[p].ports = Nil THEN Matchings(p) ELSE Merges(p)

(* _find_existing_relationship: another device of this kind at this site.  *)
Others(s, d) == {e \in Device \ {d} : <<s, e>> \in hasDevice /\ Kind[e] = Kind[d]}

(* Mutant: what the sites have already is not looked up by kind.           *)
PrepareFirstFound(p, f) ==
  request' = [plan |-> p,
              remove |-> {},
              create |-> {<<f[d], d>> : d \in {d \in Devices(p) : \A e \in Device : <<f[d], e>> \notin hasDevice}}]

(* prepare                                                                 *)
Prepare(p, f) ==
  request' = [plan |-> p,
              remove |-> UNION {{f[d]} \X Others(f[d], d) : d \in Devices(p)},
              create |-> {<<f[d], d>> : d \in Devices(p)} \ hasDevice]

BeginActivate(p) ==
  /\ request = Nil /\ Collects(p)
  /\ \E f \in Mappings(p) :
       /\ \A d \in Devices(p) : Cardinality(Others(f[d], d)) <= 1  \* or find_object raises
       /\ Prepare(p, f)
  /\ UNCHANGED <<hasDevice, deployed>>

Unassign(pair) ==
  /\ request # Nil /\ pair \in request.remove
  /\ hasDevice' = hasDevice \ {pair} /\ request' = [request EXCEPT !.remove = @ \ {pair}]
  /\ UNCHANGED deployed

Assign(pair) ==
  /\ request # Nil /\ request.remove = {} /\ pair \in request.create
  /\ hasDevice' = hasDevice \cup {pair} /\ request' = [request EXCEPT !.create = @ \ {pair}]
  /\ UNCHANGED deployed

Activated == request # Nil /\ request.remove = {} /\ request.create = {} /\ request' = Nil
             /\ UNCHANGED <<hasDevice, deployed>>

(* The registry raises: what has been done stays.                          *)
Raises == /\ request # Nil /\ request.remove \cup request.create # {} /\ request' = Nil
          /\ UNCHANGED <<hasDevice, deployed>>

(* deactivate_deployment: only associations between devices and sites that *)
(* no other plan, which is DEPLOYED, names; it may raise after some.       *)
Deactivate(p) ==
  LET elsewhere == UNION {PlanOf[q].devices \cup PlanOf[q].sites : q \in deployed \ {p}}
      gone == hasDevice \cap ((Sites(p) \ elsewhere) \X (Devices(p) \ elsewhere))
  IN
  /\ request = Nil /\ Collects(p)
  /\ \E done \in SUBSET gone : hasDevice' = hasDevice \ done
  /\ UNCHANGED <<deployed, request>>

(* The operator's life cycle transitions.                                  *)
Transition(p) ==
  /\ deployed' = IF p \in deployed THEN deployed \ {p} ELSE deployed \cup {p}
  /\ UNCHANGED <<hasDevice, request>>

Next ==
  \/ \E p \in Plan : BeginActivate(p) \/ Deactivate(p) \/ Transition(p)
  \/ \E pair \in Site \X Device : Unassign(pair) \/ Assign(pair)
  \/ Activated \/ Raises
Spec == Init /\ [][Next]_vars

-----------------------------------------------------------------------------
Primaries(s) == {d \in Device : <<s, d>> \in hasDevice}

(* However activations of several plans, deactivations and failures between*)
(* the calls of any of them follow each other: when an activation returns, *)
(* each of its devices is at a site of its own, alone of its kind there,   *)
(* and a child is at a site below its parent's; see prepare (554-597) and  *)
(* activate_deployment (614-640).                                          *)
ActivationHolds ==
  [][request # Nil /\ Activated =>
       LET D == Devices(request.plan) IN
       \E f \in [D -> Sites(request.plan)] : \A d \in D :
         /\ {e \in Primaries(f[d]) : Kind[e] = Kind[d]} = {d}
         /\ Parent[d] \in D => Parent[f[d]] = f[Parent[d]]]_vars

(* "figure out if any of the devices in the new mapping are already mapped *)
(* and need to be removed" (prepare, 579): a device has one site.          *)
OneSitePerDevice ==
  \A d \in Device : Cardinality({s \in Site : <<s, d>> \in hasDevice}) <= 1
===============================================================================
