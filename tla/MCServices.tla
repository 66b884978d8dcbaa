------------------------------ MODULE MCServices ------------------------------
(* The scheduler, and with it the high availability agent, the constraint solver*)
(* and deployments.                                                          *)
(* They share no state here: each behaviour is one of the component in       *)
(* subject, and the others stay as they begin.                               *)
EXTENDS Scheduler, TLC

CONSTANTS Process, Target, MaxSpawns, MaxCancels, MaxCrashes, MaxErrors, Var,
    Value, Parents, Uppers, Device, Site, Plan, Parent, Kind, Supports, PlanOf,
    v1, v2, v3, s1, s2, s3, dp, di, dj, sa, sb, sc

(* Twice a day until 3; every 1 for ever; every 2 from 1 until 4.            *)
Timers == [daily |-> [slots |-> {0, 1}, start |-> 0, interval |-> 0, end |-> 3],
           always |-> [slots |-> {}, start |-> 0, interval |-> 1, end |-> -1],
           twice |-> [slots |-> {}, start |-> 1, interval |-> 2, end |-> 4]]
TaskOf == [t \in Timer |-> Timers[t]]

(* A root with two children, a chain, and two trees.                         *)
DeviceTrees == {v1 :> Nil @@ v2 :> v1 @@ v3 :> v1, v1 :> Nil @@ v2 :> v1 @@ v3 :> v2,
                v1 :> Nil @@ v2 :> Nil @@ v3 :> v2}
SiteTrees == {s1 :> Nil @@ s2 :> s1 @@ s3 :> s1, s1 :> Nil @@ s2 :> s1 @@ s3 :> s2,
              s1 :> Nil @@ s2 :> Nil @@ s3 :> s2}

(* A platform with two instruments, and a platform site above two others.    *)
ParentOf == dp :> Nil @@ di :> dp @@ dj :> dp @@ sa :> Nil @@ sb :> sa @@ sc :> sa
KindOf == dp :> "platform" @@ di :> "instrument" @@ dj :> "instrument"
Models == {<<sa, dp>>, <<sb, di>>, <<sb, dj>>, <<sc, di>>, <<sc, dj>>}
Plans == [whole |-> [devices |-> {dp}, sites |-> {sa}, children |-> TRUE, ports |-> Nil],
          single |-> [devices |-> {di}, sites |-> {sc}, children |-> FALSE, ports |-> Nil],
          ported |-> [devices |-> {dp, di}, sites |-> {sa, sb}, children |-> FALSE,
                      ports |-> dp :> Nil @@ di :> sb @@ dj :> Nil]]

VARIABLE subject  \* the component of this behaviour
VARIABLES haHa, haSt, haSpawned, haCancels, haCrashes, haFailures, haAssoc,
    haView, haEvents, haCallback, haSignal, haPolicy
VARIABLES csProblem, csDomains, csHidden, csStates, csAssignments, csQueue,
    csCurrent, csSolutions, csPc
VARIABLES dpHasDevice, dpDeployed, dpRequest

haVars == <<haHa, haSt, haSpawned, haCancels, haCrashes, haFailures,
             haAssoc, haView, haEvents, haCallback, haSignal,
             haPolicy>>
csVars == <<csProblem, csDomains, csHidden, csStates, csAssignments,
             csQueue, csCurrent, csSolutions, csPc>>
dpVars == <<dpHasDevice, dpDeployed, dpRequest>>

HA == INSTANCE HAAgent WITH
    MaxFailures <- MaxErrors, ha <- haHa, st <- haSt, spawned <- haSpawned,
    cancels <- haCancels, crashes <- haCrashes, failures <- haFailures,
    assoc <- haAssoc, view <- haView, events <- haEvents,
    callback <- haCallback, signal <- haSignal, policy <- haPolicy
CS == INSTANCE ConstraintSolver WITH
    problem <- csProblem, domains <- csDomains, hidden <- csHidden, states <- csStates,
    assignments <- csAssignments, queue <- csQueue, current <- csCurrent,
    solutions <- csSolutions, pc <- csPc
DP == INSTANCE Deployment WITH
    hasDevice <- dpHasDevice, deployed <- dpDeployed, request <- dpRequest

ASSUME SuiteAssumption ==
  /\ HA!ProcessAssumption /\ HA!BoundAssumption
  /\ CS!SolverAssumption
  /\ DP!PlanAssumption

SuiteInit ==
  /\ subject \in {"SC", "HA", "CS", "DP"}
  /\ Init /\ HA!Init /\ CS!Init /\ DP!Init
  /\ (subject # "CS" => csProblem = [domain |-> [v \in Var |-> Value], parent |-> CHOOSE p \in Parents : TRUE,
                                             up |-> CHOOSE u \in Uppers : TRUE])

suiteVars == <<subject, vars, haVars, csVars, dpVars>>

SuiteNext ==
  \/ subject = "SC" /\ Next /\ UNCHANGED <<subject, haVars, csVars, dpVars>>
  \/ subject = "HA" /\ HA!Next /\ UNCHANGED <<subject, vars, csVars, dpVars>>
  \/ subject = "CS" /\ CS!Next /\ UNCHANGED <<subject, vars, haVars, dpVars>>
  \/ subject = "DP" /\ DP!Next /\ UNCHANGED <<subject, vars, haVars, csVars>>

SuiteSpec == SuiteInit /\ [][SuiteNext]_suiteVars /\ HA!Fairness


(* The policy is reached again and kept; see HAAgent.                        *)
Converges == HA!Converges

(* The solver finds every solution once; see ConstraintSolver.               *)
SolutionsExact == CS!SolutionsExact

(* What an activation has set up holds when it returns; see Deployment.      *)
ActivationHolds == DP!ActivationHolds

(* A device has one site; violated, see Deployment.                          *)
OneSitePerDevice == DP!OneSitePerDevice
===============================================================================
