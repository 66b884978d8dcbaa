------------------------------ MODULE MCLiveness ------------------------------
(* EventPersister, and with it other components whose promises are about what*)
(* happens in the end.                                                       *)
(* They share no state here: each behaviour is one of the component in       *)
(* subject, and the others stay as they begin.                               *)
EXTENDS EventPersister, TLC

CONSTANTS e1, e2, e3, e4, e5, d1, d2, c1, c2, c3, r1, r2, ReCmd, Res, Worker,
    LookupFails, MaxRequests, Instrument, Platform, MaxPid, MaxAttempts, a1,
    a2, a3, a4, Alert, Target, Def, Types, Batch, Greenlet, MaxLists, MaxFailures

(* Two events of one device, one of another, one that the plugin does not    *)
(* recognize, and one more.                                                  *)
MCOrigin == e1 :> d1 @@ e2 :> d1 @@ e3 :> d2 @@ e4 :> Nil @@ e5 :> d2

(* The first two commands are for the same resource.                         *)
TargetOf == c1 :> r1 @@ c2 :> r1 @@ c3 :> r2

(* Alerts of missing data, of values, of states and of failed commands.      *)
AlertOf(class, type) == [class |-> class, type |-> type, aggregate |-> "data",
                         alert |-> {"LOST_CONNECTION"}, clear |-> {"COMMAND"}]
AlertDef == a1 :> AlertOf("LateDataAlert", "WARNING") @@ a2 :> AlertOf("IntervalAlert", "ALARM")
            @@ a3 :> AlertOf("StateAlert", "ALARM") @@ a4 :> AlertOf("CommandErrorAlert", "WARNING")
OneType == <<"data">>
Lists == [all |-> <<a3, a2, a4, a1>>]

VARIABLE subject  \* the component of this behaviour
VARIABLES reUp, reLinkUp, reServer, reRequest, reServices, reWorker,
    reResults, reRequests, reAnswered, reAcked, reFailed, reAccepted,
    reStarted
VARIABLES pcStarted, pcAlive, pcPids, pcAgent, pcClient, pcWatched, pcDead,
    pcSaid, pcValidating, pcValidator, pcWork
VARIABLES alState, alLists, alStatus, alAgg, alLate, alFresh, alAt,
    alFailures, alCurrent

reVars == <<reUp, reLinkUp, reServer, reRequest, reServices, reWorker,
             reResults, reRequests, reAnswered, reAcked, reFailed,
             reAccepted, reStarted>>
pcVars == <<pcStarted, pcAlive, pcPids, pcAgent, pcClient, pcWatched,
             pcDead, pcSaid, pcValidating, pcValidator, pcWork>>
alVars == <<alState, alLists, alStatus, alAgg, alLate, alFresh, alAt,
             alFailures, alCurrent>>

RE == INSTANCE RemoteEndpoint WITH
    Cmd <- ReCmd, up <- reUp, linkUp <- reLinkUp,
    server <- reServer, request <- reRequest, services <- reServices,
    worker <- reWorker, results <- reResults, requests <- reRequests,
    answered <- reAnswered, acked <- reAcked, failed <- reFailed,
    accepted <- reAccepted, started <- reStarted
PC == INSTANCE PlatformChildren WITH
    started <- pcStarted, alive <- pcAlive, pids <- pcPids, agent <- pcAgent,
    client <- pcClient, watched <- pcWatched, dead <- pcDead, said <- pcSaid,
    validating <- pcValidating, validator <- pcValidator, work <- pcWork
AL == INSTANCE Alerts WITH
    state <- alState, lists <- alLists,
    status <- alStatus, agg <- alAgg, late <- alLate, fresh <- alFresh,
    at <- alAt, failures <- alFailures, current <- alCurrent

ASSUME SuiteAssumption ==
  /\ RE!TargetAssumption /\ RE!NilAssumption /\ RE!BoundAssumption
  /\ PC!ChildAssumption /\ PC!BoundAssumption
  /\ AL!AlertAssumption /\ AL!BoundAssumption

SuiteInit ==
  /\ subject \in {"EP", "RE", "PC", "AL"}
  /\ Init /\ RE!Init /\ PC!Init /\ AL!Init

suiteVars == <<subject, vars, reVars, pcVars, alVars>>

SuiteNext ==
  \/ subject = "EP" /\ Next /\ UNCHANGED <<subject, reVars, pcVars, alVars>>
  \/ subject = "RE" /\ RE!Next /\ UNCHANGED <<subject, vars, pcVars, alVars>>
  \/ subject = "PC" /\ PC!Next /\ UNCHANGED <<subject, vars, reVars, alVars>>
  \/ subject = "AL" /\ AL!Next /\ UNCHANGED <<subject, vars, reVars, pcVars>>
  \/ subject = "PC" /\ UNCHANGED suiteVars  \* may come to rest

SuiteSpec == SuiteInit /\ [][SuiteNext]_suiteVars /\ Fairness /\ RE!Fairness /\ PC!Fairness /\ AL!Fairness


(* The aggregate status is that of the alerts; see Alerts.                   *)
AggregateIsWorst == AL!AggregateIsWorst

(* A stream that falls silent is noticed; see Alerts.                        *)
SilenceIsNoticed == AL!SilenceIsNoticed

(* No acknowledged request vanishes; see RemoteEndpoint.                     *)
RequestsAccounted == RE!Accounted

(* A resource's commands run one at a time; see RemoteEndpoint.              *)
SerialPerResource == RE!SerialPerResource

(* An acknowledged request is answered; see RemoteEndpoint.                  *)
EveryRequestAnswered == RE!EveryRequestAnswered

(* A child that runs again becomes valid again; see PlatformChildren.        *)
Revalidates == PC!Revalidates
===============================================================================
