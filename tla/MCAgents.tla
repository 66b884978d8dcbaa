------------------------------- MODULE MCAgents -------------------------------
(* The instrument agent, and with it the parts of the platform agent, and the*)
(* ingestion of data.                                                        *)
(* They share no state here: each behaviour is one of the component in       *)
(* subject, and the others stay as they begin.                               *)
EXTENDS InstrumentAgent, TLC

CONSTANTS Monitor, Instrument, Platform, MaxPid, MaxAttempts, Subordinate,
    Descendant, Attr, Window, MaxSample, Ingester, Listening, MaxGranules,
    MaxRetries, MaxRaised, MaxCrashes, SlowStop

(* The driver may fail in every handler that commands it except when it      *)
(* leaves direct access.                                                     *)
Commands == {"INITIALIZE", "RESET", "GO_ACTIVE", "GO_INACTIVE", "RESOURCE", "GO_DIRECT_ACCESS",
             "EXECUTE_DIRECT_ACCESS", "AUTORECONNECT"}

Symmetry == Permutations(Session) \cup Permutations(Ingester) \cup Permutations(Listening)

VARIABLE subject  \* the component of this behaviour
VARIABLES paState, paLost, paHandler, paDrv, paDrvLock, paPrm, paMon,
    paActive, paLoops, paReconnect, paOms
VARIABLES pcStarted, pcAlive, pcPids, pcAgent, pcClient, pcWatched, pcDead,
    pcSaid, pcValidating, pcValidator, pcWork
VARIABLES smActive, smAgg, smOwn, smRollup, smPublishing, smReport, smAnswer,
    smEnding
VARIABLES pmPhase, pmNow, pmMon, pmFrom, pmGot, pmLast, pmBuffer,
    pmPublisher, pmSent, pmSkipped
VARIABLES igPersisted, igBound, igSubs, igLinked, igAssociated, igRunning,
    igRequest, igSent, igQueue, igListener, igPausing, igKnown, igThread,
    igRows, igRevision, igFailures, igCrashes, igSettled, igExcused,
    igStopped

paVars == <<paState, paLost, paHandler, paDrv, paDrvLock, paPrm, paMon,
             paActive, paLoops, paReconnect, paOms>>
pcVars == <<pcStarted, pcAlive, pcPids, pcAgent, pcClient, pcWatched,
             pcDead, pcSaid, pcValidating, pcValidator, pcWork>>
smVars == <<smActive, smAgg, smOwn, smRollup, smPublishing, smReport,
             smAnswer, smEnding>>
pmVars == <<pmPhase, pmNow, pmMon, pmFrom, pmGot, pmLast, pmBuffer,
             pmPublisher, pmSent, pmSkipped>>
igVars == <<igPersisted, igBound, igSubs, igLinked, igAssociated,
             igRunning, igRequest, igSent, igQueue, igListener,
             igPausing, igKnown, igThread, igRows, igRevision,
             igFailures, igCrashes, igSettled, igExcused, igStopped>>

PA == INSTANCE PlatformAgent WITH
    state <- paState, lost <- paLost, handler <- paHandler, drv <- paDrv,
    drvLock <- paDrvLock, prm <- paPrm, mon <- paMon, active <- paActive,
    loops <- paLoops, reconnect <- paReconnect, oms <- paOms
PC == INSTANCE PlatformChildren WITH
    started <- pcStarted, alive <- pcAlive, pids <- pcPids, agent <- pcAgent,
    client <- pcClient, watched <- pcWatched, dead <- pcDead, said <- pcSaid,
    validating <- pcValidating, validator <- pcValidator, work <- pcWork
SM == INSTANCE StatusManager WITH
    Child <- Subordinate, active <- smActive, agg <- smAgg, own <- smOwn,
    rollup <- smRollup, publishing <- smPublishing, report <- smReport,
    answer <- smAnswer, ending <- smEnding
PM == INSTANCE PlatformMonitor WITH
    MaxTime <- MaxSample, phase <- pmPhase, now <- pmNow, mon <- pmMon,
    from <- pmFrom, got <- pmGot, last <- pmLast, buffer <- pmBuffer,
    publisher <- pmPublisher, sent <- pmSent, skipped <- pmSkipped
IG == INSTANCE Ingestion WITH
    Worker <- Ingester, Thread <- Listening, MaxFailures <- MaxRaised,
    persisted <- igPersisted, bound <- igBound,
    subs <- igSubs, linked <- igLinked, associated <- igAssociated,
    running <- igRunning, request <- igRequest, sent <- igSent,
    queue <- igQueue, listener <- igListener, pausing <- igPausing,
    known <- igKnown, thread <- igThread, rows <- igRows,
    revision <- igRevision, failures <- igFailures, crashes <- igCrashes,
    settled <- igSettled, excused <- igExcused, stopped <- igStopped

ASSUME SuiteAssumption ==
  /\ PA!LoopsAssumption /\ PA!MonitorAssumption /\ PA!NilAssumption
  /\ PC!ChildAssumption /\ PC!BoundAssumption
  /\ SM!DeviceAssumption
  /\ PM!AttrAssumption /\ PM!TimeAssumption
  /\ IG!IngestionAssumption

SuiteInit ==
  /\ subject \in {"IA", "PA", "PC", "SM", "PM", "IG"}
  /\ Init /\ PA!Init /\ PC!Init /\ SM!Init /\ PM!Init /\ IG!Init

suiteVars == <<subject, vars, paVars, pcVars, smVars, pmVars, igVars>>

SuiteNext ==
  \/ subject = "IA" /\ Next /\ UNCHANGED <<subject, paVars, pcVars, smVars, pmVars, igVars>>
  \/ subject = "PA" /\ PA!Next /\ UNCHANGED <<subject, vars, pcVars, smVars, pmVars, igVars>>
  \/ subject = "PC" /\ PC!Next /\ UNCHANGED <<subject, vars, paVars, smVars, pmVars, igVars>>
  \/ subject = "SM" /\ SM!Next /\ UNCHANGED <<subject, vars, paVars, pcVars, pmVars, igVars>>
  \/ subject = "PM" /\ PM!Next /\ UNCHANGED <<subject, vars, paVars, pcVars, smVars, igVars>>
  \/ subject = "IG" /\ IG!Next /\ UNCHANGED <<subject, vars, paVars, pcVars, smVars, pmVars>>

SuiteSpec == SuiteInit /\ [][SuiteNext]_suiteVars


(* Monitors run exactly while the agent is in MONITORING; see PlatformAgent. *)
MonitorsMatchState == PA!MonitorsMatchState

(* The driver's state is that of the agent; see PlatformAgent.               *)
PlatformDriverMatchesState == PA!DriverMatchesState

(* Children leave a state before their platform; see PlatformChildren.       *)
ChildrenFirst == PC!ChildrenFirst

(* The rollup is that of the statuses held; see StatusManager.               *)
RollupConsolidates == SM!RollupConsolidates

(* No value is published twice; see PlatformMonitor.                         *)
EachValueOnce == PM!EachValueOnce

(* Nothing is published for a monitoring that ended; see PlatformMonitor.    *)
StopIsFinal == PM!StopIsFinal

(* A granule that left the queue is in its dataset; see Ingestion.           *)
Ingested == IG!Ingested

(* No worker of an unpersisted stream is left; see Ingestion.                *)
UnpersistStops == IG!UnpersistStops
===============================================================================
