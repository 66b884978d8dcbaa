\* EP: three events of two devices, one of which the datastore never accepts, and
\* two that are blacklisted.  RE: three requests for three commands and two
\* resources; a look-up may raise.  PC: a sub-platform, with two processes.
\* AL: four alerts, set or added once; a publication may raise.  The persister's process may stop, so a deadlock is no error.
SPECIFICATION SuiteSpec
CONSTANTS
  e1 = e1
  e2 = e2
  e3 = e3
  e4 = e4
  e5 = e5
  d1 = d1
  d2 = d2
  Event = {e1, e2, e3, e4, e5}
  Bad = {e2}
  Blacklisted = {e4, e5}
  Device = {d1, d2}
  Origin <- MCOrigin
  c1 = c1
  c2 = c2
  c3 = c3
  r1 = r1
  r2 = r2
  ReCmd = {c1, c2, c3}
  Res = {r1, r2}
  Worker = {w1, w2}
  LookupFails = TRUE
  MaxRequests = 3
  a1 = a1
  a2 = a2
  a3 = a3
  a4 = a4
  Alert = {a1, a2, a3, a4}
  Target <- TargetOf
  Def <- AlertDef
  Types <- OneType
  Batch <- Lists
  Greenlet = {"rpc", "drv"}
  MaxLists = 2
  MaxFailures = 1
  Instrument = {}
  Platform = {p1}
  MaxPid = 2
  MaxAttempts = 1
  Nil = Nil
CHECK_DEADLOCK FALSE
INVARIANTS
  Accounted
  OnlyBadDiscarded
  ProcessedOnce
  StateOrdered
  RequestsAccounted
  SerialPerResource
  
PROPERTIES
  EveryEventSettles
  SilenceIsNoticed
  EveryRequestAnswered
  Revalidates
