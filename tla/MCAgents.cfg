\* IA: two direct access servers; driver events at any time, and starts as slow as
\* it takes.  PA: two monitors and two reconnect loops.  PC: a child of each kind,
\* with two processes.  SM: a child with a child.  PM: two attributes, four times.
\* IG: two granules, two workers, two listener threads, one failure, one crash.
SPECIFICATION SuiteSpec
CONSTANTS
  Session = {da1, da2}
  MaxLoops = 2
  MaxPingers = 2
  Raises <- Commands
  Overlap = TRUE
  SlowStart = TRUE
  Monitor = {m1, m2}
  Instrument = {i1}
  Platform = {p1}
  MaxPid = 2
  MaxAttempts = 1
  Subordinate = {ch1}
  Descendant = {d1}
  Attr = {a1, a2}
  Window = 2
  MaxSample = 4
  Ingester = {w1, w2}
  Listening = {l1, l2}
  MaxGranules = 2
  MaxRetries = 1
  MaxRaised = 1
  SlowStop = TRUE
  MaxCrashes = 1
  Nil = Nil
SYMMETRY Symmetry
CHECK_DEADLOCK FALSE
INVARIANTS
  ReconnectorAlive
  PingerAlive
  DirectAccessIsServed
  MonitorsMatchState
  PlatformDriverMatchesState
  ChildrenFirst
  
  
  StopIsFinal
  
  UnpersistStops
