\* Liveness.  Driver events come between handlers, and no direct access server
\* ends while start_direct is under way.
SPECIFICATION RecoverySpec
CONSTANTS
  s1 = s1
  s2 = s2
  Session <- OneSession
  MaxLoops = 2
  MaxPingers = 2
  Raises <- Commands
  Overlap = FALSE
  SlowStart = FALSE
  Nil = Nil
INVARIANTS
  DriverMatchesState
PROPERTIES
  
  SessionsEnd
  ConnectionRecovers
