SPECIFICATION FairSpec
CONSTANTS
  s1 = s1
  s2 = s2
  Session <- OneSession
  MaxLoops = 2
  MaxPingers = 2
  Raises <- Commands
  Overlap = TRUE
  SlowStart = TRUE
  Nil = Nil
CHECK_DEADLOCK FALSE
PROPERTIES
  StopReturns
