SPECIFICATION Spec
CONSTANTS
  Msg = {m1, m2}
  Greenlet = {g1, g2}
  Gen = {s1, s2}
  Nil = Nil
  RepeatUp = TRUE
INVARIANTS
  PoppedHaveArrived
