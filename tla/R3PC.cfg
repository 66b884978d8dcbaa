\* One client greenlet at a time (telemetry alternates), two messages, traffic
\* of up to three client sockets on the wire.  No symmetry: liveness is checked.
SPECIFICATION FairSpec
CONSTANTS
  Msg = {m1, m2}
  Greenlet = {g1}
  Gen = {s1, s2, s3}
  Nil = Nil
  RepeatUp = FALSE
INVARIANTS
  PoppedHaveArrived
PROPERTIES
  ImplementsReliableQueue
  
