\* TE: two commands, two crashes, registry calls that may fail at any point.
\* OM: one instance, two actors, a resource.  PS: two topics, a stream, two
\* subscriptions, each of one of them, and two queues.
SPECIFICATION SuiteSpec
CONSTANTS
  Cmd = {c1, c2}
  MaxCrashes = 2
  RegistryFails = TRUE
  Instance = {in1}
  Actor = {u1, u2}
  Resource = {x1}
  MaxExpiration = 1
  MaxPeriod = 1
  MaxCommitments = 3
  Topic = {t1, t2}
  Stream = {st1}
  Point = {}
  Subscription = {b1, b2}
  Name = {n1, n2}
  MaxMishaps = 1
  MaxWanted = 1
  Root = Root
  Nil = Nil
SYMMETRY Symmetry
CHECK_DEADLOCK FALSE
INVARIANTS
  Durable
  GoneStaysGone
  Settled
  RolesOfMembers
  
  BindingsMatchActivation
