\* SC: three timers, five times, three starts, one failure.  CS: three devices and
\* sites, in trees of three shapes.  DP: a platform with instruments.
\* HA: one process to be preserved, one that another may cancel, one crash.
SPECIFICATION SuiteSpec
CONSTANTS
  Task <- TaskOf
  Timer = {"daily", "always", "twice"}
  Day = 2
  MaxTime = 5
  MaxStarts = 3
  MaxFailures = 1
  SlowPublish = FALSE
  Process = {p1, p2}
  Target = 1
  MaxSpawns = 2
  MaxCancels = 1
  MaxCrashes = 1
  MaxErrors = 1
  Var = {v1, v2, v3}
  Value = {s1, s2, s3}
  Parents <- DeviceTrees
  Uppers <- SiteTrees
  Device = {dp, di, dj}
  Site = {sa, sb, sc}
  Plan = {"whole", "single", "ported"}
  Parent <- ParentOf
  Kind <- KindOf
  Supports <- Models
  PlanOf <- Plans
  v1 = v1
  v2 = v2
  v3 = v3
  s1 = s1
  s2 = s2
  s3 = s3
  dp = dp
  di = di
  dj = dj
  sa = sa
  sb = sb
  sc = sc
  Nil = Nil
CHECK_DEADLOCK FALSE
INVARIANTS
  OneGreenletEach
  CancelIsFinal
  SolutionsExact
PROPERTIES
  ActivationHolds
  
