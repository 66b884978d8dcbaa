SPECIFICATION Spec
CONSTANTS
  Topic = {t1}
  Stream = {x1}
  Point = {}
  Subscription = {s1}
  Name = {n1}
  MaxMishaps = 1
  MaxWanted = 1
  Root = Root
  Nil = Nil
CHECK_DEADLOCK FALSE
PROPERTIES
  StreamsWithSubscriptionsStay
