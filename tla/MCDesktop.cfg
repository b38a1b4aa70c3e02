\* Everything may rest once its bounds are spent; the replica rests as it started.
CHECK_DEADLOCK FALSE
SPECIFICATION SSpec
CONSTANTS
  None = None
  Histories <- Logs
  MaxLoads = 1
  MaxCatalogs = 1
  MaxAnswers = 1
  MaxCrashes = 1
  MaxResyncs = 1
  MaxRedeliveries = 1
  MaxTogether = 2
  Users = {u1, u2}
  Requests = {r1}
  Callers = {p, q}
  Convs = {c1, c2}
  First = c1
  Fields = {f1, f2}
INVARIANTS
  CachesFollowMembers
  NotificationsAreCurrent
  ChoicesHold
  ReplicaIsExact
PROPERTIES
  NothingIsTakenBack
  ImplementsStore
