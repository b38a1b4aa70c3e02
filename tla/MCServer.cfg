\* Nobody has to ask for anything: every part may rest.
CHECK_DEADLOCK FALSE
SPECIFICATION Spec
CONSTANTS
  Sessions = {s1, s2}
  Owners = {o1, o2}
  Guests = {g1, g2}
  Agent = a
  Asking = o1
  Nobody = Nobody
  Subjects = {p1}
  LinkTTL = 1
  SessionTTL = 2
  WindowTTL = 2
  MaxLinks = 1
  MaxSessions = 2
  MaxTokens = 3
  MaxNow = 2
  MaxDeliveries = 1
  MaxChanges = 1
  TransactionTTL = 1
  HandoffTTL = 1
  LinkedTTL = 1
  EventTTL = 1
  MaxTransactions = 1
  MaxHandoffs = 1
  MaxLinked = 2
  MaxClock = 2
  MaxMembers = 3
  MaxInvitations = 2
  MaxDays = 1
  MaxRetries = 1
  MaxAborts = 1
  MaxBegun = 4
  MaxTeam = 4
  MaxEnrollments = 1
  MaxAsked = 3
  MaxHappenings = 1
  MaxSeats = 2
  MaxCredentials = 3
  MaxTime = 1
  TTL = 1
  MaxStarts = 4
  MaxPosts = 2
  WindowPosts = 1
  MaxRuns = 3
  MaxFaults = 2
  Processes = {"old", "new"}
  Jobs = {"retention", "reconcile"}
  OnBoot = {"retention", "reconcile"}
  SingleFlight = {"reconcile"}
  Files <- Shipping
  Revised <- Correction
  Recorded <- Established
SYMMETRY Symmetry
INVARIANTS
  SignInsAreSingle
  RevocationsReach
  AdmissionHolds
  PostsAreCurrent
  ProcessesClose
PROPERTIES
  EndsStayEnded
