CHECK_DEADLOCK FALSE
SPECIFICATION FairSpec
CONSTANTS
  None = None
  Users = {u1, u2}
  Logins = {l1, l2}
  Folders = {a, b}
  NoFolder = NoFolder
  MaxChanges = 1
  MaxAttempts = 2
  MaxIntents = 2
  MaxCallbacks = 2
  MaxFaults = 1
  MaxCrashes = 1
  MaxOps = 3
  MaxChats = 2
  MaxQuestions = 1
  MaxProgress = 2
  MaxChecks = 4
  MaxWindows = 2
  MaxCalls = 2
  MaxReloads = 1
INVARIANTS
  SessionsNeverOverlap
  AgentsHold
  OneAtATime
PROPERTIES
  NothingGoesBack
  Settles
