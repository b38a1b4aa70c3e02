\* Every bound may be reached while the renderer has nothing left to do.
CHECK_DEADLOCK FALSE
SPECIFICATION Spec
CONSTANTS
  None = None
  MaxSequence = 2
  MaxReplay = 1
  MaxPending = 1
  MaxSessions = 2
  MaxEpoch = 4
  MaxSockets = 2
INVARIANTS
  TransportHolds
  ResumesDurably
  NoGap
PROPERTIES
  ReopensPastOverflow
