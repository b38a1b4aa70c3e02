\* The log's own properties hold of it at rest, so they need no condition on the part.
CHECK_DEADLOCK FALSE
SPECIFICATION SSpec
CONSTANTS
  general = general
  Writers = {w1, w2}
  Epochs = {e1, e2}
  NoWriter = NoWriter
  NoEpoch = NoEpoch
  LegacyEvents = 2
  RetentionAge = 1
  MaxSequence = 5
  MaxBurst = 2
  MaxClock = 3
INVARIANTS
  LogHolds
  SentInOrder
  HermesKeeps
  ContentHolds
PROPERTIES
  CommitsAboveHead
  ImplementsEventLog
  FailedStays
  HermesInOrder
  ContentKept
