\* A run ends when its bounds are spent and everything is delivered.
CHECK_DEADLOCK FALSE
SPECIFICATION Spec
CONSTANTS
  general = general
  random = random
  Conversation = {general}
  ConversationOf <- Single
  MaxAuthored = 2
  MaxReplacements = 1
  MaxDiscards = 1
  MaxLosses = 1
  MaxRefusals = 0
  MaxAccessChanges = 1
  MaxRestarts = 1
  MaxCatalogs = 1
  MaxSyncs = 1
  Realtime = TRUE
INVARIANT OutboxHolds
INVARIANT NothingLost
