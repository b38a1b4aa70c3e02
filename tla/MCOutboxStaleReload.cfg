\* A run ends when its bounds are spent and everything is delivered.
CHECK_DEADLOCK FALSE
SPECIFICATION Spec
CONSTANTS
  general = general
  random = random
  Conversation = {general}
  ConversationOf <- Single
  MaxAuthored = 2
  MaxReplacements = 0
  MaxDiscards = 0
  MaxLosses = 0
  MaxRefusals = 0
  MaxAccessChanges = 0
  MaxRestarts = 1
  MaxCatalogs = 1
  MaxSyncs = 0
  Realtime = FALSE
INVARIANT AuthoredOrder
