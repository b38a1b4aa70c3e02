\* A run ends when its bounds are spent and everything is delivered.
CHECK_DEADLOCK FALSE
SPECIFICATION FairSpec
CONSTANTS
  general = general
  random = random
  Conversation = {general, random}
  ConversationOf <- Split
  MaxAuthored = 2
  MaxReplacements = 0
  MaxDiscards = 0
  MaxLosses = 1
  MaxRefusals = 0
  MaxAccessChanges = 0
  MaxRestarts = 0
  MaxCatalogs = 0
  MaxSyncs = 0
  Realtime = TRUE
PROPERTY Drains
