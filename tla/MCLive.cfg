\* Everything may rest once its bounds are spent; the hub's safety holds of it at rest, too.
CHECK_DEADLOCK FALSE
SPECIFICATION SFairSpec
CONSTANTS
  general = general
  e1 = e1
  NoEpoch = NoEpoch
  Clients = {c1, c2}
  Runs = {r1, r2}
  Subscribers = {x1}
  NoClient = NoClient
  MaxStarts = 2
  MaxLosses = 2
  MaxCommits = 2
INVARIANTS
  HubHolds
PROPERTY AllEnds
