SPECIFICATION Spec
CONSTANTS
  design = design
  random = random
  hello = hello
  reply = reply
  None = None
  r1 = r1
  r2 = r2
  Users = {1, 2, 3}
  Owner = 1
  Channels = {design, random}
  Keys = {hello, reply}
  InitialSeats <- Seats
  Requests = {r1, r2}
  Calls <- Revocation
  MaxCalls = 2
SYMMETRY Sessions
INVARIANT NoDeadlock
