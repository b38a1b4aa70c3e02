SPECIFICATION Spec
CONSTANTS
  design = design
  random = random
  hello = hello
  reply = reply
  None = None
  r1 = r1
  r2 = r2
  Users = {1, 2, 3}
  Owner = 1
  Channels = {design, random}
  Keys = {hello, reply}
  InitialSeats <- Seats
  Requests = {r1, r2}
  Calls <- Mixed
  MaxCalls = 5
SYMMETRY Sessions
INVARIANT KeyStaysFree
INVARIANT LogIsTrue
PROPERTY CommitsWhileAllowed
PROPERTY KeepsAnOwner
