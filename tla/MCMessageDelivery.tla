-------------------------- MODULE MCMessageDelivery --------------------------
\* Instances of MessageDelivery: user 1 is the workspace owner, user 2 an agent
\* that owns the channel as well, user 3 a member.
EXTENDS MessageDelivery, TLC

CONSTANTS design, random, hello, reply, r1, r2

Sessions == Permutations(Requests)

Seats ==
  [c \in Channels |-> [u \in Users |-> IF u = 3 THEN "member" ELSE "owner"]]

Send(u, c, k) == [op |-> "send", by |-> u, chan |-> c, key |-> k]
OnMessage(op, u, m) == [op |-> op, by |-> u, msg |-> m]
Seat(u, c, who, role) ==
  [op |-> "seat", by |-> u, chan |-> c, who |-> who, role |-> role]
Remove(u, c, who) == [op |-> "remove", by |-> u, chan |-> c, who |-> who]
Archive(u, c) == [op |-> "archive", by |-> u, chan |-> c]
Disable(u, who) == [op |-> "disable", by |-> u, who |-> who]

Mine == <<3, hello>>

Mixed ==
  {Send(3, design, hello), Send(3, random, hello), Send(2, design, reply),
   OnMessage("retract", 3, Mine), OnMessage("react", 3, Mine),
   OnMessage("unreact", 3, Mine), OnMessage("read", 1, Mine),
   OnMessage("read", 1, <<2, reply>>),
   Seat(1, design, 3, "member"), Seat(1, design, 2, "member"),
   Remove(1, design, 3), Remove(1, design, 1), Remove(2, design, 1),
   Archive(1, design), Disable(1, 2)}

\* A send to the channel of an agent that is disabled meanwhile.
Revocation == {Send(3, design, hello), Disable(1, 2)}
=============================================================================
