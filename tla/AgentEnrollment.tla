--------------------------- MODULE AgentEnrollment ---------------------------
(* How an owner, or an agent that may invite, enrolls a new agent (agent-enrollment.ts), *)
(* against what ends the authority an enrollment rests on: a changed policy, a review, a  *)
(* demotion, a revoked token, a disabled agent, a channel that is left or archived.  Each  *)
(* transaction locks rows one statement after another and holds them to its end; what it   *)
(* writes is seen when it commits.  The server aborts one of several that wait for each    *)
(* other, and the code runs it again.                                                     *)
EXTENDS Naturals, Sequences, FiniteSets

CONSTANTS Sessions, Owners, Requesting, Inviter, Nobody, MaxEnrollments, MaxMembers, MaxDays,
          MaxRetries, MaxAborts, MaxBegun,
          MaxHappenings \* days and aborts of one behaviour, together

VARIABLES
  today, policy, owners, \* who is an active owner
  inviter,     \* the inviting agent: [active, token]
  channel,     \* the restricted channel: [open, joined]
  enrollments, \* agent_enrollments
  trail,       \* agent_enrollment_transitions of each enrollment
  children,    \* the agents redemption creates: [member, token, seated]
  tx, granted, \* history: what held when a redemption committed
  redeemed,    \* history: enrollment -> activations
  aborted, started

enrVars == <<today, policy, owners, inviter, channel, enrollments, trail, children, tx, granted,
             redeemed, aborted, started>>

Ids == 1..MaxEnrollments
Statuses == {"none", "pending_approval", "ready_to_redeem", "active", "rejected", "cancelled", "expired"}
Open == {"pending_approval", "ready_to_redeem"}
Modes == {"required", "automatic"}
Asked(kind, pc, by, id, arg) ==
  [kind |-> kind, pc |-> pc, by |-> by, id |-> id, arg |-> arg, at |-> 0,
   due |-> {}, held |-> {}, shared |-> {}, tries |-> 0]
NoTx == Asked("none", "none", Nobody, 0, "none")
Workspace == <<"workspace", 0>>
Conversation == <<"conversation", 0>>
InviterRow == <<"inviter", 0>>
Child(e) == <<"child", e>>
Row(e) == <<"enrollment", e>>
OwnerRow(o) == <<"owner", IF o = Requesting THEN 1 ELSE 2>>
Rows == {Workspace, Conversation, InviterRow, <<"owner", 1>>, <<"owner", 2>>, <<"open", 1>>, <<"open", 2>>}
        \cup {Row(e) : e \in Ids} \cup {Child(e) : e \in Ids}

TypeOK ==
  /\ today \in 0..MaxDays /\ policy \in Modes /\ owners \subseteq Owners
  /\ inviter \in [active : BOOLEAN, token : BOOLEAN] /\ channel \in [open : BOOLEAN, joined : BOOLEAN]
  /\ enrollments \in [Ids -> [status : Statuses, by : Owners \cup {Inviter, Nobody}, seats : BOOLEAN,
                                expires : 0..MaxDays + 1, reviewed : Owners \cup {Nobody}]]
  /\ trail \in [Ids -> Seq([from : Statuses, to : Statuses])]
  /\ children \in [Ids -> [member : {"none", "active", "revoked"}, token : {"none", "live", "revoked"},
                             seated : BOOLEAN]]
  /\ tx \in [Sessions -> [kind : {"none", "policy", "request", "list", "get", "review", "cancel", "redeem",
               "disable", "token", "revoke", "demote", "leave", "archive"},
             pc : {"none", "actor", "expire", "scope", "row", "seat", "target", "workspace", "commit"},
             by : Owners \cup {Inviter, Nobody}, id : {0} \cup Ids, at : 0..MaxDays,
             arg : {"none", "required", "automatic", "approve", "reject", "seats"},
             due : SUBSET Ids, held : SUBSET Rows, shared : SUBSET Rows, tries : 0..MaxRetries]]
  /\ granted \subseteq [policy : BOOLEAN, requester : BOOLEAN, seats : BOOLEAN, room : BOOLEAN]
  /\ redeemed \in [Ids -> 0..2] /\ aborted \in 0..MaxAborts /\ started \in 0..MaxBegun

\* nothing was requested yet, or one enrollment that seats its agent waits for an approval
Requested(who) == [status |-> "pending_approval", by |-> who, seats |-> TRUE, expires |-> 1, reviewed |-> Nobody]
NotRequested == [status |-> "none", by |-> Nobody, seats |-> FALSE, expires |-> 0, reviewed |-> Nobody]
Init ==
  /\ today = 0 /\ policy = "required" /\ owners = Owners
  /\ inviter = [active |-> TRUE, token |-> TRUE] /\ channel = [open |-> TRUE, joined |-> TRUE]
  /\ enrollments \in [Ids -> {NotRequested} \cup {Requested(who) : who \in {Requesting, Inviter}}]
  /\ trail = [e \in Ids |-> IF enrollments[e] = NotRequested THEN <<>>
                            ELSE <<[from |-> "none", to |-> "pending_approval"]>>]
  /\ children = [e \in Ids |-> [member |-> "none", token |-> "none", seated |-> FALSE]]
  /\ tx = [s \in Sessions |-> NoTx] /\ granted = {} /\ redeemed = [e \in Ids |-> 0]
  /\ aborted = 0 /\ started = 0

\* transactions, rows and locks

mayLock(s, rows) == \A o \in Sessions \ {s} : (tx[o].held \cup tx[o].shared) \cap rows = {}
mayShare(s, rows) == \A o \in Sessions \ {s} : tx[o].held \cap rows = {}
Goes(s, t) == tx' = [tx EXCEPT ![s] = t]
Ends(s) == Goes(s, NoTx)
Data == <<policy, owners, inviter, channel, enrollments, trail, children, granted, redeemed>>
Locking == UNCHANGED <<Data, today, aborted, started>>
Starts(s, t) ==
  /\ tx[s] = NoTx /\ started < MaxBegun /\ started' = started + 1
  /\ Goes(s, [t EXCEPT !.at = today]) /\ UNCHANGED <<Data, today, aborted>>
At(s, kinds, pc) == tx[s].kind \in kinds /\ tx[s].pc = pc
Counters == UNCHANGED <<today, aborted, started>>

Moves(e, to, en) == [en EXCEPT ![e].status = to]
Trail(e, from, to, tr) == [tr EXCEPT ![e] = Append(@, [from |-> from, to |-> to])]
Due(t) == {e \in Ids : enrollments[e].status \in Open /\ enrollments[e].expires <= t.at}
\* what a transaction's expiries come to when it commits
Expired(due) == [e \in Ids |-> IF e \in due THEN [enrollments[e] EXCEPT !.status = "expired"] ELSE enrollments[e]]
ExpiredTrail(due) == [e \in Ids |-> IF e \in due
                        THEN Append(trail[e], [from |-> enrollments[e].status, to |-> "expired"]) ELSE trail[e]]
activeMembers == Cardinality(Owners) + (IF inviter.active THEN 1 ELSE 0)
                 + Cardinality({e \in Ids : children[e].member = "active"})
mayRequest(who) == IF who = Inviter THEN inviter.active /\ inviter.token ELSE who \in owners

\* who asks, with the rows their authority rests on
SetPolicy(s, o, mode) == Starts(s, Asked("policy", "actor", o, 0, mode))
Request(s, who, e, seats) ==
  /\ enrollments[e].status = "none" /\ \A o \in Sessions : ~(tx[o].kind = "request" /\ tx[o].id = e)
  /\ Starts(s, Asked("request", "actor", who, e, seats))
List(s, who) == Starts(s, Asked("list", "actor", who, 0, "none"))
Review(s, o, e, decision) == Starts(s, Asked("review", "actor", o, e, decision))
Reads(s, kind, who, e) == Starts(s, Asked(kind, "actor", who, e, "none"))
Redeem(s, e) == Starts(s, Asked("redeem", "row", Nobody, e, "none"))

AuthorityRow(who) == IF who = Inviter THEN InviterRow ELSE OwnerRow(who)
\* FOR SHARE of the requester's rows; a status reader and an agent's list take none
requireRequester(s) ==
  LET t == tx[s]
      locks == IF t.kind \in {"policy", "request", "review"} \/ (t.kind = "list" /\ t.by \in Owners)
               THEN {AuthorityRow(t.by)} ELSE {}
      next == CASE t.kind \in {"policy", "request", "list"} -> "expire" [] OTHER -> "row" IN
  /\ At(s, {"policy", "request", "list", "get", "review", "cancel"}, "actor") /\ mayShare(s, locks)
  /\ IF mayRequest(t.by) THEN Goes(s, [t EXCEPT !.pc = next, !.shared = @ \cup locks]) ELSE Ends(s)
  /\ Locking

\* every enrollment that is due, under its own lock
expireWorkspaceEnrollments(s) ==
  LET t == tx[s] IN
  /\ At(s, {"policy", "request", "list"}, "expire") /\ mayLock(s, {Row(e) : e \in Due(t)})
  /\ Goes(s, [t EXCEPT !.due = Due(t), !.held = @ \cup {Row(e) : e \in Due(t)},
                       !.pc = CASE t.kind = "policy" -> "workspace" [] t.kind = "request" -> "scope"
                                [] OTHER -> "commit"])
  /\ Locking

\* one live-row count at a time for each requester, then the seats it may give
lockIdempotencyScope(s) ==
  LET t == tx[s]
      row == {<<"open", IF t.by = Inviter THEN 1 ELSE 2>>} IN
  /\ At(s, {"request"}, "scope") /\ mayLock(s, row)
  /\ IF t.arg = "seats" /\ ~(channel.open /\ (t.by = Inviter => channel.joined)) THEN Ends(s)
     ELSE Goes(s, [t EXCEPT !.pc = "workspace", !.held = @ \cup row])
  /\ Locking

LockWorkspace(s) ==
  /\ At(s, {"policy", "request", "redeem", "disable", "demote"}, "workspace") /\ mayLock(s, {Workspace})
  /\ Goes(s, [tx[s] EXCEPT !.pc = "commit", !.held = @ \cup {Workspace}])
  /\ Locking

CommitPolicy(s) ==
  LET t == tx[s]
      from == IF t.arg = "automatic" THEN "pending_approval" ELSE "ready_to_redeem"
      to == IF t.arg = "automatic" THEN "ready_to_redeem" ELSE "pending_approval"
      turned == {e \in Ids \ t.due : enrollments[e].status = from /\ enrollments[e].reviewed = Nobody} IN
  /\ At(s, {"policy"}, "commit") /\ Ends(s) /\ policy' = t.arg
  /\ IF policy = t.arg
     THEN enrollments' = Expired(t.due) /\ trail' = ExpiredTrail(t.due)
     ELSE /\ mayLock(s, {Row(e) : e \in turned})
          /\ enrollments' = [e \in Ids |-> IF e \in turned THEN [enrollments[e] EXCEPT !.status = to]
                                           ELSE Expired(t.due)[e]]
          /\ trail' = [e \in Ids |-> IF e \in turned THEN Append(trail[e], [from |-> from, to |-> to])
                                     ELSE ExpiredTrail(t.due)[e]]
  /\ UNCHANGED <<owners, inviter, channel, children, granted, redeemed>> /\ Counters

CommitRequest(s) ==
  LET t == tx[s]
      status == IF policy = "automatic" THEN "ready_to_redeem" ELSE "pending_approval"
      row == [status |-> status, by |-> t.by, seats |-> t.arg = "seats", expires |-> t.at + 1,
              reviewed |-> Nobody] IN
  /\ At(s, {"request"}, "commit") /\ Ends(s)
  /\ enrollments' = [Expired(t.due) EXCEPT ![t.id] = row]
  /\ trail' = Trail(t.id, "none", status, ExpiredTrail(t.due))
  /\ UNCHANGED <<policy, owners, inviter, channel, children, granted, redeemed>> /\ Counters

CommitList(s) ==
  /\ At(s, {"list"}, "commit") /\ Ends(s)
  /\ enrollments' = Expired(tx[s].due) /\ trail' = ExpiredTrail(tx[s].due)
  /\ UNCHANGED <<policy, owners, inviter, channel, children, granted, redeemed>> /\ Counters

\* the enrollment itself: a due one expires, and that alone is committed
LockEnrollment(s) ==
  LET t == tx[s]
      e == t.id
      found == enrollments[e]
      mine == t.kind = "redeem" \/ t.by \in Owners \/ found.by = t.by IN
  /\ At(s, {"get", "review", "cancel", "redeem"}, "row") /\ mayLock(s, {Row(e)})
  /\ IF found.status = "none" \/ ~mine
     THEN Ends(s) /\ UNCHANGED <<enrollments, trail>>
     ELSE IF e \in Due(t)
     THEN Ends(s) /\ enrollments' = Expired({e}) /\ trail' = ExpiredTrail({e})
     ELSE /\ UNCHANGED <<enrollments, trail>>
          /\ IF t.kind = "get" \/ (t.kind = "redeem" /\ found.status # "ready_to_redeem")
             THEN Ends(s)
             ELSE Goes(s, [t EXCEPT !.held = @ \cup {Row(e)},
                                    !.pc = IF t.kind = "redeem" THEN "seat" ELSE "commit"])
  /\ UNCHANGED <<policy, owners, inviter, channel, children, granted, redeemed>> /\ Counters

Writes(s, e, to, en) ==
  /\ Ends(s) /\ enrollments' = Moves(e, to, en) /\ trail' = Trail(e, enrollments[e].status, to, trail)
  /\ UNCHANGED <<policy, owners, inviter, channel, children, granted, redeemed>> /\ Counters
Refused(s) == Ends(s) /\ Locking

CommitReview(s) ==
  LET t == tx[s]
      e == t.id
      to == IF t.arg = "approve" THEN "ready_to_redeem" ELSE "rejected" IN
  /\ At(s, {"review"}, "commit")
  /\ IF enrollments[e].status \in Open /\ enrollments[e].reviewed = Nobody
     THEN Writes(s, e, to, [enrollments EXCEPT ![e].reviewed = t.by]) ELSE Refused(s)

CommitCancel(s) ==
  LET e == tx[s].id IN
  /\ At(s, {"cancel"}, "commit")
  /\ IF enrollments[e].status \in Open THEN Writes(s, e, "cancelled", enrollments) ELSE Refused(s)

\* FOR SHARE of the channel, and of the inviting agent's membership of it
\* mutant: the restricted channel's rows are read without FOR SHARE
SeatWithoutLock(s) ==
  LET t == tx[s]
      e == enrollments[t.id] IN
  /\ At(s, {"redeem"}, "seat")
  /\ IF e.seats /\ ~(channel.open /\ (e.by = Inviter => channel.joined)) THEN Ends(s)
     ELSE Goes(s, [t EXCEPT !.pc = "workspace"])
  /\ Locking
requireSeatAuthority(s) ==
  LET t == tx[s]
      e == enrollments[t.id]
      rows == IF e.seats THEN {Conversation} ELSE {} IN
  /\ At(s, {"redeem"}, "seat") /\ mayShare(s, rows)
  /\ IF e.seats /\ ~(channel.open /\ (e.by = Inviter => channel.joined)) THEN Ends(s)
     ELSE Goes(s, [t EXCEPT !.pc = "workspace", !.shared = @ \cup rows])
  /\ Locking

\* under the workspace's row: the policy, the requester, the room; then everything at once
CommitRedeem(s) ==
  LET t == tx[s]
      e == t.id
      row == enrollments[e]
      room == activeMembers < MaxMembers IN
  /\ At(s, {"redeem"}, "commit")
  /\ IF (policy # "automatic" /\ row.reviewed = Nobody) \/ ~mayRequest(row.by) \/ ~room
     THEN Refused(s)
     ELSE /\ Ends(s) /\ enrollments' = Moves(e, "active", enrollments)
          /\ trail' = Trail(e, "ready_to_redeem", "active", trail)
          /\ children' = [children EXCEPT ![e] = [member |-> "active", token |-> "live", seated |-> row.seats]]
          /\ redeemed' = [redeemed EXCEPT ![e] = IF @ < 2 THEN @ + 1 ELSE @]
          /\ granted' = granted \cup {[policy |-> policy = "automatic" \/ row.reviewed # Nobody,
                                       requester |-> mayRequest(row.by), room |-> room,
                                       seats |-> row.seats => channel.open /\ (row.by = Inviter => channel.joined)]}
          /\ UNCHANGED <<policy, owners, inviter, channel>> /\ Counters

\* what ends an authority: each takes the rows it changes, and the workspace's, in its own order

DisableAgent(s, o, e) == Starts(s, Asked("disable", "target", o, e, "none"))
AgentTokens(s, kind, o, e) == Starts(s, Asked(kind, "target", o, e, "none"))
Demote(s) == Starts(s, Asked("demote", "target", Requesting, 0, "none"))
Channel(s, kind) == Starts(s, Asked(kind, "target", Nobody, 0, "none"))
AgentRow(e) == IF e = 0 THEN InviterRow ELSE Child(e)

\* a membership before the workspace, as deliveries do; an owner's token operations the other way
LockTarget(s) ==
  LET t == tx[s]
      rows == CASE t.kind = "disable" -> {AgentRow(t.id)} [] t.kind = "demote" -> {OwnerRow(t.by)}
                [] t.kind \in {"leave", "archive"} -> {Conversation} [] OTHER -> {Workspace} IN
  /\ At(s, {"disable", "demote", "token", "revoke", "leave", "archive"}, "target") /\ mayLock(s, rows)
  /\ Goes(s, [t EXCEPT !.held = @ \cup rows,
                       !.pc = IF t.kind \in {"disable", "demote"} THEN "workspace" ELSE "commit"])
  /\ Locking

agentActive(e) == IF e = 0 THEN inviter.active ELSE children[e].member = "active"
CommitDisable(s) ==
  LET t == tx[s]
      e == t.id IN
  /\ At(s, {"disable"}, "commit")
  /\ IF t.by \notin owners \/ (e # 0 /\ children[e].member = "none") THEN Refused(s)
     ELSE /\ Ends(s)
          /\ IF e = 0 THEN inviter' = [active |-> FALSE, token |-> FALSE] /\ UNCHANGED children
             ELSE /\ children' = [children EXCEPT ![e].member = "revoked", ![e].token = "revoked"]
                  /\ UNCHANGED inviter
          /\ UNCHANGED <<policy, owners, channel, enrollments, trail, granted, redeemed>> /\ Counters

\* createAgentToken of an active agent; revokeAgentToken waits for whoever shares the token's row
CommitToken(s) ==
  LET t == tx[s]
      e == t.id IN
  /\ At(s, {"token", "revoke"}, "commit")
  /\ IF t.by \notin owners \/ (e # 0 /\ children[e].member = "none") \/ (t.kind = "token" /\ ~agentActive(e))
     THEN Refused(s)
     ELSE /\ Ends(s) /\ (t.kind = "revoke" => mayLock(s, {AgentRow(e)}))
          /\ IF e = 0 THEN inviter' = [inviter EXCEPT !.token = t.kind = "token" /\ @] /\ UNCHANGED children
             ELSE /\ children' = [children EXCEPT ![e].token = IF t.kind = "token" THEN "live" ELSE "revoked"]
                  /\ UNCHANGED inviter
          /\ UNCHANGED <<policy, owners, channel, enrollments, trail, granted, redeemed>> /\ Counters

CommitOther(s) ==
  LET t == tx[s] IN
  /\ At(s, {"demote", "leave", "archive"}, "commit") /\ Ends(s)
  /\ owners' = IF t.kind = "demote" THEN owners \ {t.by} ELSE owners
  /\ channel' = CASE t.kind = "leave" -> [channel EXCEPT !.joined = FALSE]
                  [] t.kind = "archive" -> [channel EXCEPT !.open = FALSE] [] OTHER -> channel
  /\ UNCHANGED <<policy, inviter, enrollments, trail, children, granted, redeemed>> /\ Counters

\* the victim of a deadlock runs again, from its start
Aborts(s) ==
  LET t == tx[s]
      first == CASE t.kind = "redeem" -> "row" [] t.kind \in {"disable", "demote", "token", "revoke", "leave", "archive"}
                 -> "target" [] OTHER -> "actor" IN
  /\ (t.pc = "commit" => t.kind \in {"policy", "revoke"}) /\ t.held \cup t.shared # {}
  /\ aborted < MaxAborts /\ aborted + today < MaxHappenings /\ aborted' = aborted + 1
  /\ \E o \in Sessions \ {s} : tx[o].held \cup tx[o].shared # {}
  /\ IF t.tries < MaxRetries /\ t.kind # "disable" /\ t.kind # "token"
     THEN Goes(s, [Asked(t.kind, first, t.by, t.id, t.arg) EXCEPT !.at = today, !.tries = t.tries + 1])
     ELSE Ends(s)
  /\ UNCHANGED <<Data, today, started>>

DayPasses ==
  /\ today < MaxDays /\ aborted + today < MaxHappenings /\ today' = today + 1
  /\ UNCHANGED <<Data, tx, aborted, started>>

Asks(s) ==
  \/ \E o \in Owners, m \in Modes : SetPolicy(s, o, m)
  \/ \E who \in {Requesting, Inviter}, e \in Ids, a \in {"none", "seats"} : Request(s, who, e, a)
  \/ \E who \in {Requesting, Inviter} : List(s, who) \/ \E e \in Ids : Reads(s, "cancel", who, e)
  \/ \E e \in Ids : Reads(s, "get", Inviter, e)
  \/ \E o \in Owners, e \in Ids, d \in {"approve", "reject"} : Review(s, o, e, d)
  \/ \E e \in Ids : Redeem(s, e)
  \/ \E o \in Owners \ {Requesting}, e \in {0} \cup Ids : DisableAgent(s, o, e) \/ AgentTokens(s, "revoke", o, e)
  \/ \E e \in Ids : AgentTokens(s, "token", Requesting, e)
  \/ Demote(s) \/ Channel(s, "leave") \/ Channel(s, "archive")

Steps(s) ==
  \/ requireRequester(s) \/ expireWorkspaceEnrollments(s) \/ lockIdempotencyScope(s) \/ LockWorkspace(s)
  \/ CommitPolicy(s) \/ CommitRequest(s) \/ CommitList(s) \/ LockEnrollment(s) \/ CommitReview(s)
  \/ CommitCancel(s) \/ requireSeatAuthority(s) \/ CommitRedeem(s) \/ LockTarget(s) \/ CommitDisable(s)
  \/ CommitToken(s) \/ CommitOther(s) \/ Aborts(s)

Next == DayPasses \/ \E s \in Sessions : Asks(s) \/ Steps(s)
Spec == Init /\ [][Next]_enrVars

-----------------------------------------------------------------------------
(* Under the approval policy nothing that an owner has not approved can be redeemed, and   *)
(* under the automatic one nothing waits for an approval: a request that was deciding its   *)
(* status when the policy changed is on the right side of it.                              *)
PolicyGoverns ==
  \A e \in Ids : enrollments[e].reviewed = Nobody =>
    enrollments[e].status # (IF policy = "required" THEN "ready_to_redeem" ELSE "pending_approval")

(* An agent is activated only while the policy or a review allows it, its requester may     *)
(* still invite, the requester's seat in the restricted channel stands and there is room:   *)
(* a revocation, a demotion, an archive or a departure that committed first prevents it.    *)
ActivatedWhileAllowed == \A g \in granted : g.policy /\ g.requester /\ g.seats /\ g.room

(* A credential activates one agent, however often and concurrently it is redeemed, and a   *)
(* disabled agent holds no live token whatever token operations raced with the disabling.   *)
OneAgent ==
  /\ \A e \in Ids : redeemed[e] <= 1 /\ (redeemed[e] = 1 <=> enrollments[e].status = "active")
  /\ \A e \in Ids : children[e].member = "revoked" => children[e].token # "live"
  /\ activeMembers <= MaxMembers

(* The audit trail of an enrollment is one chain from its creation to its status, though    *)
(* reviews, policy changes, expiries and redemptions each write their own link.             *)
AuditChains ==
  \A e \in Ids :
    /\ \A i \in 1..Len(trail[e]) : trail[e][i].from = (IF i = 1 THEN "none" ELSE trail[e][i - 1].to)
    /\ (enrollments[e].status # "none" => trail[e] # <<>> /\ trail[e][Len(trail[e])].to = enrollments[e].status)

(* An enrollment that ended never changes again, and a decision keeps its reviewer.         *)
EndedIsFinal ==
  \A e \in Ids : /\ enrollments[e].status \in Statuses \ (Open \cup {"none"}) => enrollments'[e] = enrollments[e]
                 /\ enrollments[e].reviewed # Nobody => enrollments'[e].reviewed = enrollments[e].reviewed
=============================================================================
