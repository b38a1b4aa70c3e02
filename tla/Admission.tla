------------------------------ MODULE Admission ------------------------------
(* Who belongs to a workspace: invitations, their activation by a sign-in link and by    *)
(* the provider's identity, agents, and the owner command (identity/service.ts,           *)
(* repository.ts, authkit-repository.ts, owner-cli.ts).  Each transaction is a sequence of *)
(* statements that take row locks and hold them to its end; what it writes is seen when it  *)
(* commits.  Any waiting transaction may be aborted (a deadlock's victim, a lost            *)
(* connection); those that retry deadlocks start again.                                    *)
EXTENDS Naturals, FiniteSets

CONSTANTS Sessions,     \* database sessions at work
          Owners,       \* humans who own the workspace at first
          Guests,       \* humans who may be invited; their addresses share a username base
          Agent,        \* an agent that may be created once
          Nobody,
          Subjects,     \* the provider's subjects
          MaxMembers,   \* MAX_ACTIVE_MEMBERS
          MaxInvitations, MaxDays,
          MaxRetries,   \* deadlockRetries
          MaxAborts, MaxBegun

VARIABLES
  day,
  roster,     \* workspace_memberships: [status, role]
  usernames,  \* users: principal -> the suffix of its username, 0 before it exists
  invitations,\* [email, status, expires]
  bindings,   \* external_identities: subject -> user
  sessions_,  \* [Sessions -> the transaction in progress]
  acts,       \* history: what an owner's transaction committed, with who asked
  activatedBy,\* history: invitation -> activations it made
  aborts, begun

admVars == <<day, roster, usernames, invitations, bindings, sessions_, acts, activatedBy, aborts, begun>>

Humans == Owners \cup Guests
Principals == Humans \cup {Agent}
Invitations == 1..MaxInvitations
Names == 1..Cardinality(Guests) + 1
NoTx == [kind |-> "none", pc |-> "none", who |-> Nobody, by |-> Nobody, inv |-> 0, at |-> 0,
         name |-> 0, was |-> "none", subject |-> Nobody, held |-> {}, tries |-> 0]
Locks == {<<"invitation", i>> : i \in Invitations} \cup {<<"member", u>> : u \in Principals}
         \cup {<<"user", u>> : u \in Humans} \cup {<<"name", n>> : n \in Names} \cup {<<"workspace", 0>>}

TypeOK ==
  /\ day \in 0..MaxDays /\ aborts \in 0..MaxAborts /\ begun \in 0..MaxBegun
  /\ roster \in [Principals -> [status : {"none", "active", "revoked"}, role : {"owner", "member"}]]
  /\ usernames \in [Guests -> {0} \cup Names]
  /\ invitations \in [Invitations -> [email : Humans \cup {Nobody}, expires : 0..MaxDays + 1,
                        status : {"none", "pending", "accepted", "revoked", "expired"}]]
  /\ bindings \in [Subjects -> Humans \cup {Nobody}]
  /\ sessions_ \in [Sessions ->
       [kind : {"none", "redeem", "admit", "invite", "revoke", "agent", "disable", "promote", "demote"},
        pc : {"none", "invitation", "user", "insert", "roster", "workspace", "commit", "locate",
              "owner", "expire", "write", "target"},
        who : Principals \cup {Nobody}, by : Humans \cup {Nobody}, inv : 0..MaxInvitations,
        at : 0..MaxDays, name : {0} \cup Names, was : {"none", "active", "revoked", "owner", "member"},
        subject : Subjects \cup {Nobody}, held : SUBSET Locks, tries : 0..MaxRetries]]
  /\ acts \subseteq [what : {"invite", "agent", "disable"}, asOwner : BOOLEAN]
  /\ activatedBy \in [Invitations -> 0..2]

\* seedOwner has run, and an operator has promoted the other owners
Init ==
  /\ day = 0 /\ aborts = 0 /\ begun = 0 /\ acts = {}
  /\ roster = [u \in Principals |-> IF u \in Owners THEN [status |-> "active", role |-> "owner"]
                                    ELSE [status |-> "none", role |-> "member"]]
  /\ usernames = [u \in Guests |-> 0]
  /\ invitations = [i \in Invitations |-> [email |-> Nobody, status |-> "none", expires |-> 0]]
  /\ bindings = [s \in Subjects |-> Nobody]
  /\ sessions_ = [s \in Sessions |-> NoTx]
  /\ activatedBy = [i \in Invitations |-> 0]

\* transactions and their locks

Free(s, locks) == \A o \in Sessions \ {s} : sessions_[o].held \cap locks = {}
Set(s, tx) == sessions_' = [sessions_ EXCEPT ![s] = tx]
Ends(s) == Set(s, NoTx)
Steps(s, pc, locks) == Set(s, [sessions_[s] EXCEPT !.pc = pc, !.held = @ \cup locks])
Data == <<roster, usernames, invitations, bindings, acts, activatedBy>>
Begin(s, tx) ==
  /\ sessions_[s] = NoTx /\ begun < MaxBegun /\ begun' = begun + 1
  /\ Set(s, [tx EXCEPT !.at = day]) /\ UNCHANGED <<Data, day, aborts>>
NothingElse == UNCHANGED <<day, aborts, begun>>
OnlySession == UNCHANGED Data /\ NothingElse

countActiveMembers == Cardinality({u \in Principals : roster[u].status = "active"})
IsOwner(u) == roster[u].status = "active" /\ roster[u].role = "owner"
Exists(u) == u \in Guests => usernames[u] # 0
FreeNames == Names \ {usernames[u] : u \in Guests}
Pending(i) == invitations[i].status = "pending"
Redeemable(i, now) == Pending(i) /\ invitations[i].expires > now
\* one statement over the audience: every human and every active agent
AudienceMemberships == {<<"member", u>> : u \in {p \in Principals :
                          (p \in Humans /\ roster[p].status # "none") \/ roster[p].status = "active"}}

\* a user has one subject, and a subject, by the unique index, one user
MayBind(subject, u) ==
  /\ bindings[subject] \in {u, Nobody}
  /\ \A o \in Subjects \ {subject} : bindings[o] # u

\* a sign-in link's activation: the invitation first, whoever else holds a link to it
RedeemMagicLink(s, i) ==
  /\ invitations[i].status # "none"
  /\ Begin(s, [NoTx EXCEPT !.kind = "redeem", !.pc = "invitation", !.who = invitations[i].email])

LockInvitation(s) ==
  LET t == sessions_[s] IN
  /\ t.kind = "redeem" /\ t.pc = "invitation"
  /\ \E i \in Invitations :
       /\ invitations[i].email = t.who /\ Free(s, {<<"invitation", i>>})
       /\ IF Redeemable(i, t.at)
          THEN Set(s, [t EXCEPT !.pc = "user", !.inv = i, !.held = @ \cup {<<"invitation", i>>}])
          ELSE Ends(s)
  /\ OnlySession

\* findUserByEmail, or the first username that is free so far
FindOrNameUser(s) ==
  LET t == sessions_[s] IN
  /\ t.pc = "user"
  /\ IF Exists(t.who) THEN Set(s, [t EXCEPT !.pc = "roster"])
     ELSE \E n \in FreeNames : /\ \A o \in FreeNames : n <= o
                               /\ Set(s, [t EXCEPT !.pc = "insert", !.name = n])
  /\ OnlySession

\* the insert waits for another of the same username; if that one commits this request fails,
\* while the provider's path goes on with the next suffix
InsertUser(s) ==
  LET t == sessions_[s] IN
  /\ t.pc = "insert" /\ Free(s, {<<"name", t.name>>})
  /\ \/ t.name \in FreeNames /\ Steps(s, "roster", {<<"name", t.name>>})
     \/ t.name \notin FreeNames /\ t.kind = "redeem" /\ Ends(s)
     \/ t.name \notin FreeNames /\ t.kind = "admit" /\ Set(s, [t EXCEPT !.pc = "user", !.name = 0])
  /\ OnlySession

\* humans-only conversations, the audience's memberships and the member's own, then the status
LockAudience(s) ==
  LET t == sessions_[s]
      locks == AudienceMemberships \cup {<<"member", t.who>>} IN
  /\ t.pc = "roster" /\ Free(s, locks)
  /\ Set(s, [t EXCEPT !.pc = "workspace", !.held = @ \cup locks, !.was = roster[t.who].status])
  /\ OnlySession

LockWorkspace(s) ==
  LET t == sessions_[s] IN
  /\ t.pc = "workspace" /\ Free(s, {<<"workspace", 0>>})
  /\ Steps(s, IF t.kind = "invite" THEN "expire" ELSE "commit", {<<"workspace", 0>>})
  /\ OnlySession

\* capacity, the invitation's end and the membership, together; an active member keeps its role
ActivateInvitation(s) ==
  LET t == sessions_[s]
      activates == t.was # "active" IN
  /\ t.kind \in {"redeem", "admit"} /\ t.pc = "commit" /\ Ends(s)
  /\ IF (activates => countActiveMembers < MaxMembers) /\ Redeemable(t.inv, t.at)
        /\ (t.kind = "admit" => MayBind(t.subject, t.who))
     THEN /\ invitations' = [invitations EXCEPT ![t.inv].status = "accepted"]
          /\ roster' = IF activates
                       THEN [roster EXCEPT ![t.who] = [status |-> "active", role |-> "member"]]
                       ELSE roster
          /\ usernames' = IF t.name # 0 THEN [usernames EXCEPT ![t.who] = t.name] ELSE usernames
          /\ bindings' = IF t.kind = "admit" THEN [bindings EXCEPT ![t.subject] = t.who] ELSE bindings
          /\ activatedBy' = [activatedBy EXCEPT ![t.inv] = IF @ < 2 THEN @ + 1 ELSE @]
     ELSE UNCHANGED <<invitations, roster, usernames, bindings, activatedBy>>
  /\ UNCHANGED acts /\ NothingElse

\* the provider's identity: its subject, and the address the provider verified
AdmitIdentity(s, subject, email) ==
  Begin(s, [NoTx EXCEPT !.kind = "admit", !.pc = "locate", !.who = email, !.subject = subject])

\* a known subject must still be that user, active and of that address; an active member of the
\* address is bound; anybody else needs the newest pending invitation of the address
ResolveIdentity(s) ==
  LET t == sessions_[s]
      known == bindings[t.subject]
      locks == {<<"user", t.who>>, <<"member", t.who>>}
      found == {i \in Invitations : invitations[i].email = t.who /\ Redeemable(i, t.at)} IN
  /\ t.kind = "admit" /\ t.pc = "locate"
  /\ \/ /\ known # Nobody \/ roster[t.who].status = "active"
        /\ Free(s, locks) /\ Ends(s)
        /\ bindings' = IF MayBind(t.subject, t.who) /\ roster[t.who].status = "active"
                       THEN [bindings EXCEPT ![t.subject] = t.who] ELSE bindings
     \/ /\ known = Nobody /\ roster[t.who].status # "active" /\ UNCHANGED bindings
        /\ \/ \E i \in found :
                /\ \A o \in found : o <= i
                /\ Free(s, {<<"invitation", i>>})
                /\ Set(s, [t EXCEPT !.pc = "user", !.inv = i, !.held = @ \cup {<<"invitation", i>>}])
           \/ found = {} /\ Ends(s)
  /\ UNCHANGED <<roster, usernames, invitations, acts, activatedBy>> /\ NothingElse

\* the owner's operations: ownership chooses the workspace to lock, and is checked again under it
AsksAsOwner(s, kind, who, by) ==
  Begin(s, [NoTx EXCEPT !.kind = kind, !.pc = "owner", !.who = who, !.by = by])

RequireOwner(s) ==
  LET t == sessions_[s] IN
  /\ t.pc = "owner"
  /\ IF ~IsOwner(t.by) THEN Ends(s)
     ELSE Set(s, [t EXCEPT !.pc = CASE t.kind = "revoke" -> "write" [] t.kind = "disable" -> "target"
                                    [] OTHER -> "workspace"])
  /\ OnlySession

\* disableAgent takes the agent's membership before the workspace, as deliveries do
LockTarget(s) ==
  LET t == sessions_[s] IN
  /\ t.kind = "disable" /\ t.pc = "target" /\ Free(s, {<<"member", t.who>>})
  /\ IF IsOwner(t.by) THEN Steps(s, "workspace", {<<"member", t.who>>}) ELSE Ends(s)
  /\ OnlySession

Records(what, by) == acts' = acts \cup {[what |-> what, asOwner |-> IsOwner(by)]}
\* mutant: ownership is not checked again under the workspace's lock
OwnedOnce(t) == t.by \in Owners \cup Guests
StillOwner(t) == IsOwner(t.by)

\* every pending invitation whose time is over expires first, whoever holds it
ExpireInvitations(s) ==
  LET t == sessions_[s]
      over == {i \in Invitations : Pending(i) /\ invitations[i].expires <= t.at} IN
  /\ t.kind = "invite" /\ t.pc = "expire" /\ Free(s, {<<"invitation", i>> : i \in over})
  /\ IF StillOwner(t) /\ countActiveMembers < MaxMembers
     THEN Steps(s, "commit", {<<"invitation", i>> : i \in over})
     ELSE Ends(s)
  /\ OnlySession

CreateInvitation(s) ==
  LET t == sessions_[s]
      expired == [i \in Invitations |-> IF <<"invitation", i>> \in t.held
                                        THEN [invitations[i] EXCEPT !.status = "expired"]
                                        ELSE invitations[i]]
      fresh == {i \in Invitations : invitations[i].status = "none"} IN
  /\ t.kind = "invite" /\ t.pc = "commit" /\ Ends(s)
  /\ IF \E i \in Invitations : expired[i].email = t.who /\ expired[i].status = "pending"
     THEN UNCHANGED <<invitations, acts>>
     ELSE /\ fresh # {} /\ Records("invite", t.by)
          /\ LET n == CHOOSE i \in fresh : \A o \in fresh : i <= o IN
             invitations' = [expired EXCEPT ![n] = [email |-> t.who, status |-> "pending",
                                                    expires |-> t.at + 1]]
  /\ UNCHANGED <<roster, usernames, bindings, activatedBy>> /\ NothingElse

\* GET /invitations expires what is over, too, without the workspace's lock
ListInvitations ==
  LET over == {i \in Invitations : Pending(i) /\ invitations[i].expires <= day} IN
  /\ over # {} /\ \A s \in Sessions : sessions_[s].held \cap {<<"invitation", i>> : i \in over} = {}
  /\ invitations' = [i \in Invitations |-> IF i \in over THEN [invitations[i] EXCEPT !.status = "expired"]
                                           ELSE invitations[i]]
  /\ UNCHANGED <<roster, usernames, bindings, sessions_, acts, activatedBy>> /\ NothingElse

\* one statement that matches only a pending invitation, waiting for an activation of it
RevokeInvitation(s) ==
  LET t == sessions_[s] IN
  /\ t.kind = "revoke" /\ t.pc = "write" /\ Ends(s)
  /\ \E i \in Invitations :
       /\ invitations[i].email = t.who /\ Free(s, {<<"invitation", i>>})
       /\ invitations' = IF Pending(i) THEN [invitations EXCEPT ![i].status = "revoked"] ELSE invitations
  /\ UNCHANGED <<roster, usernames, bindings, acts, activatedBy>> /\ NothingElse

CreateAgent(s) ==
  LET t == sessions_[s] IN
  /\ t.kind = "agent" /\ t.pc = "commit" /\ Ends(s)
  /\ IF StillOwner(t) /\ countActiveMembers < MaxMembers /\ roster[Agent].status = "none"
     THEN /\ roster' = [roster EXCEPT ![Agent] = [status |-> "active", role |-> "member"]]
          /\ Records("agent", t.by)
     ELSE UNCHANGED <<roster, acts>>
  /\ UNCHANGED <<usernames, invitations, bindings, activatedBy>> /\ NothingElse

DisableAgent(s) ==
  LET t == sessions_[s] IN
  /\ t.kind = "disable" /\ t.pc = "commit" /\ Ends(s)
  /\ IF StillOwner(t) /\ roster[Agent].status # "none"
     THEN roster' = [roster EXCEPT ![Agent].status = "revoked"] /\ Records("disable", t.by)
     ELSE UNCHANGED <<roster, acts>>
  /\ UNCHANGED <<usernames, invitations, bindings, activatedBy>> /\ NothingElse

\* the owner command: user, membership (where the role is read), workspace
ChangeOwnerRole(s, kind, who) ==
  /\ Exists(who) /\ Begin(s, [NoTx EXCEPT !.kind = kind, !.pc = "target", !.who = who])

RequireMembership(s) ==
  LET t == sessions_[s] IN
  /\ t.kind \in {"promote", "demote"} /\ t.pc = "target"
  /\ Free(s, {<<"user", t.who>>, <<"member", t.who>>})
  /\ IF roster[t.who].status = "active"
     THEN Set(s, [t EXCEPT !.pc = "workspace", !.was = roster[t.who].role,
                           !.held = @ \cup {<<"user", t.who>>, <<"member", t.who>>}])
     ELSE Ends(s)
  /\ OnlySession

LastOwner == Cardinality({u \in Humans : IsOwner(u)}) <= 1

WriteRole(s) ==
  LET t == sessions_[s] IN
  /\ t.kind \in {"promote", "demote"} /\ t.pc = "commit" /\ Ends(s)
  /\ roster' = CASE t.kind = "promote" /\ t.was = "member" -> [roster EXCEPT ![t.who].role = "owner"]
                 [] t.kind = "demote" /\ t.was = "owner" /\ ~LastOwner ->
                      [roster EXCEPT ![t.who].role = "member"]
                 [] OTHER -> roster
  /\ UNCHANGED <<usernames, invitations, bindings, acts, activatedBy>> /\ NothingElse

\* a transaction that waits is aborted; an activation starts again, with the clock it had
Aborts(s) ==
  LET t == sessions_[s]
      again == t.kind \in {"redeem", "admit"} /\ t.tries < MaxRetries IN
  /\ t.held # {} /\ t.pc # "commit" /\ aborts < MaxAborts /\ aborts' = aborts + 1
  /\ \E o \in Sessions \ {s} : sessions_[o].held # {}
  /\ Set(s, IF again THEN [NoTx EXCEPT !.kind = t.kind, !.who = t.who, !.subject = t.subject,
                             !.at = t.at, !.tries = t.tries + 1,
                             !.pc = IF t.kind = "redeem" THEN "invitation" ELSE "locate"]
            ELSE NoTx)
  /\ UNCHANGED <<Data, day, begun>>

DayPasses ==
  /\ day < MaxDays /\ day' = day + 1
  /\ UNCHANGED <<Data, sessions_, aborts, begun>>

Next ==
  \/ \E s \in Sessions :
       \/ \E i \in Invitations : RedeemMagicLink(s, i)
       \/ \E u \in Subjects, e \in Guests : AdmitIdentity(s, u, e)
       \/ \E e \in Guests, by \in Owners : AsksAsOwner(s, "invite", e, by) \/ AsksAsOwner(s, "revoke", e, by)
       \/ \E by \in Owners : AsksAsOwner(s, "agent", Agent, by) \/ AsksAsOwner(s, "disable", Agent, by)
       \/ \E u \in Humans : Exists(u) /\ (ChangeOwnerRole(s, "promote", u) \/ ChangeOwnerRole(s, "demote", u))
       \/ LockInvitation(s) \/ FindOrNameUser(s) \/ InsertUser(s) \/ LockAudience(s) \/ LockWorkspace(s)
       \/ ActivateInvitation(s) \/ ResolveIdentity(s) \/ RequireOwner(s) \/ LockTarget(s)
       \/ ExpireInvitations(s) \/ CreateInvitation(s) \/ RevokeInvitation(s) \/ CreateAgent(s)
       \/ DisableAgent(s) \/ RequireMembership(s) \/ WriteRole(s) \/ Aborts(s)
  \/ ListInvitations \/ DayPasses

Spec == Init /\ [][Next]_admVars

-----------------------------------------------------------------------------
(* However activations, agents and their retries interleave, the workspace never holds     *)
(* more than its active members (the count is read under the workspace's lock).            *)
CapacityHeld == countActiveMembers <= MaxMembers

(* Concurrent demotions never leave the workspace without an active owner.                *)
KeepsAnOwner == \E u \in Humans : IsOwner(u)

(* What an owner asks commits only while its asker still is one: a demotion in between is  *)
(* seen by the second check, under the workspace's lock.                                  *)
ActsAsOwner == \A a \in acts : a.asOwner

(* An invitation is activated at most once, by a link or by the provider, and never after   *)
(* it was revoked or expired; two users never share a username.                           *)
ActivatedOnce ==
  /\ \A i \in Invitations : activatedBy[i] <= 1
  /\ \A i \in Invitations : activatedBy[i] = 1 <=> invitations[i].status = "accepted"
  /\ \A u, w \in Guests : u # w /\ usernames[u] # 0 => usernames[u] # usernames[w]

(* A subject the provider bound to a user stays that user's, and no user has two.          *)
BoundForGood ==
  /\ \A u \in Subjects : bindings[u] # Nobody => bindings'[u] = bindings[u]
  /\ \A u, w \in Subjects : u # w /\ bindings'[u] # Nobody => bindings'[u] # bindings'[w]

(* An invitation that ended stays as it ended, and an activation never lowers or raises an  *)
(* active member's role: only the owner command does.                                     *)
EndsAreFinal ==
  /\ \A i \in Invitations : invitations[i].status \in {"accepted", "revoked", "expired"}
       => invitations'[i] = invitations[i]
  /\ \A u \in Humans : roster[u].status = "active" /\ roster'[u].role # roster[u].role
       => \E s \in Sessions : sessions_[s].kind \in {"promote", "demote"} /\ sessions_[s].who = u
=============================================================================
