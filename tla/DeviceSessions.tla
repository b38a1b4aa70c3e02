--------------------------- MODULE DeviceSessions ---------------------------
(* Sign-in links and device sessions on the server (identity/service.ts, the session     *)
(* statements of identity/repository.ts, the trigger of migration 0015 and the session    *)
(* routes): a link is burned before anything else is checked, a refresh rotates the       *)
(* credential of its session, and a credential presented after its rotation committed     *)
(* ends the session's lineage, while one that lost a race to a concurrent refresh is        *)
(* only refused.  Every statement is a step of its own, so requests interleave between     *)
(* statements, a response may be lost and the server may die anywhere.  One member.        *)
EXTENDS Naturals, FiniteSets

CONSTANTS Requests,      \* requests the server serves at once
          MaxLinks, MaxSessions,
          MaxTokens,     \* credentials ever issued
          MaxNow,        \* the clock
          LinkTTL, SessionTTL, WindowTTL,
          MaxDeliveries, \* links a window of the throttle lets out
          MaxChanges     \* changes of the member's membership

VARIABLES
  now,
  member,      \* the member's membership is active
  links,       \* magic_link_tokens: [state, expires]
  sessions,    \* device_sessions: [token, expires, revoked]; token 0 is no row
  history,     \* device_session_token_history: [session, expires]; session 0 is no row
  issued,      \* credentials issued so far
  reached,     \* credentials whose response reached the member's devices
  window,      \* the delivery throttle of the address: [attempts, reset]
  requests,    \* [Requests -> the request in progress]
  madeBy,      \* history: session -> the link it was made from
  changes

vars == <<now, member, links, sessions, history, issued, reached, window, requests, madeBy, changes>>

Links == 1..MaxLinks
SessionIds == 1..MaxSessions
Tokens == 1..MaxTokens
NoRow == [session |-> 0, expires |-> 0]
NoRequest == [kind |-> "none", pc |-> "none", at |-> 0, token |-> 0, id |-> 0, seen |-> {},
              was |-> "none"]

TypeOK ==
  /\ now \in 0..MaxNow /\ member \in BOOLEAN /\ issued \in 0..MaxTokens
  /\ links \in [Links -> [state : {"none", "sent", "consumed"}, expires : 0..MaxNow + LinkTTL]]
  /\ sessions \in [SessionIds -> [token : 0..MaxTokens, expires : 0..MaxNow + SessionTTL,
                                  revoked : BOOLEAN]]
  /\ history \in [Tokens -> [session : 0..MaxSessions, expires : 0..MaxNow + SessionTTL]]
  /\ reached \subseteq Tokens
  /\ window \in [attempts : 0..MaxDeliveries, reset : 0..MaxNow + WindowTTL]
  /\ requests \in [Requests ->
       [kind : {"none", "redeem", "refresh"}, pc : {"none", "consume", "resolve", "create",
          "check", "answer", "statement", "lookup", "reused", "refused"},
        at : 0..MaxNow, token : 0..MaxTokens, id : 0..MaxLinks + MaxSessions, seen : SUBSET Tokens,
        was : {"none", "current", "replaced"}]]
  /\ madeBy \in [SessionIds -> 0..MaxLinks] /\ changes \in 0..MaxChanges

Init ==
  /\ now = 0 /\ member = TRUE /\ issued = 0 /\ reached = {} /\ changes = 0
  /\ links = [l \in Links |-> [state |-> "none", expires |-> 0]]
  /\ sessions = [s \in SessionIds |-> [token |-> 0, expires |-> 0, revoked |-> FALSE]]
  /\ history = [t \in Tokens |-> NoRow]
  /\ window = [attempts |-> 0, reset |-> 0]
  /\ requests = [r \in Requests |-> NoRequest]
  /\ madeBy = [s \in SessionIds |-> 0]

\* the statements

\* rows an UPDATE ... WHERE token_hash = t AND revoked_at IS NULL finds
\* mutant: the WHERE clause forgets revoked_at
LiveThoughRevoked(t) == {s \in SessionIds : sessions[s].token = t /\ t # 0}
Live(t) == {s \in SessionIds : sessions[s].token = t /\ t # 0 /\ ~sessions[s].revoked}
\* credentials a committed rotation has replaced
Replaced == {t \in Tokens : history[t].session # 0}
Revoked(ids) == [s \in SessionIds |-> [sessions[s] EXCEPT !.revoked = @ \/ s \in ids]]
\* the rotation and its trigger: the history row keeps the expiry the credential had
Rotated(s, next, expires) ==
  /\ sessions' = [sessions EXCEPT ![s].token = next, ![s].expires = expires]
  /\ history' = [history EXCEPT ![sessions[s].token] =
                   [session |-> s, expires |-> sessions[s].expires]]
\* mutant: the lifetime is added twice
LivesTwice(s, token, expires) ==
  sessions' = [sessions EXCEPT ![s] = [token |-> token, expires |-> expires + SessionTTL, revoked |-> FALSE]]
Inserted(s, token, expires) ==
  sessions' = [sessions EXCEPT ![s] = [token |-> token, expires |-> expires, revoked |-> FALSE]]
\* mutant: the link is not burned
NeverConsumed(l) == l \in Links /\ UNCHANGED links
Consumed(l) == links' = [links EXCEPT ![l].state = "consumed"]

Go(r, req) == requests' = [requests EXCEPT ![r] = req]
Ends(r) == Go(r, NoRequest)
Begin(r, kind, pc, token, id) ==
  requests[r].kind = "none"
  /\ Go(r, [NoRequest EXCEPT !.kind = kind, !.pc = pc, !.at = now, !.token = token, !.id = id])

\* the throttle's fixed window: pruned when it ended, then counted
Pruned == IF now >= window.reset THEN [attempts |-> 0, reset |-> now + WindowTTL] ELSE window
Reserves ==
  /\ Pruned.attempts < MaxDeliveries
  /\ window' = [Pruned EXCEPT !.attempts = @ + 1]

\* a link is issued only to a member, at most MaxDeliveries in a window
RequestMagicLink(l) ==
  /\ member /\ links[l].state = "none" /\ Reserves
  /\ links' = [links EXCEPT ![l] = [state |-> "sent", expires |-> now + LinkTTL]]
  /\ UNCHANGED <<now, member, sessions, history, issued, reached, requests, madeBy, changes>>

\* POST /auth/session: the clock is read, then the link is burned whatever follows
RedeemMagicLink(r, l) ==
  /\ links[l].state # "none" /\ Begin(r, "redeem", "consume", 0, l)
  /\ UNCHANGED <<now, member, links, sessions, history, issued, reached, window, madeBy, changes>>

ConsumeMagicLink(r) ==
  LET q == requests[r] IN
  /\ q.pc = "consume"
  /\ IF links[q.id].state = "sent"
     THEN /\ Consumed(q.id)
          /\ IF links[q.id].expires <= q.at THEN Ends(r) ELSE Go(r, [q EXCEPT !.pc = "resolve"])
     ELSE Ends(r) /\ UNCHANGED links
  /\ UNCHANGED <<now, member, sessions, history, issued, reached, window, madeBy, changes>>

ResolveActiveUser(r) ==
  /\ requests[r].pc = "resolve"
  /\ IF member THEN Go(r, [requests[r] EXCEPT !.pc = "create"]) ELSE Ends(r)
  /\ UNCHANGED <<now, member, links, sessions, history, issued, reached, window, madeBy, changes>>

CreateSession(r) ==
  LET q == requests[r]
      fresh == {s \in SessionIds : sessions[s].token = 0} IN
  /\ q.pc = "create" /\ issued < MaxTokens /\ fresh # {}
  /\ LET s == CHOOSE x \in fresh : \A y \in fresh : x <= y IN
     /\ Inserted(s, issued + 1, q.at + SessionTTL)
     /\ madeBy' = [madeBy EXCEPT ![s] = q.id]
     /\ Go(r, [q EXCEPT !.pc = "check", !.token = issued + 1])
  /\ issued' = issued + 1
  /\ UNCHANGED <<now, member, links, history, reached, window, changes>>

\* a session that is neither revoked nor over, of a member who still is one
Authenticates(t) == member /\ \E s \in Live(t) : sessions[s].expires > now

\* the route authenticates the new session before it answers
CheckCreated(r) ==
  LET q == requests[r] IN
  /\ q.pc = "check"
  /\ IF Authenticates(q.token)
     THEN Go(r, [q EXCEPT !.pc = "answer"])
     ELSE Ends(r)
  /\ UNCHANGED <<now, member, links, sessions, history, issued, reached, window, madeBy, changes>>

\* the response carries the credential to the device, or is lost
Answer(r) ==
  /\ requests[r].pc = "answer" /\ Ends(r)
  /\ \/ reached' = reached \cup {requests[r].token}
     \/ UNCHANGED reached
  /\ UNCHANGED <<now, member, links, sessions, history, issued, window, madeBy, changes>>

\* POST /auth/session/refresh, from a device or from a restored copy of one
RefreshSession(r, t) ==
  /\ t \in reached /\ Begin(r, "refresh", "statement", t, 0)
  /\ UNCHANGED <<now, member, links, sessions, history, issued, reached, window, madeBy, changes>>

\* the rotation starts: what its snapshot sees is fixed
RotationStarts(r) ==
  LET q == requests[r] IN
  /\ q.kind = "refresh" /\ q.pc = "statement" /\ q.was = "none"
  /\ Go(r, [q EXCEPT !.seen = Replaced,
                     !.was = IF q.token \in Replaced THEN "replaced" ELSE "current"])
  /\ UNCHANGED <<now, member, links, sessions, history, issued, reached, window, madeBy, changes>>

\* it gets the row's lock; a row that changed while it waited is matched again
RefreshRotates(r) ==
  LET q == requests[r]
      rows == {s \in Live(q.token) : sessions[s].expires > q.at} IN
  /\ q.kind = "refresh" /\ q.pc = "statement" /\ q.was # "none"
  /\ \/ \E s \in rows :
          /\ issued < MaxTokens /\ Rotated(s, issued + 1, q.at + SessionTTL)
          /\ issued' = issued + 1
          /\ Go(r, [q EXCEPT !.pc = "answer", !.token = issued + 1])
     \/ /\ rows = {} /\ Go(r, [q EXCEPT !.pc = "lookup"])
        /\ UNCHANGED <<sessions, history, issued>>
  /\ UNCHANGED <<now, member, links, reached, window, madeBy, changes>>

\* a rotation the snapshot already saw was committed before: the credential is reused
FoundReuse(q) == history[q.token].session # 0 /\ history[q.token].expires > q.at /\ q.token \in q.seen

RefreshLooksBack(r) ==
  LET q == requests[r] IN
  /\ q.pc = "lookup"
  /\ IF FoundReuse(q)
     THEN Go(r, [q EXCEPT !.pc = "reused", !.id = history[q.token].session])
     ELSE Go(r, [q EXCEPT !.pc = "refused"])
  /\ UNCHANGED <<now, member, links, sessions, history, issued, reached, window, madeBy, changes>>

RevokeLineage(r) ==
  /\ requests[r].pc = "reused"
  /\ sessions' = Revoked({requests[r].id}) /\ Go(r, [requests[r] EXCEPT !.pc = "refused"])
  /\ UNCHANGED <<now, member, links, history, issued, reached, window, madeBy, changes>>

RefreshRefused(r) ==
  /\ requests[r].pc = "refused" /\ Ends(r)
  /\ UNCHANGED <<now, member, links, sessions, history, issued, reached, window, madeBy, changes>>

\* DELETE /auth/session: whatever credential the cookie holds, one statement
SignOut(t) ==
  /\ t \in reached /\ Live(t) # {} /\ sessions' = Revoked(Live(t))
  /\ UNCHANGED <<now, member, links, history, issued, reached, window, requests, madeBy, changes>>

\* DELETE /auth/devices/:id, by a device that authenticates
RevokeDevice(s) ==
  /\ sessions[s].token # 0 /\ ~sessions[s].revoked
  /\ \E t \in reached : Authenticates(t)
  /\ sessions' = Revoked({s})
  /\ UNCHANGED <<now, member, links, history, issued, reached, window, requests, madeBy, changes>>

\* hourly: history a replay of which could no longer refresh anything
DeleteExpiredHistory ==
  /\ \E t \in Replaced : history[t].expires <= now
  /\ history' = [t \in Tokens |-> IF history[t].expires <= now THEN NoRow ELSE history[t]]
  /\ UNCHANGED <<now, member, links, sessions, issued, reached, window, requests, madeBy, changes>>

\* the process ends: its requests' transactions roll back, their callers hear nothing
Crash ==
  /\ \E r \in Requests : requests[r] # NoRequest
  /\ requests' = [r \in Requests |-> NoRequest]
  /\ UNCHANGED <<now, member, links, sessions, history, issued, reached, window, madeBy, changes>>

MembershipChanges ==
  /\ changes < MaxChanges /\ changes' = changes + 1 /\ member' = ~member
  /\ UNCHANGED <<now, links, sessions, history, issued, reached, window, requests, madeBy>>

Tick ==
  /\ now < MaxNow /\ now' = now + 1
  /\ UNCHANGED <<member, links, sessions, history, issued, reached, window, requests, madeBy, changes>>

Next ==
  \/ \E l \in Links : RequestMagicLink(l)
  \/ \E r \in Requests :
       \/ \E l \in Links : RedeemMagicLink(r, l)
       \/ \E t \in reached : RefreshSession(r, t)
       \/ ConsumeMagicLink(r) \/ ResolveActiveUser(r) \/ CreateSession(r) \/ CheckCreated(r)
       \/ Answer(r) \/ RotationStarts(r) \/ RefreshRotates(r) \/ RefreshLooksBack(r)
       \/ RevokeLineage(r) \/ RefreshRefused(r)
  \/ \E t \in reached : SignOut(t)
  \/ \E s \in SessionIds : RevokeDevice(s)
  \/ DeleteExpiredHistory \/ Crash \/ MembershipChanges \/ Tick

Spec == Init /\ [][Next]_vars

-----------------------------------------------------------------------------
(* A sign-in link makes at most one session, however its redemptions interleave: the      *)
(* burn comes before every check and outside every transaction that could undo it.        *)
LinkSpentOnce ==
  \A s, o \in SessionIds : s # o /\ madeBy[s] # 0 => madeBy[s] # madeBy[o]

(* A refresh that held the current credential when its statement started, and lost the    *)
(* row to a concurrent one, never ends the lineage (refreshDeviceSession).               *)
RaceIsNotReuse == \A r \in Requests : requests[r].pc = "reused" => requests[r].was = "replaced"

(* A refresh with a credential whose rotation was committed before it began, and whose    *)
(* own lifetime has not ended, is refused only once its session is revoked.              *)
ReuseEndsLineage ==
  \A r \in Requests :
    LET q == requests[r] IN
    q.pc = "refused" /\ q.was = "replaced" /\ history[q.token].expires > now
      => sessions[history[q.token].session].revoked

(* A revoked session never comes back and its credential is never renewed; a credential   *)
(* that was replaced never becomes a session's current one again.                        *)
RevokedIsFinal ==
  /\ \A s \in SessionIds : sessions[s].revoked => sessions'[s] = sessions[s]
  /\ \A s \in SessionIds : sessions'[s].token \in Replaced => sessions'[s] = sessions[s]
=============================================================================
