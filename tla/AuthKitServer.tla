---------------------------- MODULE AuthKitServer ----------------------------
(* Signing in through the provider, on the server: one-use transactions, the provider's  *)
(* callback, one-use handoffs exchanged for a linked device session, and the provider's   *)
(* revocations, by webhook and by reconciliation (identity/authkit-service.ts,            *)
(* authkit-repository.ts, authkit-webhook.ts, authkit-provider.ts, authkit-routes.ts).     *)
(* Each statement that another transaction can see or wait for is a step; webhooks come    *)
(* late, twice and in any order, replies are lost, the provider fails and the server dies   *)
(* between steps.  Who is admitted is Admission's subject: here an admission succeeds or    *)
(* is denied.                                                                            *)
EXTENDS Naturals, FiniteSets

CONSTANTS Handlers,       \* requests the server handles at once
          Upstream,       \* sessions the provider can open
          NoUpstream,
          MaxTransactions, MaxHandoffs, MaxLinked, MaxClock,
          TransactionTTL, HandoffTTL, LinkedTTL, EventTTL

VARIABLES
  clock,
  admitting,    \* authKitAdmissionEnabled on the running instances
  transactions, \* authkit_transactions: [state, expires]
  handoffs,     \* authkit_handoffs: [state, upstream, expires]
  linked,       \* device_sessions made by an exchange: [state, upstream, expires]
  events,       \* workos_events: upstream -> when it was processed, or "none"
  provider,     \* external: upstream -> "none", "active", "revoked"
  handlers,     \* [Handlers -> the request in progress]
  recon,        \* reconcileActiveSessions: [pc, snapshot, active]
  spent,        \* history: transaction -> provider exchanges its code was put to
  madeFrom      \* history: linked session -> [handoff, upstream]

akVars == <<clock, admitting, transactions, handoffs, linked, events, provider, handlers, recon,
            spent, madeFrom>>

Transactions == 1..MaxTransactions
Handoffs == 1..MaxHandoffs
Linked == 1..MaxLinked
MaybeUpstream == Upstream \cup {NoUpstream}
Idle == [kind |-> "none", pc |-> "none", at |-> 0, id |-> 0, upstream |-> NoUpstream]
NotReconciling == [pc |-> "idle", snapshot |-> {}, active |-> {}]

TypeOK ==
  /\ clock \in 0..MaxClock /\ admitting \in BOOLEAN
  /\ transactions \in [Transactions -> [state : {"none", "open", "consumed"},
                                        expires : 0..MaxClock + TransactionTTL]]
  /\ handoffs \in [Handoffs -> [state : {"none", "open", "consumed"}, upstream : MaybeUpstream,
                                expires : 0..MaxClock + HandoffTTL]]
  /\ linked \in [Linked -> [state : {"none", "active", "revoked"}, upstream : MaybeUpstream,
                            expires : 0..MaxClock + LinkedTTL]]
  /\ events \in [Upstream -> [stored : BOOLEAN, at : 0..MaxClock]]
  /\ provider \in [Upstream -> {"none", "active", "revoked"}]
  /\ handlers \in [Handlers -> [kind : {"none", "callback", "exchange", "webhook"},
       pc : {"none", "consume", "code", "admit", "select", "advisory", "events", "insert", "apply"},
       at : 0..MaxClock, id : 0..MaxTransactions + MaxHandoffs, upstream : MaybeUpstream]]
  /\ recon \in [pc : {"idle", "list", "revoke"}, snapshot : SUBSET Linked, active : SUBSET Upstream]
  /\ spent \in [Transactions -> 0..2]
  /\ madeFrom \in [Linked -> [handoff : 0..MaxHandoffs, upstream : MaybeUpstream]]

Init ==
  /\ clock = 0 /\ admitting = TRUE
  /\ transactions = [t \in Transactions |-> [state |-> "none", expires |-> 0]]
  /\ handoffs = [h \in Handoffs |-> [state |-> "none", upstream |-> NoUpstream, expires |-> 0]]
  /\ linked = [s \in Linked |-> [state |-> "none", upstream |-> NoUpstream, expires |-> 0]]
  /\ events = [p \in Upstream |-> [stored |-> FALSE, at |-> 0]]
  /\ provider = [p \in Upstream |-> "none"]
  /\ handlers = [r \in Handlers |-> Idle] /\ recon = NotReconciling
  /\ spent = [t \in Transactions |-> 0]
  /\ madeFrom = [s \in Linked |-> [handoff |-> 0, upstream |-> NoUpstream]]

\* the rows and locks

Fresh(rows) == {i \in DOMAIN rows : rows[i].state = "none"}
Least(set) == CHOOSE i \in set : \A j \in set : i <= j
Go(r, h) == handlers' = [handlers EXCEPT ![r] = h]
Ends(r) == Go(r, Idle)
Begin(r, kind, pc, id, p) ==
  handlers[r].kind = "none"
  /\ Go(r, [kind |-> kind, pc |-> pc, at |-> clock, id |-> id, upstream |-> p])

\* FOR UPDATE OF handoff: held from the select to the end of the exchange
HandoffLocked(h) ==
  \E r \in Handlers : handlers[r].kind = "exchange" /\ handlers[r].id = h
                      /\ handlers[r].pc \in {"advisory", "events", "insert"}
\* pg_advisory_xact_lock of the provider's session
\* mutant: the advisory lock is not taken
NoSessionLock(p) == p \in Upstream
LockWorkOSSession(p) ==
  \A r \in Handlers : handlers[r].pc \in {"events", "insert", "apply"} => handlers[r].upstream # p
Revoke(ids) ==
  linked' = [s \in Linked |-> IF s \in ids
                              THEN [linked[s] EXCEPT !.state = "revoked", !.upstream = NoUpstream]
                              ELSE linked[s]]
ActiveLinks == {s \in Linked : linked[s].state = "active" /\ linked[s].upstream # NoUpstream}

\* POST /auth/desktop-authorizations
BeginDesktopAuthorization ==
  /\ admitting /\ Fresh(transactions) # {}
  /\ transactions' = [transactions EXCEPT ![Least(Fresh(transactions))] =
                        [state |-> "open", expires |-> clock + TransactionTTL]]
  /\ UNCHANGED <<clock, admitting, handoffs, linked, events, provider, handlers, recon, spent, madeFrom>>

\* GET /auth/workos/callback, with a code or with the provider's error; a browser may repeat it
CallbackArrives(r, t) ==
  /\ admitting /\ transactions[t].state # "none" /\ Begin(r, "callback", "consume", t, NoUpstream)
  /\ UNCHANGED <<clock, admitting, transactions, handoffs, linked, events, provider, recon, spent, madeFrom>>

\* consumed before the code is put to the provider, whatever becomes of it
ConsumeTransaction(r) ==
  LET q == handlers[r]
      usable == transactions[q.id].state = "open" /\ transactions[q.id].expires > q.at IN
  /\ q.pc = "consume"
  /\ transactions' = IF usable THEN [transactions EXCEPT ![q.id].state = "consumed"] ELSE transactions
  /\ IF usable THEN Go(r, [q EXCEPT !.pc = "code"]) \/ Ends(r) ELSE Ends(r)
  /\ UNCHANGED <<clock, admitting, handoffs, linked, events, provider, recon, spent, madeFrom>>

\* authenticateCode: the provider names the session the browser holds, refuses, or is away
AuthenticateCode(r) ==
  LET q == handlers[r] IN
  /\ q.pc = "code" /\ spent' = [spent EXCEPT ![q.id] = IF @ < 2 THEN @ + 1 ELSE @]
  /\ \/ \E p \in Upstream :
          /\ provider[p] # "revoked" /\ provider' = [provider EXCEPT ![p] = "active"]
          /\ Go(r, [q EXCEPT !.pc = "admit", !.upstream = p, !.at = clock])
     \/ Ends(r) /\ UNCHANGED provider
  /\ UNCHANGED <<clock, admitting, transactions, handoffs, linked, events, recon, madeFrom>>

\* admitIdentity: the handoff is inserted with the admission, or the identity is denied
AdmitIdentity(r) ==
  LET q == handlers[r] IN
  /\ q.pc = "admit" /\ Ends(r)
  /\ \/ /\ Fresh(handoffs) # {}
        /\ handoffs' = [handoffs EXCEPT ![Least(Fresh(handoffs))] =
             [state |-> "open", upstream |-> q.upstream, expires |-> q.at + HandoffTTL]]
     \/ UNCHANGED handoffs
  /\ UNCHANGED <<clock, admitting, transactions, linked, events, provider, recon, spent, madeFrom>>

\* POST /auth/exchange; a desktop that heard nothing sends it again
ExchangeArrives(r, h) ==
  /\ admitting /\ handoffs[h].state # "none" /\ Begin(r, "exchange", "select", h, NoUpstream)
  /\ UNCHANGED <<clock, admitting, transactions, handoffs, linked, events, provider, recon, spent, madeFrom>>

\* the handoff is locked; without its verifier nothing more happens to it
SelectHandoff(r) ==
  LET q == handlers[r]
      usable == handoffs[q.id].state = "open" /\ handoffs[q.id].expires > q.at IN
  /\ q.pc = "select" /\ ~HandoffLocked(q.id)
  /\ \/ usable /\ Go(r, [q EXCEPT !.pc = "advisory", !.upstream = handoffs[q.id].upstream])
     \/ Ends(r)
  /\ UNCHANGED <<clock, admitting, transactions, handoffs, linked, events, provider, recon, spent, madeFrom>>

ExchangeLocksSession(r) ==
  LET q == handlers[r] IN
  /\ q.kind = "exchange" /\ q.pc = "advisory" /\ LockWorkOSSession(q.upstream)
  /\ Go(r, [q EXCEPT !.pc = "events"])
  /\ UNCHANGED <<clock, admitting, transactions, handoffs, linked, events, provider, recon, spent, madeFrom>>

\* a session the provider revoked already makes nothing
CheckRevocation(r) ==
  LET q == handlers[r] IN
  /\ q.pc = "events"
  /\ IF events[q.upstream].stored THEN Ends(r) ELSE Go(r, [q EXCEPT !.pc = "insert"])
  /\ UNCHANGED <<clock, admitting, transactions, handoffs, linked, events, provider, recon, spent, madeFrom>>

\* the handoff is consumed and the session inserted, together; a handoff a cleanup took is gone
InsertSession(r) ==
  LET q == handlers[r]
      s == Least(Fresh(linked)) IN
  /\ q.pc = "insert" /\ Fresh(linked) # {} /\ Ends(r)
  /\ IF handoffs[q.id].state = "open"
     THEN /\ handoffs' = [handoffs EXCEPT ![q.id].state = "consumed"]
          /\ linked' = [linked EXCEPT ![s] = [state |-> "active", upstream |-> q.upstream,
                                              expires |-> q.at + LinkedTTL]]
          /\ madeFrom' = [madeFrom EXCEPT ![s] = [handoff |-> q.id, upstream |-> q.upstream]]
     ELSE UNCHANGED <<handoffs, linked, madeFrom>>
  /\ UNCHANGED <<clock, admitting, transactions, events, provider, recon, spent>>

\* the provider ends a session: a member's logout page, an administrator, its own policy
ProviderRevokes(p) ==
  /\ provider[p] = "active" /\ provider' = [provider EXCEPT ![p] = "revoked"]
  /\ UNCHANGED <<clock, admitting, transactions, handoffs, linked, events, handlers, recon, spent, madeFrom>>

\* POST /auth/workos/webhook, verified; delivered at any time after, and again
WebhookArrives(r, p) ==
  /\ admitting /\ provider[p] = "revoked" /\ Begin(r, "webhook", "advisory", 0, p)
  /\ UNCHANGED <<clock, admitting, transactions, handoffs, linked, events, provider, recon, spent, madeFrom>>

WebhookLocksSession(r) ==
  LET q == handlers[r] IN
  /\ q.kind = "webhook" /\ q.pc = "advisory" /\ LockWorkOSSession(q.upstream)
  /\ Go(r, [q EXCEPT !.pc = "apply"])
  /\ UNCHANGED <<clock, admitting, transactions, handoffs, linked, events, provider, recon, spent, madeFrom>>

\* the event's identifier is stored once, with the revocation it asks for
ApplySessionRevoked(r) ==
  LET q == handlers[r] IN
  /\ q.pc = "apply" /\ Ends(r)
  /\ IF events[q.upstream].stored
     THEN UNCHANGED <<events, linked>>
     ELSE /\ events' = [events EXCEPT ![q.upstream] = [stored |-> TRUE, at |-> q.at]]
          /\ Revoke({s \in ActiveLinks : linked[s].upstream = q.upstream})
  /\ UNCHANGED <<clock, admitting, transactions, handoffs, provider, recon, spent, madeFrom>>

\* hourly, one pass at a time: the local rows first, then the provider's list, then the difference
ReconcileSnapshot ==
  /\ recon.pc = "idle"
  /\ recon' = [NotReconciling EXCEPT !.pc = "list",
                 !.snapshot = {s \in ActiveLinks : linked[s].expires > clock}]
  /\ UNCHANGED <<clock, admitting, transactions, handoffs, linked, events, provider, handlers, spent, madeFrom>>

\* a list that is missing or incomplete is no evidence: the pass revokes nothing
ReconcileLists ==
  /\ recon.pc = "list"
  /\ \/ recon' = [recon EXCEPT !.pc = "revoke", !.active = {p \in Upstream : provider[p] = "active"}]
     \/ recon' = NotReconciling
  /\ UNCHANGED <<clock, admitting, transactions, handoffs, linked, events, provider, handlers, spent, madeFrom>>

ReconcileRevokes ==
  /\ recon.pc = "revoke" /\ recon' = NotReconciling
  /\ Revoke({s \in recon.snapshot \cap ActiveLinks : linked[s].upstream \notin recon.active})
  /\ UNCHANGED <<clock, admitting, transactions, handoffs, events, provider, handlers, spent, madeFrom>>

\* the session's own refreshes and sign-out
RefreshLinked(s) ==
  /\ linked[s].state = "active" /\ linked[s].expires > clock
  /\ linked' = [linked EXCEPT ![s].expires = clock + LinkedTTL]
  /\ UNCHANGED <<clock, admitting, transactions, handoffs, events, provider, handlers, recon, spent, madeFrom>>

SignOutLinked(s) ==
  /\ linked[s].state = "active" /\ Revoke({s})
  /\ UNCHANGED <<clock, admitting, transactions, handoffs, events, provider, handlers, recon, spent, madeFrom>>

\* hourly, in one statement; a locked handoff is waited for
DeleteExpiredAuthKitState ==
  LET over(row) == row.state # "none" /\ row.expires <= clock IN
  /\ \A h \in Handoffs : over(handoffs[h]) => ~HandoffLocked(h)
  /\ transactions' = [t \in Transactions |-> IF over(transactions[t])
                        THEN [transactions[t] EXCEPT !.state = "consumed"] ELSE transactions[t]]
  /\ handoffs' = [h \in Handoffs |-> IF over(handoffs[h])
                    THEN [handoffs[h] EXCEPT !.state = "consumed"] ELSE handoffs[h]]
  /\ events' = [p \in Upstream |-> IF events[p].at + EventTTL <= clock
                  THEN [stored |-> FALSE, at |-> 0] ELSE events[p]]
  /\ Revoke({s \in Linked : linked[s].upstream # NoUpstream
                            /\ (linked[s].state = "revoked" \/ linked[s].expires <= clock)})
  /\ UNCHANGED <<clock, admitting, provider, handlers, recon, spent, madeFrom>>

\* the operator's rollback: admission off and the instances drained, then one statement
Gate ==
  /\ admitting /\ admitting' = FALSE
  /\ UNCHANGED <<clock, transactions, handoffs, linked, events, provider, handlers, recon, spent, madeFrom>>

PrepareAuthKitRollback ==
  /\ ~admitting /\ \A r \in Handlers : handlers[r] = Idle
  /\ Revoke({s \in Linked : linked[s].upstream # NoUpstream})
  /\ transactions' = [t \in Transactions |-> [transactions[t] EXCEPT !.state =
                        IF @ = "none" THEN @ ELSE "consumed"]]
  /\ handoffs' = [h \in Handoffs |-> [handoffs[h] EXCEPT !.state =
                    IF @ = "none" THEN @ ELSE "consumed"]]
  /\ events' = [p \in Upstream |-> [stored |-> FALSE, at |-> 0]]
  /\ admitting' = TRUE
  /\ UNCHANGED <<clock, provider, handlers, recon, spent, madeFrom>>

Crash ==
  /\ \E r \in Handlers : handlers[r] # Idle \/ recon.pc # "idle"
  /\ handlers' = [r \in Handlers |-> Idle] /\ recon' = NotReconciling
  /\ UNCHANGED <<clock, admitting, transactions, handoffs, linked, events, provider, spent, madeFrom>>

Tick ==
  /\ clock < MaxClock /\ clock' = clock + 1
  /\ UNCHANGED <<admitting, transactions, handoffs, linked, events, provider, handlers, recon, spent, madeFrom>>

Next ==
  \/ BeginDesktopAuthorization
  \/ \E r \in Handlers :
       \/ \E t \in Transactions : CallbackArrives(r, t)
       \/ \E h \in Handoffs : ExchangeArrives(r, h)
       \/ \E p \in Upstream : WebhookArrives(r, p)
       \/ ConsumeTransaction(r) \/ AuthenticateCode(r) \/ AdmitIdentity(r) \/ SelectHandoff(r)
       \/ ExchangeLocksSession(r) \/ CheckRevocation(r) \/ InsertSession(r)
       \/ WebhookLocksSession(r) \/ ApplySessionRevoked(r)
  \/ \E p \in Upstream : ProviderRevokes(p)
  \/ ReconcileSnapshot \/ ReconcileLists \/ ReconcileRevokes
  \/ \E s \in Linked : RefreshLinked(s) \/ SignOutLinked(s)
  \/ DeleteExpiredAuthKitState \/ Gate \/ PrepareAuthKitRollback \/ Crash \/ Tick

Spec == Init /\ [][Next]_akVars

-----------------------------------------------------------------------------
(* An authorization code is put to the provider at most once, and a handoff makes at most  *)
(* one session, however callbacks and exchanges are repeated or interleave.               *)
OneUse ==
  /\ \A t \in Transactions : spent[t] <= 1
  /\ \A s, o \in Linked : s # o /\ madeFrom[s].handoff # 0 => madeFrom[s].handoff # madeFrom[o].handoff

(* Once a revocation of the provider's session was processed, no active session carries it, *)
(* whichever of the webhook and the exchange came first (the advisory lock).              *)
RevocationReachesAll ==
  \A p \in Upstream : events[p].stored => \A s \in ActiveLinks : linked[s].upstream # p

(* Reconciliation revokes a session only when the provider did end it: the local rows are  *)
(* read before the provider's list, so a session made in between is left to the next pass. *)
ReconcileIsJust ==
  recon.pc = "revoke" =>
    \A s \in recon.snapshot : madeFrom[s].upstream \notin recon.active =>
      provider[madeFrom[s].upstream] = "revoked"

(* A revoked session never comes back, and never carries the provider's session again.    *)
RevokedStaysSo ==
  \A s \in Linked : linked[s].state = "revoked" =>
    linked'[s].state = "revoked" /\ linked'[s].upstream = NoUpstream
=============================================================================
