-------------------------- MODULE SessionLifecycle --------------------------
(* The desktop's published identity and the resources behind it: the owner that     *)
(* replaces one identity's resources by the next (main/workspace-session-owner.ts), *)
(* the lifecycle that publishes an identity once its resources are ready and         *)
(* surrounds every change of credentials (main/desktop-session-lifecycle.ts).       *)
(* A replacement cancels the old resources at once and builds the new ones after     *)
(* their cleanup has settled; replacements, refreshes and authentications overlap.   *)
EXTENDS Naturals, Sequences, FiniteSets

CONSTANTS Users, Logins, None,
          MaxChanges    \* changes of the source

VARIABLES
  source,      \* ChatSession.state: the signed-in user, or None
  sessions,    \* every session created: [user, phase]
  current,     \* #current: index in sessions, or 0
  desired,     \* #desired
  revision,    \* the owner's #revision
  chain,       \* the transitions of #ready: [rev, user, waits, result]
  lifeRev,     \* the lifecycle's #revision
  state,       \* #state: what readState answers: "changing", or the published user
  refreshes,   \* refreshes waiting for the owner: [rev, user, on]
  logins,      \* replaceAuthentication calls: [pc, on], pc "idle" .. "done"
  latest,      \* the login that holds #authenticationRevision, or None
  authenticating,
  changes,     \* changes of the source so far
  work,        \* a local operation under run(): [rev, session]
  closed       \* dispose was called

vars == <<source, sessions, current, desired, revision, chain, lifeRev, state, refreshes, logins,
          latest, authenticating, changes, work, closed>>
ownerVars == <<sessions, current, desired, revision, chain>>
lifeVars == <<lifeRev, state, refreshes, authenticating, latest>>

Identities == Users \cup {None}
Changing == "changing"
NoLogin == [pc |-> "idle", on |-> 0]
NoWork == [rev |-> 0, session |-> 0]

TypeOK ==
  /\ source \in Identities /\ desired \in Identities
  /\ current \in 0..Len(sessions) /\ revision \in Nat
  /\ \A i \in DOMAIN sessions :
       sessions[i] \in [user : Users, phase : {"live", "disposing", "disposed", "failed"}]
  /\ \A i \in DOMAIN chain :
       /\ chain[i].user \in Identities /\ chain[i].waits \in 0..Len(sessions)
       /\ chain[i].result \in {"pending", "ok", "failed"}
  /\ state \in Identities \cup {Changing}
  /\ authenticating \in BOOLEAN /\ closed \in BOOLEAN
  /\ latest \in Logins \cup {None}

Init ==
  /\ source = None /\ sessions = <<>> /\ current = 0 /\ desired = None /\ revision = 0
  /\ chain = <<>> /\ lifeRev = 1 /\ state = Changing
  /\ refreshes = {[rev |-> 1, user |-> None, on |-> 0]}   \* the constructor's refresh
  /\ logins = [l \in Logins |-> NoLogin] /\ latest = None /\ authenticating = FALSE
  /\ changes = 0 /\ work = NoWork /\ closed = FALSE

---------------------------------------------------------------------------
(* The owner.                                                                     *)
Pending == chain # <<>> /\ chain[Len(chain)].result = "pending"
Settled(on) == on # 0 => chain[on].result # "pending"
Succeeded(on) == on # 0 => chain[on].result = "ok"

KeepsIdentity(user) == user = desired /\ (Pending \/ current # 0 \/ user = None)

\* replace(user) with ready the transition the caller waits for
Replace(user, ready) ==
  \/ /\ KeepsIdentity(user)
     /\ ready = Len(chain)
     /\ UNCHANGED ownerVars
  \/ /\ ~KeepsIdentity(user)
     /\ revision' = revision + 1
     /\ ready = Len(chain) + 1
     /\ desired' = user /\ current' = 0
     /\ sessions' = IF current = 0 THEN sessions
                    ELSE [sessions EXCEPT ![current].phase = "disposing"]   \* aborted at once
     /\ chain' = Append(chain, [rev |-> revision + 1, user |-> user, waits |-> current,
                                result |-> "pending"])

\* the resources' asynchronous cleanups settle
CleanupSettles(i) ==
  /\ sessions[i].phase = "disposing"
  /\ \E outcome \in {"disposed", "failed"} : sessions' = [sessions EXCEPT ![i].phase = outcome]
  /\ UNCHANGED <<current, desired, revision, chain, source, logins, changes, work, closed>>
  /\ UNCHANGED lifeVars

NeverWaits(t) == TRUE
\* the session a transition retires has finished its cleanups
Cleaned(t) == chain[t].waits # 0 => sessions[chain[t].waits].phase \in {"disposed", "failed"}

\* one transition: after the previous one has settled and the retired session's cleanup too
Transition(t) ==
  /\ chain[t].result = "pending" /\ Settled(t - 1) /\ Cleaned(t)
  /\ LET retired == chain[t].waits # 0 => sessions[chain[t].waits].phase # "failed"
         builds  == retired /\ chain[t].rev = revision /\ chain[t].user # None
     IN \/ /\ builds                               \* create succeeds
           /\ sessions' = Append(sessions, [user |-> chain[t].user, phase |-> "live"])
           /\ current' = Len(sessions) + 1
           /\ chain' = [chain EXCEPT ![t].result = "ok"]
        \/ /\ builds                               \* create throws, and what it made is disposed
           /\ sessions' = Append(sessions, [user |-> chain[t].user, phase |-> "disposed"])
           /\ UNCHANGED current
           /\ chain' = [chain EXCEPT ![t].result = "failed"]
        \/ /\ ~builds                              \* superseded, signed out, or a failed cleanup
           /\ UNCHANGED <<sessions, current>>
           /\ chain' = [chain EXCEPT ![t].result = IF retired THEN "ok" ELSE "failed"]
  /\ UNCHANGED <<desired, revision, source, logins, changes, work, closed>>
  /\ UNCHANGED lifeVars

---------------------------------------------------------------------------
(* The lifecycle.                                                                 *)
\* refresh(): hide the identity, replace the resources, publish when they are ready
Refreshed(user, ready) ==
  /\ lifeRev' = lifeRev + 1 /\ state' = Changing
  /\ refreshes' = refreshes \cup {[rev |-> lifeRev + 1, user |-> user, on |-> ready]}
  /\ Replace(user, ready)

RefreshSettles(f) ==
  /\ Settled(f.on)
  /\ refreshes' = refreshes \ {f}
  /\ state' = IF Succeeded(f.on) /\ f.rev = lifeRev THEN f.user ELSE state
  /\ UNCHANGED ownerVars
  /\ UNCHANGED <<source, lifeRev, authenticating, latest, logins, changes, work, closed>>

\* a renewal, a passive sign-out or a restored session changes the state; the subscription
\* refreshes unless an authentication is under way
SourceChanges(user) ==
  /\ ~closed /\ changes < MaxChanges /\ changes' = changes + 1
  /\ source' = user
  /\ IF authenticating THEN UNCHANGED ownerVars /\ UNCHANGED lifeVars
     ELSE (\E ready \in 0..Len(chain) + 1 : Refreshed(user, ready)) /\ UNCHANGED <<authenticating, latest>>
  /\ UNCHANGED <<logins, work, closed>>

\* replaceAuthentication: this login is the latest one; retire the resources first
LoginStarts(l) ==
  /\ ~closed /\ logins[l] = NoLogin
  /\ latest' = l /\ authenticating' = TRUE
  /\ lifeRev' = lifeRev + 1 /\ state' = Changing
  /\ \E ready \in 0..Len(chain) + 1 :
       Replace(None, ready) /\ logins' = [logins EXCEPT ![l] = [pc |-> "retiring", on |-> ready]]
  /\ UNCHANGED <<source, refreshes, changes, work, closed>>

\* assertCurrent
Current(l) == latest = l /\ ~closed

\* the operation runs only after a clean retirement, and only for the latest login
LoginRetired(l) ==
  /\ logins[l].pc = "retiring" /\ Settled(logins[l].on)
  /\ logins' = [logins EXCEPT ![l].pc =
                  IF Succeeded(logins[l].on) /\ Current(l) THEN "operating" ELSE "finally"]
  /\ UNCHANGED ownerVars /\ UNCHANGED lifeVars
  /\ UNCHANGED <<source, changes, work, closed>>

\* the exchange, restore or sign-out: it changes the source, or fails and leaves it
LoginOperates(l) ==
  /\ logins[l].pc = "operating"
  /\ \/ UNCHANGED <<source, changes>>
     \/ changes < MaxChanges /\ changes' = changes + 1 /\ source' \in Identities
  /\ logins' = [logins EXCEPT ![l].pc = "finally"]
  /\ IF source' = source \/ authenticating
     THEN UNCHANGED ownerVars /\ UNCHANGED lifeVars
     ELSE (\E ready \in 0..Len(chain) + 1 : Refreshed(source', ready)) /\ UNCHANGED <<authenticating, latest>>
  /\ UNCHANGED <<work, closed>>

\* finally: the latest login publishes the outcome, a superseded one publishes nothing
LoginEnds(l) ==
  /\ logins[l].pc = "finally"
  /\ logins' = [logins EXCEPT ![l] = [pc |-> "done", on |-> 0]]
  /\ IF Current(l)
     THEN authenticating' = FALSE /\ \E ready \in 0..Len(chain) + 1 : Refreshed(source, ready)
     ELSE UNCHANGED ownerVars /\ UNCHANGED <<lifeRev, state, refreshes, authenticating>>
  /\ UNCHANGED <<source, latest, changes, work, closed>>

\* run(): local work under the published session, whose result must still be its own
WorkStarts ==
  /\ work = NoWork /\ state # Changing /\ ~closed
  /\ work' = [rev |-> lifeRev, session |-> current]
  /\ UNCHANGED ownerVars /\ UNCHANGED lifeVars
  /\ UNCHANGED <<source, logins, changes, closed>>

Delivers == work # NoWork /\ state # Changing /\ work.rev = lifeRev /\ ~closed

WorkEnds ==
  /\ work # NoWork /\ work' = NoWork
  /\ UNCHANGED ownerVars /\ UNCHANGED lifeVars
  /\ UNCHANGED <<source, logins, changes, closed>>

Dispose ==
  /\ ~closed /\ closed' = TRUE
  /\ lifeRev' = lifeRev + 1 /\ state' = Changing
  /\ \E ready \in 0..Len(chain) + 1 : Replace(None, ready)
  /\ UNCHANGED <<source, refreshes, authenticating, latest, logins, changes, work>>

Steps ==
  \/ \E i \in DOMAIN sessions : CleanupSettles(i)
  \/ \E t \in DOMAIN chain : Transition(t)
  \/ \E f \in refreshes : RefreshSettles(f)
  \/ \E l \in Logins : LoginRetired(l) \/ LoginOperates(l) \/ LoginEnds(l)

Next ==
  \/ Steps
  \/ \E u \in Identities : SourceChanges(u)
  \/ \E l \in Logins : LoginStarts(l)
  \/ WorkStarts \/ WorkEnds
  \/ Dispose

Spec == Init /\ [][Next]_vars
FairSpec == Spec /\ WF_vars(Steps)

---------------------------------------------------------------------------
(* A published identity has its own resources behind it and nobody else's: they are *)
(* ready, live and not cancelled, and a signed-out state has none.                  *)
PublishedIsReady ==
  state # Changing =>
    IF state = None THEN current = 0
    ELSE current # 0 /\ sessions[current] = [user |-> state, phase |-> "live"]

(* The resources of two sessions never exist together: the next ones are built      *)
(* after every cleanup of the previous ones has settled.                            *)
OneSessionAtATime ==
  Cardinality({i \in DOMAIN sessions : sessions[i].phase \in {"live", "disposing"}}) <= 1

(* While credentials are being replaced no identity is published, and an operation  *)
(* that began under one session never delivers its result under another.           *)
NothingCrossesALogin ==
  /\ authenticating => state = Changing
  /\ Delivers => work.session = current

(* Once the source rests and no cleanup has failed, the published identity is the   *)
(* source's: no superseded refresh or login leaves the desktop changing forever.    *)
CleanSoFar == (\A i \in DOMAIN sessions : sessions[i].phase # "failed")
              /\ (\A t \in DOMAIN chain : chain[t].result # "failed")
Settles == <>(closed \/ ~CleanSoFar \/ [](state = source))
=============================================================================
