--------------------------- MODULE RealtimeSocket ---------------------------
(***************************************************************************)
(* The server side of one realtime connection (apps/server/src/modules/    *)
(* realtime/routes.ts): the flush loop that replays the log to the socket, *)
(* the wake-ups of the hub, and the credential checks that run beside it.  *)
(*                                                                         *)
(* flush() is an async function.  At most one call is past its guard; it   *)
(* awaits a page and, for an agent, the authorization of that page.        *)
(* Wake-ups, heartbeats, revocation, commits, retention, a cutover and the *)
(* peer take their turn at every await.  A page is a snapshot of the log   *)
(* of EventLog, read some time between the call and its continuation.      *)
(***************************************************************************)
EXTENDS EventLog, Sequences

CONSTANTS
  Epochs,
  Hidden,                  \* sequences whose event the principal may not see
  PageLimit,               \* events scanned per page
  MaxSequence,             \* bound: events in the log
  MaxErrors,               \* bound: failed database reads
  MaxChecks                \* bound: credential checks queued at once

ASSUME SocketAssumption ==
  /\ PageLimit \in Nat \ {0}
  /\ MaxSequence \in Nat /\ MaxErrors \in Nat /\ MaxChecks \in Nat \ {0}
  /\ NoEpoch \notin Epochs

VARIABLES
  agent,                   \* the principal is an agent, not a human
  start,                   \* the position the client connected with
  openedAt,                \* the head when it connected
  cursor,                  \* the position replayed so far
  open,                    \* socket.readyState = 1
  closed,                  \* teardown has run
  connectedSent,
  sent,                    \* sequences of the events sent
  resyncSent,              \* system.resync_required was sent
  flushing, flushAgain,
  initialRevalidationComplete,
  agentAuthorizationReadyForPage,
  page,                    \* what the running call of flush awaits
  checks,                  \* revalidationTail: queued checks, the first is running
  verdict,                 \* what the running check read
  pongReceived,
  wake,                    \* a hub wake-up is on its way
  revoked,                 \* the credential is no longer valid
  errors,
  \* history
  disordered,              \* an event was sent that is not above all those before
  leaked                   \* a page with its own check was sent though its load
                           \* began after the revocation

positionVars == <<agent, start, openedAt, cursor>>
outVars == <<connectedSent, sent, resyncSent, disordered, leaked>>
flushVars == <<flushing, flushAgain, page, agentAuthorizationReadyForPage>>
checkVars == <<checks, verdict, initialRevalidationComplete>>
envVars == <<wake, revoked, errors>>
vars == <<logVars, positionVars, open, closed, outVars, flushVars, checkVars, pongReceived,
          envVars>>

(* The cursor a client may hold: a position and the epoch it belongs to. *)
Position == [epoch: Epochs, sequence: 0..MaxSequence]

NoPage == [phase |-> "none", auth |-> "ok", own |-> FALSE, late |-> FALSE, upTo |-> 0,
           more |-> FALSE]

Init ==
  /\ head \in 0..MaxSequence /\ trimmed \in 0..head /\ epoch \in Epochs /\ floor \in 0..head
  /\ agent \in BOOLEAN
  /\ start \in [epoch: {epoch}, sequence: 0..head] /\ cursor = start /\ openedAt = head
  /\ open = TRUE /\ closed = FALSE /\ connectedSent = FALSE
  /\ sent = {} /\ resyncSent = FALSE /\ disordered = FALSE /\ leaked = FALSE
  /\ flushing = FALSE /\ flushAgain = FALSE /\ page = NoPage
  /\ initialRevalidationComplete = FALSE /\ agentAuthorizationReadyForPage = FALSE
  /\ checks = <<"initial">> /\ verdict = "none"
  /\ pongReceived = TRUE
  /\ wake = FALSE /\ revoked = FALSE /\ errors = 0

-----------------------------------------------------------------------------
(* flush.                                                                  *)

(* loadEvents is called.  An agent page that the initial check does not     *)
(* cover queues a check of its own and overlaps it with the load.          *)
BeginPage(covered) ==
  LET own == agent /\ ~covered
  IN  /\ page' = [NoPage EXCEPT !.phase = "loading", !.own = own, !.late = revoked,
                                !.auth = IF own THEN "pending" ELSE "ok"]
      /\ checks' = IF own THEN Append(checks, "page") ELSE checks
      /\ agentAuthorizationReadyForPage' = FALSE

Return == flushing' = FALSE /\ page' = NoPage

(* A call of flush by the hub's wake-up: refused before the first check,    *)
(* coalesced with the call that is running, otherwise it begins a page.    *)
FlushRefused ==
  /\ ~initialRevalidationComplete
  /\ UNCHANGED <<flushVars, checks>>

(* Mutant: a wake-up that finds a flush running is forgotten. *)
FlushForgotten ==
  /\ initialRevalidationComplete /\ flushing
  /\ UNCHANGED <<flushVars, checks>>

FlushCoalesced ==
  /\ initialRevalidationComplete /\ flushing
  /\ flushAgain' = TRUE
  /\ UNCHANGED <<flushing, page, agentAuthorizationReadyForPage, checks>>

FlushBegins ==
  /\ initialRevalidationComplete /\ ~flushing
  /\ flushing' = TRUE /\ flushAgain' = FALSE
  /\ BeginPage(agentAuthorizationReadyForPage)

Wake ==
  /\ wake /\ ~closed
  /\ wake' = FALSE
  /\ FlushRefused \/ FlushCoalesced \/ FlushBegins
  /\ UNCHANGED <<logVars, positionVars, open, closed, outVars, verdict,
                 initialRevalidationComplete, pongReceived, revoked, errors>>

(* syncPrincipal, on a snapshot of the log. *)
Expired == cursor.epoch # epoch \/ ~Resumable(cursor.sequence)
PageEnd == IF cursor.sequence + PageLimit < head THEN cursor.sequence + PageLimit ELSE head

ReadFails(what) == what = "error" /\ errors < MaxErrors /\ errors' = errors + 1
ReadWorks(what) == what # "error" /\ UNCHANGED errors

PageOutcome(what) ==
  \/ what = "loaded" /\ ~Expired
  \/ what = "expired" /\ Expired
  \/ what = "error"

ReadPage(what) ==
  /\ page.phase = "loading"
  /\ PageOutcome(what)
  /\ ReadFails(what) \/ ReadWorks(what)
  /\ page' = [page EXCEPT !.phase = what,
                          !.upTo = IF what = "loaded" THEN PageEnd ELSE 0,
                          !.more = what = "loaded" /\ PageEnd < head]
  /\ UNCHANGED <<logVars, positionVars, open, closed, outVars, flushing, flushAgain,
                 agentAuthorizationReadyForPage, checkVars, pongReceived, wake, revoked>>

(* The events of the page the principal may see; a page is sent in order. *)
Visible(from, to) == ((from + 1)..to) \ Hidden
Events == Visible(cursor.sequence, page.upTo)

(* Mutant: the page is sent without awaiting its authorization. *)
PageUnchecked == page.phase = "loaded"

PageReady == page.phase = "loaded" /\ page.auth = "ok"

(* The socket is no longer open: the first event is not sent. *)
StopSending ==
  /\ PageReady /\ Events # {} /\ ~open
  /\ Return
  /\ UNCHANGED <<logVars, positionVars, open, closed, outVars, flushAgain,
                 agentAuthorizationReadyForPage, checkVars, pongReceived, envVars>>

SendConnected == connectedSent' = (connectedSent \/ open)

(* The events are out and the cursor moves; then the next page, or the      *)
(* handshake and either another round for the wake-ups that came, or the   *)
(* end of the call.                                                        *)
NextPage ==
  /\ page.more /\ ~closed
  /\ BeginPage(FALSE)
  /\ UNCHANGED <<connectedSent, flushing, flushAgain>>

LastPage == (~page.more \/ closed) /\ SendConnected

AnotherRound ==
  /\ LastPage
  /\ flushAgain /\ ~closed
  /\ flushAgain' = FALSE
  /\ BeginPage(FALSE)
  /\ UNCHANGED flushing

CaughtUp ==
  /\ LastPage
  /\ ~flushAgain \/ closed
  /\ Return
  /\ UNCHANGED <<flushAgain, checks, agentAuthorizationReadyForPage>>

SendPage ==
  /\ PageReady
  /\ Events = {} \/ open
  /\ sent' = sent \cup Events
  /\ disordered' = (disordered \/ \E new \in Events, old \in sent : new <= old)
  /\ leaked' = (leaked \/ (Events # {} /\ page.own /\ page.late))
  /\ cursor' = [cursor EXCEPT !.sequence = page.upTo]
  /\ NextPage \/ AnotherRound \/ CaughtUp
  /\ UNCHANGED <<logVars, agent, start, openedAt, open, closed, resyncSent, verdict,
                 initialRevalidationComplete, pongReceived, envVars>>

(* The catch: an expired cursor or another epoch asks the client to         *)
(* resynchronise, any other error closes the socket.                       *)
FlushFails ==
  /\ page.phase \in {"expired", "error"} /\ page.auth = "ok"
  /\ resyncSent' = (resyncSent \/ (page.phase = "expired" /\ open))
  /\ open' = FALSE
  /\ Return
  /\ UNCHANGED <<logVars, positionVars, closed, connectedSent, sent, disordered, leaked, flushAgain,
                 agentAuthorizationReadyForPage, checkVars, pongReceived, envVars>>

(* loadAgentPage gives up as soon as its check fails. *)
PageRefused ==
  /\ page.auth = "refused"
  /\ Return
  /\ UNCHANGED <<logVars, positionVars, open, closed, outVars, flushAgain,
                 agentAuthorizationReadyForPage, checkVars, pongReceived, envVars>>

-----------------------------------------------------------------------------
(* Credential checks, one at a time.                                       *)

(* revalidatePrincipal reads the credential, unless the socket is gone. *)
CheckOutcome(what) ==
  \/ what = "gone" /\ ~open
  \/ what = "valid" /\ open /\ ~revoked
  \/ what = "invalid" /\ open /\ revoked
  \/ what = "error" /\ open

CheckReads(what) ==
  /\ checks # <<>> /\ verdict = "none"
  /\ CheckOutcome(what)
  /\ ReadFails(what) \/ ReadWorks(what)
  /\ verdict' = what
  /\ UNCHANGED <<logVars, positionVars, open, closed, outVars, flushVars, checks,
                 initialRevalidationComplete, pongReceived, wake, revoked>>

(* When the read fails a human stays connected and an agent does not. *)
Passed == verdict = "valid" \/ (verdict = "error" /\ ~agent)
Disconnects == verdict = "invalid" \/ (verdict = "error" /\ agent)

(* The continuation of the first check begins the replay. *)
InitialSettles ==
  /\ Head(checks) = "initial"
  /\ IF Passed /\ open
     THEN /\ initialRevalidationComplete' = TRUE
          /\ flushing' = TRUE /\ flushAgain' = FALSE
          /\ page' = [NoPage EXCEPT !.phase = "loading", !.late = revoked]
     ELSE UNCHANGED <<initialRevalidationComplete, flushing, flushAgain, page>>

HeartbeatSettles ==
  /\ Head(checks) = "heartbeat"
  /\ UNCHANGED <<initialRevalidationComplete, flushing, flushAgain, page>>

PageSettles ==
  /\ Head(checks) = "page"
  /\ page' = [page EXCEPT !.auth = IF Passed THEN "ok" ELSE "refused"]
  /\ UNCHANGED <<initialRevalidationComplete, flushing, flushAgain>>

CheckSettles ==
  /\ verdict # "none"
  /\ InitialSettles \/ HeartbeatSettles \/ PageSettles
  /\ open' = (open /\ ~Disconnects)
  /\ checks' = Tail(checks)
  /\ verdict' = "none"
  /\ UNCHANGED <<logVars, positionVars, closed, outVars, agentAuthorizationReadyForPage,
                 pongReceived, envVars>>

(* Every 30 seconds: a peer that did not answer the last ping is dropped. *)
HeartbeatTerminates ==
  /\ ~pongReceived
  /\ open' = FALSE
  /\ UNCHANGED <<checks, pongReceived>>

HeartbeatChecks ==
  /\ pongReceived /\ Len(checks) < MaxChecks
  /\ checks' = Append(checks, "heartbeat")
  /\ pongReceived' = FALSE
  /\ UNCHANGED open

Heartbeat ==
  /\ ~closed
  /\ HeartbeatTerminates \/ HeartbeatChecks
  /\ UNCHANGED <<logVars, positionVars, closed, outVars, flushVars, verdict,
                 initialRevalidationComplete, envVars>>

Pong ==
  /\ open /\ ~pongReceived
  /\ pongReceived' = TRUE
  /\ UNCHANGED <<logVars, positionVars, open, closed, outVars, flushVars, checkVars, envVars>>

-----------------------------------------------------------------------------
(* The peer, and the rest of the server.                                   *)

SocketUnchanged == UNCHANGED <<positionVars, outVars, flushVars, checkVars, pongReceived>>

PeerCloses ==
  /\ open
  /\ open' = FALSE
  /\ SocketUnchanged
  /\ UNCHANGED <<logVars, closed, envVars>>

(* teardown, on the close event: the timer and the subscription end. *)
Teardown ==
  /\ ~open /\ ~closed
  /\ closed' = TRUE
  /\ SocketUnchanged
  /\ UNCHANGED <<logVars, open, envVars>>

(* What happens after teardown no longer matters to this socket. *)
CommitEvent ==
  /\ ~closed
  /\ head' \in 0..MaxSequence
  /\ Extend
  /\ wake' = TRUE
  /\ SocketUnchanged
  /\ UNCHANGED <<open, closed, revoked, errors>>

DeleteExpiredState ==
  /\ ~closed
  /\ trimmed' \in 0..head
  /\ Trim
  /\ SocketUnchanged
  /\ UNCHANGED <<open, closed, envVars>>

EstablishEpoch ==
  /\ ~closed
  /\ epoch' \in Epochs
  /\ Cutover
  /\ SocketUnchanged
  /\ UNCHANGED <<open, closed, envVars>>

Revoke ==
  /\ ~closed /\ ~revoked
  /\ revoked' = TRUE
  /\ SocketUnchanged
  /\ UNCHANGED <<logVars, open, closed, wake, errors>>

PageSteps ==
  \/ \E what \in {"loaded", "expired", "error"} : ReadPage(what)
  \/ StopSending \/ SendPage \/ FlushFails \/ PageRefused

CheckSteps ==
  \/ \E what \in {"gone", "valid", "invalid", "error"} : CheckReads(what)
  \/ CheckSettles

Next ==
  \/ PageSteps \/ CheckSteps \/ Wake \/ Heartbeat \/ Pong \/ PeerCloses \/ Teardown
  \/ CommitEvent \/ DeleteExpiredState \/ EstablishEpoch \/ Revoke

Spec == Init /\ [][Next]_vars

(* Database reads settle, continuations run, a NOTIFY arrives, and the      *)
(* interval fires.  Nothing is assumed of the peer.                        *)
FairSpec ==
  /\ Spec
  /\ WF_vars(PageSteps) /\ WF_vars(CheckSteps) /\ WF_vars(Wake) /\ WF_vars(Heartbeat)

-----------------------------------------------------------------------------
TypeOK ==
  /\ start \in Position /\ cursor \in Position /\ openedAt \in 0..MaxSequence
  /\ {agent, open, closed, connectedSent, resyncSent, disordered, leaked, flushing, flushAgain,
      initialRevalidationComplete, agentAuthorizationReadyForPage, pongReceived, wake,
      revoked} \subseteq BOOLEAN
  /\ sent \subseteq 1..MaxSequence
  /\ page \in [phase: {"none", "loading", "loaded", "expired", "error"},
               auth: {"ok", "pending", "refused"}, own: BOOLEAN, late: BOOLEAN,
               upTo: 0..MaxSequence, more: BOOLEAN]
  /\ flushing <=> page.phase # "none"
  /\ checks \in Seq({"initial", "heartbeat", "page"})
  /\ verdict \in {"none", "gone", "valid", "invalid", "error"}
  /\ errors \in 0..MaxErrors

(* What a socket has sent is exactly the visible part of the log between    *)
(* the position it connected with and its cursor, in order: no gap, no        *)
(* duplicate.                                                              *)
ReplayIsExact == sent = Visible(start.sequence, cursor.sequence) /\ ~disordered

(* A socket at rest is up to date: no wake-up is lost between the read of   *)
(* the last page and the end of flush, nor before the first check.         *)
RestsUpToDate ==
  open /\ initialRevalidationComplete /\ ~flushing /\ ~wake => cursor.sequence = head

(* The handshake follows the replay: a connected client has been sent all   *)
(* that was committed when it connected.                                   *)
ConnectedAfterReplay == connectedSent => cursor.sequence >= openedAt

(* What a client may rely on of its socket, together. *)
SocketHolds == TypeOK /\ ReplayIsExact /\ RestsUpToDate /\ ConnectedAfterReplay

(* "Every later page and notified flush performs its own check, concurrent  *)
(* with loading but complete before send": no such page goes out when its  *)
(* load began after the agent's credential was revoked.                    *)
WithheldAfterRevocation == ~leaked

(* A client behind the head is brought up to date or disconnected. *)
CatchesUp == cursor.sequence < head ~> cursor.sequence = head \/ ~open

(* A revoked credential does not keep a socket open, whatever the peer does. *)
RevokedCloses == revoked ~> ~open
=============================================================================
