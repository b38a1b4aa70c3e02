------------------------------- MODULE MCLive -------------------------------
(* What must come to an end by itself, under the fairness each module states: the outbox, *)
(* a socket, the hub's listener and a server told to stop. Each behaviour runs one of them, *)
(* chosen in the initial state.                                                          *)
EXTENDS RealtimeHub, TLC

CONSTANTS
  general, e1, NoEpoch

VARIABLES
  part,  \* the part this behaviour runs
  log, access, orphans, rows, outboxCursor, view, shown, heard, publishing, gates,
  flush, workers, waiting, reload, authored, settled, used, head, trimmed, epoch, floor,
  agent, start, openedAt, socketCursor, open, closed, connectedSent, sent, resyncSent,
  flushing, flushAgain, initialRevalidationComplete, agentAuthorizationReadyForPage,
  page, checks, verdict, pongReceived, wake, revoked, errors, disordered, leaked, phase,
  pool, hub, ready, timers, running, guard, processClosing, armed, code, lock, recorded,
  seen, executed, runs, faults

\* what the old and the new release ship: here nothing the old one could run with
Version(n, s) == [name |-> n, sum |-> s]
Shipping == [p \in {"old", "new"} |->
  IF p = "old" THEN <<Version(1, 1), Version(2, 1)>>
  ELSE <<Version(1, 2), Version(2, 1), Version(3, 1)>>]
Correction == [name |-> 1, original |-> 1, corrected |-> 2]

Sends == INSTANCE Outbox WITH
  Conversation <- {general}, MaxAuthored <- 1, ConversationOf <- <<general>>,
  MaxReplacements <- 0, MaxDiscards <- 0, MaxLosses <- 1, MaxRefusals <- 1,
  MaxAccessChanges <- 2, MaxRestarts <- 1, MaxCatalogs <- 0, MaxSyncs <- 0,
  Realtime <- TRUE, cursor <- outboxCursor
Socket == INSTANCE RealtimeSocket WITH
  Epochs <- {e1}, Hidden <- {2}, PageLimit <- 1, MaxSequence <- 2, MaxErrors <- 1,
  MaxChecks <- 1, cursor <- socketCursor
Process == INSTANCE ServerProcess WITH
  Processes <- {"old", "new"}, Files <- Shipping, Revised <- Correction,
  Recorded <- {Version(1, 2)}, Jobs <- {"retention", "reconcile"},
  OnBoot <- {"retention", "reconcile"}, SingleFlight <- {"reconcile"}, MaxRuns <- 3,
  MaxFaults <- 2, closing <- processClosing

SendsVars == <<
  log, access, orphans, rows, outboxCursor, view, shown, heard, publishing, gates,
  flush, workers, waiting, reload, authored, settled, used>>
SocketVars == <<
  head, trimmed, epoch, floor, agent, start, openedAt, socketCursor, open, closed,
  connectedSent, sent, resyncSent, flushing, flushAgain, initialRevalidationComplete,
  agentAuthorizationReadyForPage, page, checks, verdict, pongReceived, wake, revoked,
  errors, disordered, leaked>>
HubVars == <<
  conn, alive, registered, transit, run, lost, client, timer, stopped, hasListened,
  closing, serving, listeners, missed, misreleased, starts, losses, commits>>
ProcessVars == <<
  phase, pool, hub, ready, timers, running, guard, processClosing, armed, code, lock,
  recorded, seen, executed, runs, faults>>
SVars == <<part, SendsVars, SocketVars, HubVars, ProcessVars>>

\* a part that is not chosen rests
SendsRests ==
  /\ log = 0 /\ access = 0 /\ orphans = 0 /\ rows = 0 /\ outboxCursor = 0 /\ view = 0
  /\ shown = 0 /\ heard = 0 /\ publishing = 0 /\ gates = 0 /\ flush = 0
  /\ workers = 0 /\ waiting = 0 /\ reload = 0 /\ authored = 0 /\ settled = 0 /\ used = 0
SocketRests ==
  /\ head = 0 /\ trimmed = 0 /\ epoch = 0 /\ floor = 0 /\ agent = 0 /\ start = 0
  /\ openedAt = 0 /\ socketCursor = 0 /\ open = 0 /\ closed = 0 /\ connectedSent = 0
  /\ sent = 0 /\ resyncSent = 0 /\ flushing = 0 /\ flushAgain = 0
  /\ initialRevalidationComplete = 0 /\ agentAuthorizationReadyForPage = 0
  /\ page = 0 /\ checks = 0 /\ verdict = 0 /\ pongReceived = 0 /\ wake = 0
  /\ revoked = 0 /\ errors = 0 /\ disordered = 0 /\ leaked = 0
HubRests ==
  /\ conn = [c \in Clients |-> "pool"] /\ alive = Clients /\ registered = {}
  /\ transit = {} /\ run = [r \in Runs |-> Idle] /\ lost = {} /\ client = NoClient
  /\ timer = FALSE /\ stopped = FALSE /\ hasListened = FALSE /\ closing = NoClient
  /\ serving = FALSE /\ listeners = {} /\ missed = [s \in Subscribers |-> "none"]
  /\ misreleased = FALSE /\ starts = 0 /\ losses = 0 /\ commits = 0
ProcessRests ==
  /\ phase = 0 /\ pool = 0 /\ hub = 0 /\ ready = 0 /\ timers = 0 /\ running = 0
  /\ guard = 0 /\ processClosing = 0 /\ armed = 0 /\ code = 0 /\ lock = 0
  /\ recorded = 0 /\ seen = 0 /\ executed = 0 /\ runs = 0 /\ faults = 0

SInit ==
  \/ part = "outbox" /\ Sends!Init /\ SocketRests /\ HubRests /\ ProcessRests
  \/ part = "socket" /\ Socket!Init /\ SendsRests /\ HubRests /\ ProcessRests
  \/ part = "hub" /\ HubInit /\ SendsRests /\ SocketRests /\ ProcessRests
  \/ part = "process" /\ Process!Init /\ SendsRests /\ SocketRests /\ HubRests

OthersRest(chosen) ==
  /\ UNCHANGED part
  /\ chosen # "outbox" => UNCHANGED SendsVars
  /\ chosen # "socket" => UNCHANGED SocketVars
  /\ chosen # "hub" => UNCHANGED HubVars
  /\ chosen # "process" => UNCHANGED ProcessVars

SNext ==
  \/ part = "outbox" /\ Sends!Next /\ OthersRest("outbox")
  \/ part = "socket" /\ Socket!Next /\ OthersRest("socket")
  \/ part = "hub" /\ HubNext /\ OthersRest("hub")
  \/ part = "process" /\ Process!Next /\ OthersRest("process")

SSpec == SInit /\ [][SNext]_SVars


\* an action of the part that runs
Of(chosen) == part = chosen
Sending(A) == Of("outbox") /\ A /\ OthersRest("outbox")
Connected(A) == Of("socket") /\ A /\ OthersRest("socket")
Listening(A) == Of("hub") /\ A /\ OthersRest("hub")
SFairSpec ==
  /\ SSpec
  /\ \A w \in Sends!Workers : WF_SVars(Sending(Sends!Worker(w))) /\ WF_SVars(Sending(Sends!Answered(w)))
  /\ \A k \in Sends!Keys : WF_SVars(Sending(Sends!Elapses(k)))
  /\ WF_SVars(Sending(Sends!TimerFires)) /\ WF_SVars(Sending(Sends!Events))
  /\ WF_SVars(Sending(Sends!CatalogReads \/ Sends!CatalogFails)) /\ WF_SVars(Sending(Sends!ReloadPublishes))
  /\ WF_SVars(Sending(Sends!StartupCompletes))
  /\ WF_SVars(Connected(Socket!PageSteps)) /\ WF_SVars(Connected(Socket!CheckSteps))
  /\ WF_SVars(Connected(Socket!Wake)) /\ WF_SVars(Connected(Socket!Heartbeat))
  /\ WF_SVars(Listening(ReconnectTimer))
  /\ \A r \in Runs : WF_SVars(Listening(ListenSteps(r)))
  /\ \A c \in Clients : WF_SVars(Listening(Notification(c)))
  /\ WF_SVars(Of("process") /\ (\E p \in {"old", "new"} : Process!Steps(p) \/ Process!Settles(p)) /\ OthersRest("process"))

---------------------------------------------------------------------------
(* A message is delivered, refused or given back; a socket that is behind or whose         *)
(* credential was revoked is brought up to date or closed; the hub finds a listener again;  *)
(* a server that was signalled ends, by its hooks or by its deadline.                     *)
Waits ==
  CASE part = "outbox" -> Sends!Undelivered(<<1, 0>>)
    [] part = "socket" -> open /\ (socketCursor.sequence < head \/ revoked)
    [] part = "hub" -> serving /\ client = NoClient
    [] part = "process" -> Process!Waits
Served ==
  CASE part = "outbox" -> ~Sends!Undelivered(<<1, 0>>)
    [] part = "socket" -> ~open \/ (socketCursor.sequence = head /\ ~revoked)
    [] part = "hub" -> client # NoClient \/ stopped
    [] part = "process" -> ~Process!Waits
AllEnds == Waits ~> Served

=============================================================================
