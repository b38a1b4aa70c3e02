----------------------------- MODULE RealtimeHub -----------------------------
(***************************************************************************)
(* RealtimeEventHub (apps/server/src/modules/realtime/hub.ts): one         *)
(* Postgres connection that LISTENs for committed events and wakes every   *)
(* subscribed socket, and that is re-established when it is lost.          *)
(*                                                                         *)
(* Each call of #listen is a run: it awaits pool.connect, then LISTEN, and *)
(* continues when they settle; losses, timers, close and other runs take   *)
(* their turn at both awaits.  A NOTIFY reaches the connections that are   *)
(* registered when it commits, and only an adopted connection has a        *)
(* handler for it.  A subscriber that is woken reads everything committed, *)
(* so all that counts of its state is whether a commit has passed it by.   *)
(***************************************************************************)
EXTENDS Naturals, FiniteSets

CONSTANTS
  Clients,                 \* connections of the pool
  NoClient,
  Runs,                    \* concurrent calls of #listen
  Subscribers,             \* sockets of the workspace
  MaxStarts,               \* bound: calls of start
  MaxLosses,               \* bound: lost connections and failed attempts
  MaxCommits               \* bound: committed events

ASSUME HubAssumption == NoClient \notin Clients

VARIABLES
  conn,                    \* per connection: "pool" or "out"
  alive,                   \* connections that still work
  registered,              \* connections on which LISTEN took effect
  transit,                 \* connections with a NOTIFY on its way
  run,                     \* per run: phase, connection, isRelisten, started by the timer
  lost,                    \* #pending entries marked lost
  client,                  \* #client
  timer,                   \* #reconnectTimer is set
  stopped,                 \* #stopped
  hasListened,             \* #hasListened
  closing,                 \* connection close() is releasing
  serving,                 \* start() has resolved: the server accepts sockets
  listeners,               \* #listeners of the workspace
  missed,                  \* per subscriber: a commit it has not been woken for
  misreleased,             \* a connection was released that was not checked out
  starts, losses, commits

connVars == <<conn, alive, registered, misreleased>>
hubVars == <<client, timer, stopped, hasListened, closing, serving>>
subVars == <<listeners, missed>>
counters == <<starts, losses, commits>>
hubState == <<connVars, transit, run, lost, hubVars, subVars, counters>>

Idle == [phase |-> "idle", client |-> NoClient, relisten |-> FALSE, byTimer |-> FALSE]

HubInit ==
  /\ conn = [c \in Clients |-> "pool"]
  /\ alive = Clients
  /\ registered = {} /\ transit = {} /\ lost = {}
  /\ run = [r \in Runs |-> Idle]
  /\ client = NoClient /\ closing = NoClient
  /\ timer = FALSE /\ stopped = FALSE /\ hasListened = FALSE /\ serving = FALSE
  /\ listeners = {} /\ missed = [s \in Subscribers |-> "none"]
  /\ misreleased = FALSE
  /\ starts = 0 /\ losses = 0 /\ commits = 0

-----------------------------------------------------------------------------
(* #release: with an error the pool replaces the connection by a fresh one. *)
Release(c, broken) ==
  /\ conn' = [conn EXCEPT ![c] = "pool"]
  /\ misreleased' = (misreleased \/ conn[c] # "out")
  /\ IF broken \/ c \notin alive
     THEN alive' = alive \cup {c} /\ registered' = registered \ {c}
     ELSE UNCHANGED <<alive, registered>>

(* #scheduleReconnect, in the state where #client is c. *)
ScheduleReconnect(c) == timer' = (timer \/ (~stopped /\ c = NoClient))

(* #listen up to its first await; nothing to do once adopted or stopped. *)
BeginListen(r, byTimer) ==
  /\ run[r].phase = "idle"
  /\ run' = [run EXCEPT ![r] = [Idle EXCEPT !.phase = "connect", !.byTimer = byTimer]]

MustListen == client = NoClient

Finish(r) == run' = [run EXCEPT ![r] = Idle]

(* What the caller of #listen does with the outcome.  start() resolves or   *)
(* rejects; the timer's catch schedules the next attempt.                  *)
Resolved(r) == serving' = (serving \/ (~run[r].byTimer /\ ~stopped))
Rejected(r) ==
  /\ IF run[r].byTimer THEN ScheduleReconnect(client) ELSE UNCHANGED timer
  /\ UNCHANGED serving

-----------------------------------------------------------------------------
(* main starts the hub before it listens for sockets; a second call may     *)
(* race a reconnect.  No caller starts a closed hub.                       *)
Start ==
  /\ starts < MaxStarts /\ ~stopped
  /\ starts' = starts + 1
  /\ IF MustListen
     THEN (\E r \in Runs : BeginListen(r, FALSE)) /\ UNCHANGED serving
     ELSE serving' = TRUE /\ UNCHANGED run
  /\ UNCHANGED <<connVars, transit, lost, client, timer, stopped, hasListened, closing, subVars,
                 losses, commits>>

ReconnectTimer ==
  /\ timer
  /\ timer' = FALSE
  /\ IF MustListen /\ ~stopped
     THEN \E r \in Runs : BeginListen(r, TRUE)
     ELSE UNCHANGED run
  /\ UNCHANGED <<connVars, transit, lost, client, stopped, hasListened, closing, serving,
                 subVars, counters>>

(* pool.connect resolves: the handlers are attached, LISTEN is written. *)
Connect(r, c) ==
  /\ run[r].phase = "connect"
  /\ conn[c] = "pool"
  /\ conn' = [conn EXCEPT ![c] = "out"]
  /\ lost' = lost \ {c}
  /\ run' = [run EXCEPT ![r].phase = "listen", ![r].client = c, ![r].relisten = hasListened]
  /\ UNCHANGED <<alive, registered, misreleased, transit, hubVars, subVars, counters>>

ConnectFails(r) ==
  /\ run[r].phase = "connect"
  /\ losses < MaxLosses
  /\ losses' = losses + 1
  /\ Finish(r)
  /\ Rejected(r)
  /\ UNCHANGED <<connVars, transit, lost, client, stopped, hasListened, closing, subVars,
                 starts, commits>>

(* The server registers the LISTEN; its result is on the way back. *)
ListenTakesEffect(r) ==
  /\ run[r].phase = "listen"
  /\ registered' = registered \cup {run[r].client}
  /\ run' = [run EXCEPT ![r].phase = "settled"]
  /\ UNCHANGED <<conn, alive, misreleased, transit, lost, hubVars, subVars, counters>>

(* The server refuses the LISTEN on a connection that still works. *)
ListenFails(r) ==
  /\ run[r].phase = "listen"
  /\ losses < MaxLosses
  /\ losses' = losses + 1
  /\ run' = [run EXCEPT ![r].phase = "failed"]
  /\ UNCHANGED <<connVars, transit, lost, hubVars, subVars, starts, commits>>

(* The continuation of a LISTEN that rejected. *)
ListenRejected(r) ==
  /\ run[r].phase = "failed"
  /\ Release(run[r].client, TRUE)
  /\ lost' = lost \ {run[r].client}
  /\ Finish(r)
  /\ Rejected(r)
  /\ UNCHANGED <<transit, client, stopped, hasListened, closing, subVars, counters>>

(* The continuation of a LISTEN that resolved: in this order, a connection  *)
(* lost meanwhile, a hub closed meanwhile, a spare, or the new listener.   *)
AbandonLost(r) ==
  /\ run[r].client \in lost
  /\ Release(run[r].client, TRUE)
  /\ ScheduleReconnect(client)
  /\ UNCHANGED <<client, hasListened, missed>>

AbandonStopped(r) ==
  /\ run[r].client \notin lost
  /\ stopped
  /\ Release(run[r].client, FALSE)
  /\ UNCHANGED <<client, timer, hasListened, missed>>

AbandonSpare(r) ==
  /\ run[r].client \notin lost
  /\ ~stopped /\ client # NoClient
  /\ Release(run[r].client, TRUE)
  /\ UNCHANGED <<client, timer, hasListened, missed>>

Woken == [s \in Subscribers |-> IF s \in listeners THEN "none" ELSE missed[s]]

(* Mutant: a live listener is overwritten. *)
AdoptOver(r) ==
  /\ run[r].client \notin lost
  /\ ~stopped
  /\ client' = run[r].client
  /\ hasListened' = TRUE
  /\ missed' = IF run[r].relisten THEN Woken ELSE missed
  /\ UNCHANGED <<connVars, timer>>

Adopt(r) ==
  /\ run[r].client \notin lost
  /\ ~stopped /\ client = NoClient
  /\ client' = run[r].client
  /\ hasListened' = TRUE
  /\ missed' = IF run[r].relisten THEN Woken ELSE missed
  /\ UNCHANGED <<connVars, timer>>

ListenResolved(r) ==
  /\ run[r].phase = "settled"
  /\ AbandonLost(r) \/ AbandonStopped(r) \/ AbandonSpare(r) \/ Adopt(r)
  /\ lost' = lost \ {run[r].client}
  /\ Finish(r)
  /\ Resolved(r)
  /\ UNCHANGED <<transit, stopped, closing, listeners, counters>>

-----------------------------------------------------------------------------
(* A checked-out connection dies.  #handleClientLoss marks a pending one,   *)
(* replaces the adopted one and ignores any other.                         *)
PendingRun(c) == {r \in Runs : run[r].client = c /\ run[r].phase \in {"listen", "settled"}}

ClientLoss(c) ==
  /\ conn[c] = "out" /\ c \in alive
  /\ losses < MaxLosses
  /\ losses' = losses + 1
  /\ transit' = transit \ {c}
  /\ IF c = client
     THEN /\ client' = NoClient
          /\ Release(c, TRUE)
          /\ ScheduleReconnect(NoClient)
          /\ UNCHANGED <<run, lost>>
     ELSE /\ alive' = alive \ {c}
          /\ registered' = registered \ {c}
          /\ lost' = IF PendingRun(c) # {} THEN lost \cup {c} ELSE lost
          /\ run' = [r \in Runs |->
                       IF r \in PendingRun(c) /\ run[r].phase = "listen"
                       THEN [run[r] EXCEPT !.phase = "failed"] ELSE run[r]]
          /\ UNCHANGED <<conn, misreleased, client, timer>>
  /\ UNCHANGED <<stopped, hasListened, closing, serving, subVars, starts, commits>>

(* close(): everything up to the await of UNLISTEN, and what follows it. *)
Close ==
  /\ ~stopped /\ serving /\ closing = NoClient
  /\ stopped' = TRUE
  /\ timer' = FALSE
  /\ closing' = client
  /\ client' = NoClient
  /\ listeners' = {}
  /\ serving' = FALSE
  /\ UNCHANGED <<connVars, transit, run, lost, hasListened, missed, counters>>

CloseReleases ==
  /\ closing # NoClient
  /\ conn' = [conn EXCEPT ![closing] = "pool"]
  /\ misreleased' = (misreleased \/ conn[closing] # "out")
  /\ alive' = alive \cup {closing}
  /\ registered' = registered \ {closing}
  /\ transit' = transit \ {closing}
  /\ closing' = NoClient
  /\ UNCHANGED <<run, lost, client, timer, stopped, hasListened, serving, subVars, counters>>

-----------------------------------------------------------------------------
(* A transaction commits and notifies. *)
CommitNotifies ==
  /\ commits < MaxCommits
  /\ commits' = commits + 1
  /\ transit' = transit \cup registered
  /\ missed' = [s \in Subscribers |->
                  IF s \notin listeners THEN missed[s]
                  ELSE IF hasListened THEN "late" ELSE "early"]
  /\ UNCHANGED <<connVars, run, lost, hubVars, listeners, starts, losses>>

(* Only the adopted connection has a "notification" handler. *)
Notification(c) ==
  /\ c \in transit
  /\ transit' = transit \ {c}
  /\ missed' = IF c = client THEN Woken ELSE missed
  /\ UNCHANGED <<connVars, run, lost, hubVars, listeners, counters>>

(* A socket subscribes before its first read, so it has missed nothing. *)
Subscribe(s) ==
  /\ serving /\ s \notin listeners
  /\ listeners' = listeners \cup {s}
  /\ missed' = [missed EXCEPT ![s] = "none"]
  /\ UNCHANGED <<connVars, transit, run, lost, hubVars, counters>>

Unsubscribe(s) ==
  /\ s \in listeners
  /\ listeners' = listeners \ {s}
  /\ UNCHANGED <<connVars, transit, run, lost, hubVars, missed, counters>>

ListenSteps(r) ==
  \/ \E c \in Clients : Connect(r, c)
  \/ ListenTakesEffect(r) \/ ListenRejected(r) \/ ListenResolved(r)

HubNext ==
  \/ Start \/ ReconnectTimer \/ Close \/ CloseReleases \/ CommitNotifies
  \/ \E r \in Runs : ListenSteps(r) \/ ConnectFails(r) \/ ListenFails(r)
  \/ \E c \in Clients : ClientLoss(c) \/ Notification(c)
  \/ \E s \in Subscribers : Subscribe(s) \/ Unsubscribe(s)

HubSpec == HubInit /\ [][HubNext]_hubState

(* The event loop runs timers and continuations, and Postgres answers.      *)
HubFairSpec ==
  /\ HubSpec
  /\ WF_hubState(ReconnectTimer)
  /\ \A r \in Runs : WF_hubState(ListenSteps(r))
  /\ \A c \in Clients : WF_hubState(Notification(c))

-----------------------------------------------------------------------------
HubTypeOK ==
  /\ conn \in [Clients -> {"pool", "out"}]
  /\ alive \subseteq Clients /\ registered \subseteq Clients
  /\ transit \subseteq Clients /\ lost \subseteq Clients
  /\ run \in [Runs -> [phase: {"idle", "connect", "listen", "settled", "failed"},
                       client: Clients \cup {NoClient}, relisten: BOOLEAN, byTimer: BOOLEAN]]
  /\ client \in Clients \cup {NoClient} /\ closing \in Clients \cup {NoClient}
  /\ {timer, stopped, hasListened, serving, misreleased} \subseteq BOOLEAN
  /\ listeners \subseteq Subscribers
  /\ missed \in [Subscribers -> {"none", "early", "late"}]

(* The adopted connection works and is registered: a hub that adopted a     *)
(* dead one would believe itself live while every subscriber stays silent. *)
AdoptedIsLive == client # NoClient => conn[client] = "out" /\ client \in alive \cap registered

(* A connection is released exactly once for each time it is checked out,   *)
(* and one that is out belongs to the hub, a run in progress or close().   *)
ReleasedOnce ==
  /\ ~misreleased
  /\ \A c \in Clients : conn[c] = "out" =>
       c \in {client, closing} \cup {run[r].client : r \in Runs}

(* A serving hub without a listener has a reconnect timer or an attempt     *)
(* under way.                                                              *)
NeverAbandoned ==
  serving /\ client = NoClient => timer \/ \E r \in Runs : run[r].phase # "idle"

UpToDate == client # NoClient /\ client \notin transit

(* Started once, as main does: when the hub listens and no NOTIFY is on its *)
(* way, no subscriber is still behind a commit that happened since the hub *)
(* first listened.                                                         *)
OutageCaughtUp == UpToDate /\ starts = 1 => \A s \in listeners : missed[s] # "late"

(* What the hub promises the sockets, together. *)
HubHolds == HubTypeOK /\ AdoptedIsLive /\ ReleasedOnce /\ NeverAbandoned /\ OutageCaughtUp

(* A hub that serves and is not closed gets its listener back. *)
Relistens == serving /\ client = NoClient ~> client # NoClient \/ stopped
=============================================================================
