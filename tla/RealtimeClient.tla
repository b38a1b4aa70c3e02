--------------------------- MODULE RealtimeClient ---------------------------
(***************************************************************************)
(* WorkspaceRealtimeClient (packages/api-client/src/realtime.ts): the      *)
(* realtime transport of one signed-in account and its renderer.           *)
(*                                                                         *)
(* A ticket request, a reconnect timer and a socket are opened by one      *)
(* generation (epoch) of the transport and may come back after it was      *)
(* stopped or replaced.  The transport resumes every socket at its cursor, *)
(* and only the renderer's acknowledgement moves the cursor.  The renderer *)
(* applies what it is given, persists it some time later, and may crash.   *)
(*                                                                         *)
(* The server offers every socket the events after its cursor in order and *)
(* a handshake (RealtimeSocket); positions are of one replay epoch.        *)
(***************************************************************************)
EXTENDS Naturals, Sequences, FiniteSets

CONSTANTS
  None,
  MaxSequence,             \* bound: events of the workspace
  MaxReplay,               \* events held before the handshake
  MaxPending,              \* events delivered and not acknowledged
  MaxSessions,             \* bound: prepared scopes
  MaxEpoch,                \* bound: generations begun by the callers
  MaxSockets               \* bound: sockets opened

ASSUME ClientAssumption ==
  /\ MaxSequence \in Nat /\ MaxReplay \in Nat /\ MaxPending \in Nat
  /\ MaxSessions \in Nat /\ MaxEpoch \in Nat /\ MaxSockets \in Nat
  /\ None \notin Nat

VARIABLES
  \* the transport
  sessions,                \* scopes allocated by nextSessionEpoch
  scope,                   \* #scope: a session, or 0
  cursor,                  \* #cursor
  epoch, stopped, incompatible,
  ready,                   \* #consumerDeliveryReady
  windowless,
  recovery,                \* the cursor of #pendingAuthoritativeRecovery, or None
  ticket,                  \* #ticketEpoch, or None
  timer,                   \* the epoch of #timer, or None
  connection,              \* #connection: an index of sockets, or 0
  pendingDelivery,         \* deliveries that are not acknowledged: [socket, position]
  \* what is under way
  requests,                \* epochs whose ticket promise has not settled
  sockets,                 \* every socket opened
  acks,                    \* acknowledgements on their way from a renderer
  \* the renderer
  up,                      \* a renderer is subscribed
  held,                    \* the scope it holds, or 0
  received,                \* the last event it applied
  durable,                 \* the last event it has persisted
  \* history
  overflowAt,              \* the cursor at which replay overflowed, or None
  gap,                     \* an event was delivered that skips another
  foreign                  \* an event for another user was delivered

genVars == <<epoch, stopped, incompatible>>
activityVars == <<ticket, timer, connection>>
modeVars == <<scope, ready, windowless>>
rendererVars == <<up, held, durable>>
deliveryVars == <<received, gap, foreign>>
latchVars == <<recovery, overflowAt>>
vars == <<sessions, cursor, genVars, activityVars, modeVars, pendingDelivery, latchVars, requests,
          sockets, acks, rendererVars, deliveryVars>>

Init ==
  /\ sessions = 0 /\ scope = 0 /\ cursor = 0
  /\ epoch = 0 /\ stopped = TRUE /\ incompatible = FALSE
  /\ ready = FALSE /\ windowless = FALSE
  /\ recovery = None /\ overflowAt = None
  /\ ticket = None /\ timer = None /\ connection = 0
  /\ pendingDelivery = {} /\ requests = {} /\ sockets = <<>> /\ acks = {}
  /\ up = TRUE /\ held = 0 /\ received = 0 /\ durable = 0
  /\ gap = FALSE /\ foreign = FALSE

Larger(a, b) == IF a > b THEN a ELSE b

IsCurrentEpoch(e) == ~stopped /\ ~incompatible /\ epoch = e

(* Mutant: a socket that was replaced within its generation counts, too. *)
IsActiveGeneration(i) ==
  /\ connection # 0
  /\ scope # 0 /\ sockets[i].scope = scope
  /\ IsCurrentEpoch(sockets[i].epoch)

IsActive(i) ==
  /\ connection = i
  /\ scope # 0 /\ sockets[i].scope = scope
  /\ IsCurrentEpoch(sockets[i].epoch)

-----------------------------------------------------------------------------
(* Generations.                                                            *)

(* #retireTransport, leaving the scope s. *)
Retire(clearRecovery, s) ==
  /\ epoch' = epoch + 1 /\ stopped' = TRUE /\ incompatible' = FALSE
  /\ scope' = s /\ ready' = FALSE /\ windowless' = FALSE
  /\ pendingDelivery' = {}
  /\ recovery' = IF clearRecovery THEN None ELSE recovery
  /\ ticket' = None /\ timer' = None /\ connection' = 0

(* acknowledge, for a position of the current scope. *)
Unacknowledged(pending, at) == {d \in pending : d.position > at}

(* #beginEpoch as the generation e at the cursor, with #connect up to its   *)
(* ticket; acknowledging the cursor itself frees nothing.                  *)
BeginEpoch(e) ==
  /\ epoch' = e /\ stopped' = FALSE /\ incompatible' = FALSE
  /\ ticket' = e /\ requests' = requests \cup {e}
  /\ timer' = None /\ connection' = 0

(* A generation stops by itself: an overflow, or no renderer to deliver to. *)
StopGeneration ==
  /\ epoch' = epoch + 1 /\ stopped' = TRUE /\ incompatible' = FALSE
  /\ ticket' = None /\ timer' = None /\ connection' = 0

(* resetSession, also by a consumer that handles a failure. *)
Reset ==
  /\ Retire(TRUE, 0)
  /\ overflowAt' = None
  /\ UNCHANGED <<sessions, cursor>>

(* #scheduleReconnect for the generation e, once the connection is dropped. *)
Schedule(e) ==
  /\ connection' = 0
  /\ timer' = IF IsCurrentEpoch(e) /\ timer = None THEN e ELSE timer
  /\ UNCHANGED <<genVars, modeVars, latchVars, pendingDelivery, sessions, cursor>>

-----------------------------------------------------------------------------
(* What the renderer and the window do.                                    *)

(* prepare from the durable position of the renderer.  A recovery is kept   *)
(* unless the renderer has got past it (the mutant PrepareClears drops it). *)
PrepareClears ==
  /\ up /\ sessions < MaxSessions /\ epoch < MaxEpoch
  /\ Retire(TRUE, sessions + 1)
  /\ sessions' = sessions + 1
  /\ cursor' = durable
  /\ held' = sessions + 1 /\ received' = durable
  /\ UNCHANGED <<overflowAt, requests, sockets, acks, up, durable, gap, foreign>>

Prepare ==
  /\ up /\ sessions < MaxSessions /\ epoch < MaxEpoch
  /\ Retire(~(recovery # None /\ durable <= recovery), sessions + 1)
  /\ sessions' = sessions + 1
  /\ cursor' = durable
  /\ held' = sessions + 1 /\ received' = durable
  /\ UNCHANGED <<overflowAt, requests, sockets, acks, up, durable, gap, foreign>>

(* activate: a retained recovery is delivered instead of opening a socket. *)
ActivateRecovery ==
  /\ recovery # None
  /\ UNCHANGED <<genVars, activityVars, requests>>

ActivateGeneration ==
  /\ recovery = None
  /\ BeginEpoch(epoch + 1)

Activate ==
  /\ up /\ scope # 0 /\ scope = held
  /\ stopped
  /\ windowless' = FALSE /\ ready' = TRUE
  /\ ActivateRecovery \/ ActivateGeneration
  /\ UNCHANGED <<sessions, scope, cursor, pendingDelivery, latchVars, sockets, acks, rendererVars, deliveryVars>>

Stop ==
  /\ sessions > 0 /\ epoch < MaxEpoch
  /\ Retire(FALSE, 0)
  /\ UNCHANGED <<sessions, cursor, overflowAt, requests, sockets, acks, rendererVars, deliveryVars>>

ResetSession ==
  /\ sessions > 0 /\ epoch < MaxEpoch
  /\ Reset
  /\ UNCHANGED <<requests, sockets, acks, rendererVars, deliveryVars>>

ConsumerUnavailable ==
  /\ ready /\ ~up
  /\ ready' = FALSE
  /\ UNCHANGED <<sessions, scope, cursor, genVars, activityVars, windowless, pendingDelivery,
                 latchVars, requests, sockets, acks, rendererVars, deliveryVars>>

(* observeOnly, when the window is closed: the running transport, or the    *)
(* retained recovery, goes on without a renderer, otherwise a generation   *)
(* begins from the cursor.                                                 *)
ObserveOn ==
  /\ recovery # None \/ ~stopped
  /\ UNCHANGED <<sessions, scope, genVars, activityVars, pendingDelivery, requests>>

ObserveScope ==
  /\ recovery = None /\ stopped /\ scope # 0
  /\ BeginEpoch(epoch + 1)
  /\ UNCHANGED <<sessions, scope, pendingDelivery>>

ObserveAnew ==
  /\ recovery = None /\ stopped /\ scope = 0 /\ sessions < MaxSessions
  /\ sessions' = sessions + 1 /\ scope' = sessions + 1
  /\ BeginEpoch(epoch + 2)
  /\ pendingDelivery' = {}

ObserveOnly ==
  /\ ~up /\ sessions > 0 /\ epoch < MaxEpoch
  /\ ready' = FALSE /\ windowless' = TRUE
  /\ ObserveOn \/ ObserveScope \/ ObserveAnew
  /\ UNCHANGED <<cursor, latchVars, sockets, acks, rendererVars, deliveryVars>>

(* An acknowledgement arrives; of another scope it is dropped. *)
Acknowledge(a) ==
  /\ a \in acks
  /\ acks' = acks \ {a}
  /\ IF a.scope = scope /\ scope # 0
     THEN /\ cursor' = Larger(cursor, a.cursor)
          /\ pendingDelivery' = Unacknowledged(pendingDelivery, cursor')
     ELSE UNCHANGED <<cursor, pendingDelivery>>
  /\ UNCHANGED <<sessions, scope, genVars, activityVars, ready, windowless, latchVars, requests,
                 sockets, rendererVars, deliveryVars>>

TransportUnchanged ==
  UNCHANGED <<sessions, cursor, genVars, activityVars, modeVars, pendingDelivery, latchVars,
              requests, sockets>>

(* The renderer persists what it has applied and acknowledges it. *)
Persist ==
  /\ up /\ held # 0 /\ durable < received
  /\ durable' = received
  /\ acks' = acks \cup {[scope |-> held, cursor |-> received]}
  /\ TransportUnchanged
  /\ UNCHANGED <<up, held, deliveryVars>>

(* HTTP recovery brings the replica to some later position. *)
CatchUp ==
  /\ up
  /\ durable' \in (durable + 1)..MaxSequence
  /\ received' = Larger(received, durable')
  /\ TransportUnchanged
  /\ UNCHANGED <<acks, up, held, gap, foreign>>

RendererGone ==
  /\ up
  /\ up' = FALSE /\ held' = 0 /\ received' = durable
  /\ TransportUnchanged
  /\ UNCHANGED <<acks, durable, gap, foreign>>

RendererLoads ==
  /\ ~up
  /\ up' = TRUE
  /\ TransportUnchanged
  /\ UNCHANGED <<acks, held, durable, deliveryVars>>

-----------------------------------------------------------------------------
(* Tickets, timers and sockets.                                            *)

(* Mutant: any ticket of a running transport is used. *)
OwnsAnyTicket(e) == ticket # None /\ IsCurrentEpoch(epoch)

OwnsTicket(e) == ticket = e /\ IsCurrentEpoch(e)

Settled(e) == e \in requests /\ requests' = requests \ {e}

LateTicket(e) ==
  /\ Settled(e)
  /\ ~OwnsTicket(e)
  /\ UNCHANGED <<sessions, cursor, genVars, activityVars, modeVars, pendingDelivery, latchVars,
                 sockets, acks, rendererVars, deliveryVars>>

(* The ticket is for the user that is signed in when the server issues it. *)
Socket(user) ==
  [epoch |-> epoch, scope |-> scope, user |-> user, next |-> cursor, replayed |-> cursor,
   greeted |-> FALSE, gone |-> FALSE]

OpenSocket(e, user) ==
  /\ Settled(e)
  /\ OwnsTicket(e)
  /\ scope # 0 /\ connection = 0 /\ Len(sockets) < MaxSockets
  /\ ticket' = None
  /\ sockets' = Append(sockets, Socket(user))
  /\ connection' = Len(sockets) + 1
  /\ UNCHANGED <<sessions, cursor, genVars, timer, modeVars, pendingDelivery, latchVars, acks,
                 rendererVars, deliveryVars>>

(* No ticket, or no socket for it. *)
TicketFails(e) ==
  /\ Settled(e)
  /\ OwnsTicket(e)
  /\ ticket' = None
  /\ \/ Schedule(e)
     \/ /\ incompatible' = TRUE
        /\ UNCHANGED <<epoch, stopped, timer, connection, modeVars, latchVars, pendingDelivery,
                       sessions, cursor>>
     \/ Reset
  /\ UNCHANGED <<sockets, acks, rendererVars, deliveryVars>>

TimerFires ==
  /\ timer # None
  /\ timer' = None
  /\ IF IsCurrentEpoch(timer) /\ connection = 0 /\ ticket = None
     THEN ticket' = timer /\ requests' = requests \cup {timer}
     ELSE UNCHANGED <<ticket, requests>>
  /\ UNCHANGED <<sessions, cursor, genVars, connection, modeVars, pendingDelivery, latchVars,
                 sockets, acks, rendererVars, deliveryVars>>

-----------------------------------------------------------------------------
(* Delivery.  A socket's events are positions, one after the other; what is *)
(* delivered at once are those from first to last and, where control is 1, *)
(* a control frame after them.                                             *)

Fresh(i, first, last) == {[socket |-> i, position |-> p] : p \in {q \in first..last : q > cursor}}
Pending(i, first, last) == pendingDelivery \cup Fresh(i, first, last)

Accepts == ready /\ up

(* The events from first to last of socket i reach the renderer. *)
Cross(i, first, last) ==
  LET some == first <= last
      mine == some /\ sockets[i].scope = held
  IN  /\ received' = IF mine THEN Larger(received, last) ELSE received
      /\ gap' = (gap \/ (mine /\ first > received + 1))
      /\ foreign' = (foreign \/ (some /\ sockets[i].user # "own"))

Nothing == UNCHANGED deliveryVars

(* #requireAuthoritativeRecovery: the generation stops at its cursor. *)
RequireRecovery ==
  /\ StopGeneration
  /\ recovery' = cursor /\ overflowAt' = cursor
  /\ ready' = Accepts
  /\ UNCHANGED <<scope, windowless, sessions, cursor>>

(* #pauseForRenderer. *)
Pause ==
  /\ StopGeneration
  /\ scope' = 0 /\ ready' = FALSE /\ windowless' = FALSE
  /\ UNCHANGED <<latchVars, sessions, cursor>>

(* Mutant: receiving an event moves the cursor. *)
DeliverAcknowledged(i, first, last) ==
  /\ Accepts
  /\ Cross(i, first, last)
  /\ cursor' = IF Fresh(i, first, last) = {} THEN cursor ELSE received'
  /\ UNCHANGED <<genVars, activityVars, modeVars, latchVars, sessions, pendingDelivery>>

(* #deliverEvent for each of them until one is not delivered. *)
DeliverAll(i, first, last) ==
  /\ Accepts
  /\ Cardinality(Pending(i, first, last)) <= MaxPending
  /\ Cross(i, first, last)
  /\ pendingDelivery' = Pending(i, first, last)
  /\ UNCHANGED <<genVars, activityVars, modeVars, latchVars, sessions, cursor>>

(* Those before at are delivered; the budget is spent, the renderer is not  *)
(* there, or its boundary throws, at that one.                             *)
DeliverSome(i, first, last, at) ==
  LET upTo == IF at > last THEN last ELSE at
      spent == Cardinality(Pending(i, first, upTo)) > MaxPending
      fits == Cardinality(Pending(i, first, at - 1)) <= MaxPending
  IN  /\ at > first => Accepts
      /\ fits
      /\ Cross(i, first, at - 1)
      /\ \/ /\ spent
            /\ RequireRecovery
            /\ pendingDelivery' = Pending(i, first, at - 1)
         \/ /\ ~spent /\ ~Accepts
            /\ Pause
            /\ pendingDelivery' = Pending(i, first, upTo)
         \/ /\ ~spent /\ Accepts
            /\ connection' = 0 /\ timer' = epoch
            /\ pendingDelivery' = Pending(i, first, upTo)
            /\ UNCHANGED <<genVars, ticket, modeVars, latchVars, sessions, cursor>>

(* Without a window events are observed and forgotten. *)
Deliver(i, first, last, control) ==
  IF windowless
  THEN /\ Nothing
       /\ UNCHANGED <<genVars, activityVars, modeVars, latchVars, pendingDelivery, sessions, cursor>>
  ELSE \/ DeliverAll(i, first, last)
       \/ \E at \in first..(last + control) : DeliverSome(i, first, last, at)

-----------------------------------------------------------------------------
(* Frames.  Those of a socket that is not the active one are dropped.      *)

Dropped == Nothing /\ UNCHANGED <<sessions, cursor, genVars, activityVars, modeVars,
                                  pendingDelivery, latchVars>>

(* An event before the handshake is held: those after replayed, up to next. *)
Hold(i, p) ==
  /\ sockets' = [sockets EXCEPT ![i].next = p]
  /\ IF sockets[i].next - sockets[i].replayed >= MaxReplay
     THEN RequireRecovery /\ Nothing /\ UNCHANGED pendingDelivery
     ELSE Dropped

EventFrame(i) ==
  LET p == sockets[i].next + 1 IN
  /\ p <= MaxSequence
  /\ IF IsActive(i) /\ ~sockets[i].greeted
     THEN Hold(i, p)
     ELSE /\ sockets' = [sockets EXCEPT ![i].next = p, ![i].replayed = p]
          /\ IF IsActive(i) THEN Deliver(i, p, p, 0) ELSE Dropped

(* #failIncompatible. *)
FailIncompatible ==
  /\ incompatible' = TRUE
  /\ connection' = 0
  /\ Nothing
  /\ UNCHANGED <<epoch, stopped, ticket, timer, modeVars, latchVars, pendingDelivery, sessions,
                 cursor>>

(* The handshake proves the user, releases what was held, and is itself     *)
(* delivered.                                                              *)
ConnectedFrame(i) ==
  /\ ~sockets[i].greeted
  /\ sockets' = [sockets EXCEPT ![i].greeted = TRUE, ![i].replayed = sockets[i].next]
  /\ IF ~IsActive(i) THEN Dropped
     ELSE IF sockets[i].user # "own" THEN FailIncompatible
     ELSE Deliver(i, sockets[i].replayed + 1, sockets[i].next, 1)

(* #retainWindowlessAuthoritativeRecovery. *)
RetainWindowless ==
  /\ StopGeneration
  /\ scope' = 0
  /\ recovery' = cursor /\ overflowAt' = cursor
  /\ Nothing
  /\ UNCHANGED <<ready, windowless, pendingDelivery, sessions, cursor>>

ResyncFrame(i) ==
  /\ UNCHANGED sockets
  /\ IsActive(i)
  /\ IF windowless THEN RetainWindowless ELSE Deliver(i, 1, 0, 1)

(* A frame that does not parse, an error and the end of the socket are      *)
(* handled by the consumer or lead to another attempt.                     *)
Broken(i) ==
  /\ sockets' = [sockets EXCEPT ![i].gone = TRUE]
  /\ IF IsActive(i)
     THEN (Schedule(sockets[i].epoch) /\ UNCHANGED ticket) \/ Reset
     ELSE UNCHANGED <<sessions, cursor, genVars, activityVars, modeVars, pendingDelivery,
                      latchVars>>
  /\ Nothing

Frame(i) ==
  /\ ~sockets[i].gone
  /\ EventFrame(i) \/ ConnectedFrame(i) \/ ResyncFrame(i) \/ Broken(i)
  /\ UNCHANGED <<requests, acks, rendererVars>>

Next ==
  \/ Prepare \/ Activate \/ Stop \/ ResetSession \/ ConsumerUnavailable \/ ObserveOnly
  \/ \E a \in acks : Acknowledge(a)
  \/ Persist \/ CatchUp \/ RendererGone \/ RendererLoads
  \/ \E e \in requests :
       \/ LateTicket(e) \/ TicketFails(e)
       \/ \E user \in {"own", "other"} : OpenSocket(e, user)
  \/ TimerFires
  \/ \E i \in DOMAIN sockets : Frame(i)

Spec == Init /\ [][Next]_vars

-----------------------------------------------------------------------------
Positions == 0..MaxSequence
Epochs == 0..(MaxEpoch + 2)

TypeOK ==
  /\ sessions \in 0..MaxSessions /\ scope \in 0..sessions /\ held \in 0..sessions
  /\ cursor \in Positions /\ received \in Positions /\ durable \in Positions
  /\ {recovery, overflowAt} \subseteq Positions \cup {None}
  /\ epoch \in Epochs /\ requests \subseteq Epochs
  /\ {ticket, timer} \subseteq Epochs \cup {None}
  /\ {stopped, incompatible, ready, windowless, up, gap, foreign} \subseteq BOOLEAN
  /\ sockets \in Seq([epoch: Epochs, scope: 1..MaxSessions, user: {"own", "other"},
                      next: Positions, replayed: Positions, greeted: BOOLEAN, gone: BOOLEAN])
  /\ connection \in 0..Len(sockets)
  /\ pendingDelivery \subseteq [socket: DOMAIN sockets, position: Positions]
  /\ Cardinality(pendingDelivery) <= MaxPending
  /\ \A a \in acks : a.scope \in 1..sessions /\ a.cursor \in Positions

Activities ==
  {x \in {"ticket", "timer", "connection"} :
     \/ x = "ticket" /\ ticket # None
     \/ x = "timer" /\ timer # None
     \/ x = "connection" /\ connection # 0}

(* A transport that is running and compatible is waiting for exactly one    *)
(* thing of its own generation, and otherwise for nothing: it is neither   *)
(* wedged, nor opens two sockets, nor lives on after a stop.               *)
SingleFlight ==
  IF stopped \/ incompatible
  THEN Activities = {}
  ELSE /\ \E x \in Activities : Activities = {x}
       /\ {ticket, timer} \subseteq {None, epoch}
       /\ connection # 0 => IsActive(connection)
       /\ ticket # None => ticket \in requests

(* "every failed connection resumes from the last explicit acknowledgement":*)
(* no socket resumes past what the renderer has persisted.                 *)
ResumesDurably == cursor <= durable

(* The renderer never applies an event whose predecessor it lacks, whatever *)
(* reconnects, crashes, budgets and late acknowledgements come between.    *)
NoGap == ~gap

(* Held frames cross only after the handshake proved the user: "otherwise a *)
(* same-workspace sign-in replacement could briefly receive another user's *)
(* event audience".                                                        *)
OwnAudienceOnly == ~foreign

(* While a recovery is retained the transport is stopped. *)
RecoveryStops == recovery # None => stopped

(* What holds of the transport at every moment, together. *)
TransportHolds == TypeOK /\ SingleFlight /\ OwnAudienceOnly /\ RecoveryStops

(* "a renderer crash during resync cannot reopen the socket at the cursor   *)
(* that already overflowed": until the session is reset every later socket *)
(* starts past it.                                                         *)
ReopensPastOverflow ==
  [][Len(sockets') > Len(sockets) /\ overflowAt # None => sockets'[Len(sockets')].next > overflowAt]_vars
=============================================================================
