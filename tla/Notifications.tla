---------------------------- MODULE Notifications ----------------------------
(* Native notifications in the desktop's main process: the controller that judges each  *)
(* realtime event, queues and presents notifications and keeps their click actions; the *)
(* projection of conversations and members it judges by; the coordinator that repairs   *)
(* that projection over HTTP; and the bootstrap the renderer asks for.                  *)
(* Code: apps/desktop/src/main/notification-controller.ts, notification-projection-     *)
(* repair.ts, notification-policy.ts and the wiring in index.ts.                        *)
(*                                                                                      *)
(* Every message is one the member would be notified of; a catalog read is the log      *)
(* position it was read at, since the server answers from one snapshot.                 *)
EXTENDS Integers, Sequences, FiniteSets

CONSTANTS
  Convs,        \* conversations
  First,        \* the conversation the member belongs to from the start
  MaxEvents,    \* bound: events of the server's log
  MaxLogins,    \* bound: sessions
  MaxQueued,    \* the limit of queued presentations, and of queued actions
  MaxBoots,     \* bound: bootstraps
  MaxDrops,     \* bound: lost connections
  MaxChanges    \* bound: changes of the settings

VARIABLES
  events,       \* the server's log, as far as it concerns the member
  link,         \* the realtime connection: [up, next, boundary]
  drops,        \* connections lost
  login,        \* the session that is signed in, 0 when none
  logins,       \* sessions so far
  active,       \* the controller's session, 0 until a bootstrap starts it
  watermark,    \* position of the last event handled
  known,        \* the projection: conversations
  knownHealthy, \* ... and whether it may be judged by
  memberPos,    \* the projection: position its members were read at
  membersHealthy,
  barred,      \* conversations the member was removed from
  convRepair,   \* the conversation repair in flight
  memberRepair, \* the member repair in flight
  boot,         \* the bootstrap in flight
  boots,        \* bootstraps so far
  waiting,      \* presentations queued, oldest first
  onScreen,     \* notifications presented and not closed
  clicks,       \* actions of clicked notifications, oldest first
  renderer,     \* "none", "bound" or "ready"
  device,       \* notifications are enabled on this device
  preview,      \* message bodies may be shown
  changes,      \* changes of the settings
  broken,       \* presenting failed, until the capability is read again
  shown,        \* history: messages presented, in order
  gaveUp,       \* history: a repair of the conversations, of the members, failed
  seededOld     \* history: a bootstrap's page replaced a projection newer than itself

vars == <<events, link, drops, login, logins, active, watermark, known, knownHealthy,
          memberPos, membersHealthy, barred, convRepair, memberRepair, boot, boots, waiting,
          onScreen, clicks, renderer, device, preview, changes, broken, shown, gaveUp, seededOld>>
projVars == <<known, knownHealthy, memberPos, membersHealthy, barred, convRepair,
              memberRepair, gaveUp, seededOld>>
queueVars == <<waiting, onScreen, clicks>>
sessionVars == <<login, logins, active, renderer>>
settingVars == <<device, preview, changes, broken>>
linkVars == <<link, drops>>
bootVars == <<boot, boots>>

Types == {"message", "created", "added", "removed", "member"}
Positions == 0..MaxEvents
Down == [up |-> FALSE, next |-> 1, boundary |-> 0]
NoRepair == [on |-> FALSE, rev |-> 0, att |-> 0, at |-> -1]
NoBoot == [login |-> 0, at |-> -1]
Actions == [login : 1..MaxLogins, conv : Convs, pos : 1..MaxEvents, body : BOOLEAN]
Repairs == [on : BOOLEAN, rev : 0..(MaxEvents + MaxBoots), att : 0..(MaxEvents + MaxBoots),
            at : -1..MaxEvents]

TypeOK ==
  /\ events \in Seq([type : Types, conv : Convs]) /\ Len(events) <= MaxEvents
  /\ link \in [up : BOOLEAN, next : 1..(MaxEvents + 1), boundary : Positions]
  /\ {login, logins, active} \subseteq 0..MaxLogins
  /\ watermark \in Positions /\ memberPos \in Positions
  /\ known \subseteq Convs /\ barred \subseteq Convs
  /\ convRepair \in Repairs /\ memberRepair \in Repairs
  /\ boot \in [login : 0..MaxLogins, at : -1..MaxEvents]
  /\ waiting \in Seq(Actions) /\ Len(waiting) <= MaxQueued
  /\ onScreen \subseteq Actions /\ clicks \in Seq(Actions) /\ Len(clicks) <= MaxQueued
  /\ renderer \in {"none", "bound", "ready"}

(* The conversations the member belongs to after the first n events.                    *)
Joined(n) ==
  {c \in Convs : LET moves == {p \in 1..n : events[p].conv = c
                                 /\ events[p].type \in {"created", "added", "removed"}}
                 IN IF moves = {} THEN c = First
                    ELSE \E p \in moves : (\A q \in moves : q <= p)
                                          /\ events[p].type # "removed"}

Init ==
  /\ events = <<>> /\ link = Down /\ drops = 0
  /\ login = 0 /\ logins = 0 /\ active = 0
  /\ watermark = 0 /\ known = {} /\ knownHealthy = TRUE
  /\ memberPos = 0 /\ membersHealthy = TRUE /\ barred = {}
  /\ convRepair = NoRepair /\ memberRepair = NoRepair /\ boot = NoBoot /\ boots = 0
  /\ waiting = <<>> /\ onScreen = {} /\ clicks = <<>>
  /\ renderer = "none" /\ device = TRUE /\ preview = TRUE
  /\ changes = 0 /\ broken = FALSE
  /\ shown = <<>> /\ gaveUp = [convs |-> FALSE, members |-> FALSE] /\ seededOld = FALSE

-----------------------------------------------------------------------------
(* The server's log grows by an event the member may see.                               *)
ServerCommits ==
  /\ Len(events) < MaxEvents
  /\ \E t \in Types, c \in Convs :
       /\ t \in {"message", "removed"} => c \in Joined(Len(events))
       /\ t = "added" => c \notin Joined(Len(events))
       /\ t = "created" => c # First /\ \A p \in 1..Len(events) : events[p].conv # c
       /\ t = "member" => c = First
       /\ events' = Append(events, [type |-> t, conv |-> c])
  /\ UNCHANGED <<linkVars, sessionVars, watermark, projVars, bootVars, queueVars,
                 settingVars, shown>>

-----------------------------------------------------------------------------
(* clearScope: nothing of a session survives it.                                        *)
ScopeCleared ==
  /\ known' = {} /\ knownHealthy' = TRUE /\ membersHealthy' = TRUE /\ barred' = {}
  /\ waiting' = <<>> /\ onScreen' = {} /\ clicks' = <<>> /\ renderer' = "none"
  /\ gaveUp' = [convs |-> FALSE, members |-> FALSE] /\ seededOld' = FALSE

(* transitionNotificationSession: a session begins or ends; the workspace resources of  *)
(* the previous one are disposed, with their connection and their repairs.              *)
SessionChanges ==
  /\ ScopeCleared
  /\ active' = 0 /\ watermark' = 0 /\ memberPos' = 0
  /\ convRepair' = NoRepair /\ memberRepair' = NoRepair
  /\ link' = Down

SignIn ==
  /\ login = 0 /\ logins < MaxLogins
  /\ logins' = logins + 1 /\ login' = logins'
  /\ SessionChanges
  /\ UNCHANGED <<events, drops, bootVars, settingVars, shown>>

SignOut ==
  /\ login # 0 /\ login' = 0
  /\ SessionChanges
  /\ UNCHANGED <<events, drops, logins, bootVars, settingVars, shown>>

-----------------------------------------------------------------------------
(* The connection replays from where the renderer's acknowledgements stood, says it is  *)
(* connected at the position where live delivery begins, and goes on live.              *)
Connect ==
  /\ active # 0 /\ ~link.up
  /\ \E from \in 1..link.next : link' = [up |-> TRUE, next |-> from, boundary |-> Len(events)]
  /\ UNCHANGED <<events, drops, sessionVars, watermark, projVars, bootVars, queueVars,
                 settingVars, shown>>

Disconnect ==
  /\ link.up /\ drops < MaxDrops
  /\ drops' = drops + 1 /\ link' = [link EXCEPT !.up = FALSE, !.boundary = 0]
  /\ UNCHANGED <<events, sessionVars, watermark, projVars, bootVars, queueVars, settingVars,
                 shown>>

Armed == link.up /\ link.next > link.boundary

-----------------------------------------------------------------------------
(* Mutant: a request during a repair is taken for the one in flight.                    *)
RequestedOnce(repair) == IF repair.on THEN repair ELSE [on |-> TRUE, rev |-> 1, att |-> 1, at |-> -1]

(* A repair that is asked for while one is in flight supersedes what it is reading.     *)
Requested(repair) ==
  IF repair.on THEN [repair EXCEPT !.rev = @ + 1]
  ELSE [on |-> TRUE, rev |-> 1, att |-> 1, at |-> -1]

ConvRepairAsked == convRepair' = Requested(convRepair) /\ knownHealthy' = FALSE

(* disableMemberProjection: what was judged by the old members is taken back.           *)
MembersDisabled ==
  /\ membersHealthy' = FALSE /\ memberRepair' = Requested(memberRepair)
  /\ waiting' = <<>> /\ onScreen' = {}

Without(q, gone) == SelectSeq(q, LAMBDA a : a.conv \notin gone)

(* blockConversation: everything queued or shown of the conversation is withdrawn.      *)
Blocked(c) ==
  /\ barred' = barred \cup {c}
  /\ clicks' = Without(clicks, {c}) /\ waiting' = Without(waiting, {c})
  /\ onScreen' = {a \in onScreen : a.conv # c}

(* applyMetadataInvalidation and appendProjectedConversation.                           *)
Invalidated(e) ==
  \/ /\ e.type = "created"
     /\ IF knownHealthy
        THEN known' = known \cup {e.conv} /\ UNCHANGED <<knownHealthy, convRepair>>
        ELSE ConvRepairAsked /\ UNCHANGED known
     /\ UNCHANGED <<memberPos, membersHealthy, memberRepair, barred, queueVars>>
  \/ /\ e.type = "member"
     /\ MembersDisabled
     /\ UNCHANGED <<known, knownHealthy, convRepair, memberPos, barred, clicks>>
  \/ /\ e.type = "removed"
     /\ Blocked(e.conv) /\ ConvRepairAsked
     /\ UNCHANGED <<known, memberPos, membersHealthy, memberRepair>>
  \/ /\ e.type = "added"
     /\ ConvRepairAsked
     /\ UNCHANGED <<known, memberPos, membersHealthy, memberRepair, barred, queueVars>>

(* conversationState and the policy: only a live, new message of a conversation the     *)
(* member is known to be in, not already seen, on a device that wants it.               *)
Authorized(c) == c \notin barred /\ knownHealthy /\ membersHealthy /\ c \in known
Eligible(e, seen) == Armed /\ Authorized(e.conv) /\ ~seen /\ device /\ ~broken

(* Mutant: the queue is not bounded.                                                    *)
Unbounded(q) == q

(* enqueuePresentation: beyond the limit the oldest one is dropped.                     *)
Bounded(q) == IF Len(q) > MaxQueued THEN Tail(q) ELSE q

(* handleEvent: the next event of the connection, replayed or live.                     *)
HandleEvent ==
  /\ link.up /\ link.next <= Len(events)
  /\ LET p == link.next
         e == events[p]
         duplicate == p <= watermark
     IN /\ link' = [link EXCEPT !.next = p + 1]
        /\ watermark' = IF duplicate THEN watermark ELSE p
        /\ IF duplicate
           THEN UNCHANGED <<projVars, queueVars>>
           ELSE IF e.type # "message"
           THEN Invalidated(e) /\ UNCHANGED <<gaveUp, seededOld>>
           ELSE /\ \E seen \in BOOLEAN :
                     waiting' = IF Eligible(e, seen)
                                THEN Bounded(Append(waiting, [login |-> active,
                                       conv |-> e.conv, pos |-> p, body |-> preview]))
                                ELSE waiting
                /\ UNCHANGED <<projVars, onScreen, clicks>>
  /\ UNCHANGED <<events, drops, sessionVars, bootVars, settingVars, shown>>

-----------------------------------------------------------------------------
(* replaceConversations, from a catalog read at position n.                             *)
Replaced(n) ==
  LET gone == Convs \ Joined(n)
  IN /\ known' = Joined(n) /\ knownHealthy' = TRUE /\ barred' = barred \ Joined(n)
     /\ clicks' = Without(clicks, gone) /\ waiting' = Without(waiting, gone)
     /\ onScreen' = {a \in onScreen : a.conv \notin gone}

(* The transport's reads: the server answers from its log as it is then.                *)
ConvRead ==
  /\ convRepair.on /\ convRepair.at = -1
  /\ convRepair' = [convRepair EXCEPT !.at = Len(events)]
  /\ UNCHANGED <<events, linkVars, sessionVars, watermark, known, knownHealthy, memberPos,
                 membersHealthy, barred, memberRepair, bootVars, queueVars, settingVars,
                 shown, gaveUp, seededOld>>

MemberRead ==
  /\ memberRepair.on /\ memberRepair.at = -1
  /\ memberRepair' = [memberRepair EXCEPT !.at = Len(events)]
  /\ UNCHANGED <<events, linkVars, sessionVars, watermark, known, knownHealthy, memberPos,
                 membersHealthy, barred, convRepair, bootVars, queueVars, settingVars,
                 shown, gaveUp, seededOld>>

Again(repair) == [repair EXCEPT !.att = repair.rev, !.at = -1]
IsLatest(repair) == repair.att = repair.rev

(* repairUntilCurrent: an answer that was superseded while it was read is read again.   *)
ConvRepaired ==
  /\ convRepair.on /\ convRepair.at >= 0
  /\ IF IsLatest(convRepair)
     THEN /\ convRepair' = NoRepair /\ Replaced(convRepair.at)
          /\ gaveUp' = [gaveUp EXCEPT !.convs = FALSE] /\ seededOld' = FALSE
     ELSE /\ convRepair' = Again(convRepair)
          /\ UNCHANGED <<known, knownHealthy, barred, queueVars, gaveUp, seededOld>>
  /\ UNCHANGED <<events, linkVars, sessionVars, watermark, memberPos, membersHealthy,
                 memberRepair, bootVars, settingVars, shown>>

MembersRepaired ==
  /\ memberRepair.on /\ memberRepair.at >= 0
  /\ IF IsLatest(memberRepair)
     THEN /\ memberRepair' = NoRepair /\ memberPos' = memberRepair.at
          /\ membersHealthy' = TRUE /\ gaveUp' = [gaveUp EXCEPT !.members = FALSE]
     ELSE memberRepair' = Again(memberRepair) /\ UNCHANGED <<memberPos, membersHealthy, gaveUp>>
  /\ UNCHANGED <<events, linkVars, sessionVars, watermark, known, knownHealthy, barred,
                 convRepair, seededOld, bootVars, queueVars, settingVars, shown>>

(* A read that fails ends its repair, unless it was superseded meanwhile.               *)
RepairFails ==
  /\ \/ /\ convRepair.on
        /\ IF IsLatest(convRepair)
           THEN convRepair' = NoRepair /\ gaveUp' = [gaveUp EXCEPT !.convs = TRUE]
           ELSE convRepair' = Again(convRepair) /\ UNCHANGED gaveUp
        /\ UNCHANGED memberRepair
     \/ /\ memberRepair.on
        /\ IF IsLatest(memberRepair)
           THEN memberRepair' = NoRepair /\ gaveUp' = [gaveUp EXCEPT !.members = TRUE]
           ELSE memberRepair' = Again(memberRepair) /\ UNCHANGED gaveUp
        /\ UNCHANGED convRepair
  /\ UNCHANGED <<events, linkVars, sessionVars, watermark, known, knownHealthy, memberPos,
                 membersHealthy, barred, seededOld, bootVars, queueVars, settingVars, shown>>

-----------------------------------------------------------------------------
(* The renderer bootstraps: first for a new session, later because it or its window     *)
(* came back, while realtime goes on.                                                   *)
BootAsks ==
  /\ login # 0 /\ boot = NoBoot /\ boots < MaxBoots
  /\ boots' = boots + 1 /\ boot' = [login |-> login, at |-> -1]
  /\ UNCHANGED <<events, linkVars, sessionVars, watermark, projVars, queueVars, settingVars,
                 shown>>

BootRead ==
  /\ boot.login # 0 /\ boot.at = -1
  /\ boot' = [boot EXCEPT !.at = Len(events)]
  /\ UNCHANGED <<events, linkVars, sessionVars, watermark, projVars, boots, queueVars,
                 settingVars, shown>>

(* seedConversationCatalog: a repair in flight is superseded; otherwise the page of the *)
(* bootstrap replaces the projection at once.                                           *)
SeedOf(n) ==
  IF convRepair.on
  THEN ConvRepairAsked /\ UNCHANGED <<known, barred, clicks, seededOld>>
  ELSE /\ known' = Joined(n) /\ knownHealthy' = TRUE /\ barred' = barred \ Joined(n)
       /\ clicks' = Without(clicks, Convs \ Joined(n))
       /\ seededOld' = (seededOld \/ n < watermark)
       /\ UNCHANGED convRepair

(* projectNotificationBootstrap: the first response of a session starts it; a later one *)
(* only asks for fresh members, but its conversations are used as they are.             *)
BootReplies ==
  /\ boot.login # 0 /\ boot.at >= 0 /\ boot' = NoBoot
  /\ IF boot.login # login
     THEN UNCHANGED <<sessionVars, link, watermark, projVars, queueVars>>
     ELSE IF active # login
     THEN /\ active' = login /\ watermark' = boot.at
          /\ link' = [link EXCEPT !.next = boot.at + 1]
          /\ memberPos' = boot.at /\ membersHealthy' = TRUE /\ memberRepair' = NoRepair
          /\ known' = Joined(boot.at) /\ knownHealthy' = TRUE /\ barred' = {}
          /\ waiting' = <<>> /\ onScreen' = {} /\ clicks' = <<>> /\ renderer' = "none"
          /\ gaveUp' = [convs |-> FALSE, members |-> FALSE] /\ seededOld' = FALSE
          /\ UNCHANGED <<login, logins, convRepair>>
     ELSE /\ MembersDisabled /\ SeedOf(boot.at)
          /\ UNCHANGED <<sessionVars, link, watermark, memberPos, gaveUp>>
  /\ UNCHANGED <<events, drops, boots, settingVars, shown>>

BootFails ==
  /\ boot.login # 0 /\ boot' = NoBoot
  /\ UNCHANGED <<events, linkVars, sessionVars, watermark, projVars, boots, queueVars,
                 settingVars, shown>>

-----------------------------------------------------------------------------
(* drainOnePresentation: what still applies is handed to the system.                    *)
StillApplies(a) ==
  active # 0 /\ a.login = active /\ a.conv \notin barred /\ a.conv \in known

Present ==
  /\ waiting # <<>> /\ ~broken
  /\ LET a == Head(waiting)
     IN IF ~StillApplies(a)
        THEN waiting' = Tail(waiting) /\ UNCHANGED <<onScreen, broken, shown>>
        ELSE \/ /\ waiting' = Tail(waiting) /\ onScreen' = onScreen \cup {a}
                /\ shown' = Append(shown, a.pos) /\ UNCHANGED broken
             \/ /\ waiting' = <<>> /\ onScreen' = {} /\ broken' = TRUE /\ UNCHANGED shown
  /\ UNCHANGED <<events, linkVars, sessionVars, watermark, projVars, bootVars, clicks, device,
                 preview, changes>>

(* The system reports a click, a close or a failure, once for each notification.        *)
Click(a) ==
  /\ onScreen' = onScreen \ {a}
  /\ clicks' = IF StillApplies(a) THEN Bounded(Append(clicks, a)) ELSE clicks
  /\ UNCHANGED <<events, linkVars, sessionVars, watermark, projVars, bootVars, waiting,
                 settingVars, shown>>

Close(a) ==
  /\ onScreen' = onScreen \ {a}
  /\ UNCHANGED <<events, linkVars, sessionVars, watermark, projVars, bootVars, waiting,
                 clicks, settingVars, shown>>

Failure(a) ==
  /\ a \in onScreen
  /\ onScreen' = {} /\ waiting' = <<>> /\ broken' = TRUE
  /\ UNCHANGED <<events, linkVars, sessionVars, watermark, projVars, bootVars, clicks,
                 device, preview, changes, shown>>

(* The renderer binds, drains the actions it was not told of, and acknowledges one.     *)
BindRenderer ==
  /\ active # 0 /\ renderer = "none" /\ renderer' = "bound"
  /\ UNCHANGED <<events, linkVars, login, logins, active, watermark, projVars, bootVars,
                 queueVars, settingVars, shown>>

RendererGone ==
  /\ renderer # "none" /\ renderer' = "none"
  /\ UNCHANGED <<events, linkVars, login, logins, active, watermark, projVars, bootVars,
                 queueVars, settingVars, shown>>

Drain ==
  /\ active # 0 /\ renderer # "none" /\ renderer' = "ready"
  /\ clicks' = SelectSeq(clicks, StillApplies)
  /\ UNCHANGED <<events, linkVars, login, logins, active, watermark, projVars, bootVars,
                 waiting, onScreen, settingVars, shown>>

Acknowledge ==
  /\ active # 0 /\ renderer = "ready"
  /\ \E i \in 1..Len(clicks) :
       clicks' = [j \in 1..(Len(clicks) - 1) |-> clicks[IF j < i THEN j ELSE j + 1]]
  /\ UNCHANGED <<events, linkVars, sessionVars, watermark, projVars, bootVars, waiting,
                 onScreen, settingVars, shown>>

(* The settings change: an opt-out takes back what is queued and what is on screen.     *)
SettingsChange ==
  /\ changes < MaxChanges /\ changes' = changes + 1
  /\ device' \in BOOLEAN /\ preview' \in BOOLEAN /\ broken' \in {broken, FALSE}
  /\ <<device', preview', broken'>> # <<device, preview, broken>>
  /\ IF ~device' \/ (preview /\ ~preview')
     THEN waiting' = <<>> /\ onScreen' = {}
     ELSE UNCHANGED <<waiting, onScreen>>
  /\ UNCHANGED <<events, linkVars, sessionVars, watermark, projVars, bootVars, clicks, shown>>

-----------------------------------------------------------------------------
Next ==
  \/ ServerCommits \/ SignIn \/ SignOut \/ Connect \/ Disconnect \/ HandleEvent
  \/ ConvRead \/ MemberRead \/ ConvRepaired \/ MembersRepaired \/ RepairFails
  \/ BootAsks \/ BootRead \/ BootReplies \/ BootFails
  \/ Present \/ \E a \in onScreen : Click(a) \/ Close(a) \/ Failure(a)
  \/ BindRenderer \/ RendererGone \/ Drain \/ Acknowledge \/ SettingsChange

Spec == Init /\ [][Next]_vars

-----------------------------------------------------------------------------
Range(q) == {q[i] : i \in DOMAIN q}

(* Whatever is queued, on screen or clicked belongs to this session and to a            *)
(* conversation the member was not removed from; nothing is queued or shown on a device *)
(* that opted out, and no body after previews were turned off.                          *)
NothingWithdrawnIsShown ==
  /\ \A a \in Range(waiting) \cup onScreen \cup Range(clicks) :
       a.login = active /\ a.conv \notin barred
  /\ ~device => waiting = <<>> /\ onScreen = {}
  /\ ~preview => \A a \in Range(waiting) \cup onScreen : ~a.body

(* A message is presented at most once, over replays, reconnections and sessions.       *)
OncePerMessage == \A i, j \in DOMAIN shown : i # j => shown[i] # shown[j]

(* Events can be judged only by a projection at least as new as they are: a healthy     *)
(* projection shows the catalog as some position not before the last event handled,     *)
(* except after a bootstrap older than that was used as it came.                        *)
ProjectionIsCurrent ==
  active # 0 =>
    /\ knownHealthy /\ ~seededOld => \A c \in Convs : \E n \in watermark..Len(events) :
                                        c \in known <=> c \in Joined(n)
    /\ membersHealthy => \A p \in (memberPos + 1)..watermark : events[p].type # "member"
    /\ ~knownHealthy => convRepair.on \/ gaveUp.convs
    /\ ~membersHealthy => memberRepair.on \/ gaveUp.members

(* What the comment in appendProjectedConversation promises of an older catalog read.   *)
OlderReadsLose ==
  active # 0 /\ knownHealthy /\ ~convRepair.on =>
    \A c \in Convs : \E n \in watermark..Len(events) : c \in known <=> c \in Joined(n)
=============================================================================
