# Verification of hype-comms

TLA+ models of the parts of hype-comms in which ordering, failure and concurrency decide whether a
message arrives: once, in order, at the people who may see it. Every definition is translated from
the source; `PROJECT.json` maps each one to the lines it stands for, lists the hazards with the
properties that watch them, and names the theorems. Notation (label sets, empty records, bounds, next-state relations) and one-line
conditions inside a function that another definition names are not in the map.

## 1. The system

A Fastify server on Postgres serves workspaces of up to 25 people and their agents. An Electron
desktop app (a main process and a renderer), a command line and a Python adapter are its clients.

| Component | State it keeps | What makes it hard | What makes it correct |
|---|---|---|---|
| Workspace event log (`sync-events.ts`, `protocol-epoch.ts`, `workspace-retention.ts`) | head sequence, epoch and floor, `sync_events` | overlapping transactions, deletion by age and not by position, interrupted cutovers | commit order is sequence order; what is retained is an unbroken suffix |
| Messages, conversations, membership (`message-operations.ts`, `conversation-operations.ts`) | messages, reactions, read cursors, seats, roles | retries, removal and archiving during a send, lock order | a key commits once; nothing commits after access is gone; an owner remains; the log says what happened |
| Realtime hub (`hub.ts`) | one LISTEN connection, reconnect timer, subscribers | overlapping `#listen` runs, losses at each await, NOTIFY sent while nobody listens | believes only in a working listener, always restores one, leaves nobody behind |
| Realtime socket (`routes.ts`) | cursor, flush flags, queue of checks | awaits inside `flush`, checks beside it, silent peers | exact replay, no lost wake-up, revoked sockets close |
| Realtime client (`api-client/realtime.ts`) | scope, cursor, generation, ticket, timer, socket, recovery latch | late tickets, retired sockets, crashes before persistence, full budgets | one activity at a time, no gap, resumes only from what is durable |
| Desktop replica (`workspace-cache.ts`, `workspace-runtime.ts`, `workspace-projection.ts`) | encrypted IndexedDB tables, renderer state | encryption between reading and writing, three sources of one truth, resyncs | shows what the log says at its cursor; behaves as one atomic map |
| Desktop outbox (same files) | rows, renderer's list, flush worker, timer | every await, lost answers, events overtaking answers | nothing authored is lost, order is kept, one loop sends, every send ends |
| Identity and AuthKit (`modules/identity`) | users, links, sessions, credentials, invitations, enrollments | one-use tokens under concurrency, refresh races, webhooks out of order, serialization retries | one use per token; revocation reaches every session; capacity and the last owner hold |
| Bots and webhooks | webhook credentials | rotation during a post | only the current credential posts |
| Attachments, tasks | rows and a file store; a board with ranks and versions | two stores and a crash between them; concurrent moves and retries | a claimed file has its bytes; numbers, ranks and events agree |
| Server process (`main.ts`, `migrate.ts`, `shutdown.ts`) | pool, hub, jobs, migration ledger | two processes at once, signals and failures at each step | a migration takes effect once; what ends leaves nothing open; a close waits for a hub that still listens |
| Desktop main (`chat-session.ts`, `authkit-flow.ts`, `cache-crypto.ts`, `notification-*.ts`, `updater.ts`, `ai-channel-controller.ts`, windows) | credential, cache keys, identity, notifications, update, agent, window, preferences | late callbacks, superseded operations, failed writes, two processes | one identity's resources at a time; nothing shown of what was withdrawn; what was chosen holds |
| Hermes adapter (`adapter.py`) | cursor file, wakes, read targets | three tasks on one file, refused handovers, restarts | nothing below its position is forgotten |
| Activity hub, command line, HTTP client, schemas, scripts, rendering | leases; none | expiry | not modelled, see 7 |

The path of a message: the **outbox**'s worker sends it; the server commits it and its event in one
transaction (**delivery**, **log**); the commit's NOTIFY wakes the **hub**, which wakes every
**socket**; a socket pages the log to its **client**, whose renderer applies the event to the
**replica** and acknowledges what is durable. Each module takes its neighbours' promise, not their
detail: `RealtimeSocket` extends the abstract `EventLog`, `Replica` reads any log in `Histories`, and
`Outbox` keeps of the server what a sender sees.

## 2. Modules

Conventions: an action is what runs between two awaits (a run to completion of the event loop, or one
SQL statement with the locks it takes); a promise under way is state; names are the source's where TLA+
allows. Constants whose names begin with `Max` bound a run and nothing else. A definition whose
comment calls it a mutant is a deliberately wrong variant, used only to show that a property notices.

### The path of a message

- **`EventLog`** is what a reader may rely on: a head that grows, a trimmed prefix, an epoch and a floor.
  **`WorkspaceLog`** is the transactions behind it: `Allocate` is `nextWorkspaceSequence`, which takes the
  row lock and keeps it; `InsertEvent` stamps under the lock; `DeleteExpiredState` deletes by age;
  `RecordPlan` and `Establish` are the operator's cutover, re-runnable after an interruption. The clock may stand still.
- **`MessageDelivery`**: `work[r].at` is the statement a session executes next, `Wanted` the lock it takes,
  `Conflicts` PostgreSQL's row-lock table. `Begin` evaluates the first statement in its snapshot;
  `LockChannel`, `LockSender`, `LockPrincipal` and `LockCursor` re-check the row they waited for and that row only, as
  READ COMMITTED does. `FanOut` and `CheckReference` are the KEY SHARE locks of foreign keys. Writes are made at the
  commit, which no other session can tell apart. Members channels with humans and agents; direct messages,
  announcements, mentions and creating channels play no part.
- **`RealtimeHub`**: each call of `#listen` is a run with a phase per await; `ClientLoss` is pg's `error`/`end` in any
  phase. Of a subscriber one bit is kept: whether a commit passed it by, before or after the hub first
  listened. One workspace.
- **`RealtimeSocket`**: `flush` is one page record with its own authorization; `checks` is `revalidationTail`; a page is
  a snapshot of the log read at any moment between call and continuation.
- **`RealtimeClient`**: the generation counter, the ticket, the timer and the socket, each of which may settle after its
  generation is gone; two budgets; the recovery latch with its stop, reload and windowless paths; and the
  consumer, which applies at once and persists later, and may crash.
- **`Outbox`**: `rows` is the durable table and `view` the renderer's list. `FlushOutbox`, `Turn`, `Rerun` and `Release`
  are the synchronous stretches of `#flushOutbox`, so that every caller ends its own action with the
  flush it makes; a worker's pc is the await it stands at. `Loses` covers every lost answer; the request stays in
  `orphans` and may still arrive. One cache call is one step, and encryption inside `enqueue` and `replaceOutbox` is
  part of it.
- **`ReplicaProjection`** holds the rules that turn server facts into rows and the state a server holds after each event
  of a log. **`ReplicaStore`** is `MemoryWorkspaceCache`: one map, every operation one step. **`Replica`** is
  `PersistentWorkspaceCache` and the runtime work that writes it: a lane per writer reads, encrypts
  outside any transaction, and commits in a transaction that re-reads what it must not have lost. `Replica` decides
  the counters and the query metadata that `ReplicaStore` leaves out.

### The server beside it

- **`DeviceSessions`**: links burned before anything else is checked, refreshes that rotate the credential, a lineage
  that a replaced credential ends; every statement a step. **`AuthKitServer`**: transactions, handoffs and linked
  sessions of the provider, with webhooks late, twice and out of order, and reconciliation; the provider is
  external. **`Admission`**: invitations, activations by link and by provider, role changes and the owner command,
  as transactions with row locks, aborts and retries. **`AgentEnrollment`**: enrolling an agent against everything that
  ends its authority, with the audit chain.
- **`ChannelWebhooks`**: create, rotate, enable, disable, delete, the command line's rotation, and posts.
- **`Attachments`**: rows and bytes, which a rollback does not bring back; upload, completion, claim, retraction and
  the two cleanups. **`Tasks`**: create, update and move under the channel's row, with idempotency keys,
  versions, ranks and renumbering; visibility is decided by the snapshot before the lock wait.
- **`ServerProcess`**: two processes over one database that migrate, start, run hourly jobs, fail and drain. A close runs
  the hooks last in, first out: the intervals (`main.ts:174`), `pool.end()` (`main.ts:163`), the hub (`app.ts:263`). `hub` is whether
  the hub holds its LISTEN client, which it loses and takes again (`hub.ts:174`, `hub.ts:195`). Requests in flight and the HTTP server are left out.
- **`HermesAdapter`**: watch, recovery of ambient wakes and retry of read targets over one file; Hermes' sessions
  are external.

### The desktop's main process

- **`ChatSession`**: one credential in the jar, the record on disk, the cache's authorization and the renewal timer;
  mutations run one at a time, requests do not. **`CacheKeys`**: overlapping initialisations and resets of
  two members' keys. **`SessionLifecycle`**: the published identity and the resources behind it.
  **`AuthKitSignIn`**: the browser flow with its fence on disk.
- **`Notifications`**: policy, projection, repairs, queue and clicks. **`NotificationSettings`**: panel, permission prompt,
  queue of writes and delivery barrier. **`DevicePreferences`**: theme and patches. **`Updater`**: checks, downloads, stalls.
  **`MainWindow`**: recreation, late callbacks, the two-stage quit. **`AiChannel`**: one agent process under superseded
  operations.

### Instances and proofs

`MCWorkspace`, `MCLive`, `MCServer`, `MCDesktop` and `MCWorkers` each hold several components side by side: a behaviour
chooses one `part` in its initial state, the others rest, so that one run explores the sum of the
components' states and not their product. A property of such a run says of each part what must hold
when it is the one that runs. The other `MC…` modules instantiate one component. A module's theorems are in the
module named after it with `_proofs`, with three exceptions: `MessageDelivery_proofs` also holds those of `WorkspaceLog`, `Realtime_proofs` holds those of
`RealtimeHub` and `RealtimeSocket`, and `ServerIdentity_proofs` and `Server_proofs` hold those of `MCServer`, which leaves its constants open and is a specification of its own.

## 3. Runs

| Run | Checks | Shows |
|---|---|---|
| `workspace_log` | `LogHolds`, `CommitsAboveHead`, `ImplementsEventLog`; `SentInOrder`, `FailedStays`; `HermesKeeps`, `HermesInOrder`; `ContentHolds`, `ContentKept` | the event table under two writers, retention and two cutovers; the order in which two messages reach the server; the adapter; files and a task board |
| `delivery` | `KeyStaysFree`, `LogIsTrue`, `CommitsWhileAllowed`, `KeepsAnOwner` | two sessions and every operation: what was read before a lock wait still holds at the commit |
| `realtime_socket` | `SocketHolds`, `WithheldAfterRevocation` | pages with hidden events, expiry, a cutover and revocation |
| `realtime_client` | `TransportHolds`, `ResumesDurably`, `NoGap`, `ReopensPastOverflow` | reconnects, overflow, crashes, windowless intervals |
| `outbox` | `OutboxHolds`, `NothingLost` | two messages, a removal, a crash, edits, a refresh and a sync pass that publish late |
| `live` | `HubHolds`, `AllEnds` | the hub's safety; what must end by itself in outbox, socket, hub and a signalled process |
| `server` | `SignInsAreSingle`, `RevocationsReach`, `AdmissionHolds`, `PostsAreCurrent`, `ProcessesClose`, `EndsStayEnded` | identity, AuthKit, admission, enrollment, webhooks and processes, with what their close waits for |
| `desktop_state` | `CachesFollowMembers`, `NotificationsAreCurrent`, `ChoicesHold`, `NothingIsTakenBack`; `ReplicaIsExact`, `ImplementsStore` | session, keys, notifications, settings, preferences; the replica over six logs |
| `desktop_workers` | `SessionsNeverOverlap`, `AgentsHold`, `OneAtATime`, `NothingGoesBack`, `Settles` | lifecycle, sign-in, AI channel, updater, window, the adapter's read targets |
| `outbox_event_first` | `Drains`, violated | finding 1 |
| `outbox_stale_reload` | `AuthoredOrder`, violated | finding 2 |
| `delivery_deadlock` | `NoDeadlock`, violated | finding 3 |

**Bounds.** *Log*: five sequences hold two bursts, a legacy prefix and a rolled-back allocation; four
clock ticks with an age of one let rows expire while others stay. *Delivery*: every property relates two
transactions, so two sessions; five calls are a message, what makes it count or not, and a read, or two
owners who remove each other around a revocation. *Hub*: a second run can only overlap one other, and a second
loss strikes the repair of the first. *Socket*: a page limit of one makes every replay several pages;
three events leave one before, one during and one after a page. *Client*: two scopes, two sockets, four
generations let an old one return late and a renderer prepare again after an overflow; budgets of one overflow
with the second event. *Outbox*: order or a strand needs two messages; a loss, a crash, a removal and its
reversal are one each, because each leads back to a state in which nothing of it but rows, view and an orphan
remains. *Replica*: six logs hold every kind of event, each pair that can disturb one another (a
reaction and its removal, a loss of membership and its return, a retraction of the last message), and any two of a
catch-up, a page, a catalog, an answer, a crash, a resync and a redelivery. *Identity*: two requests race for one link, one
handoff, the last seat or the last owner's role; a third credential lets a replaced one return after a refresh;
one abort and one retry reach both ends of the retry loops. *Webhooks*: three credentials are a current one, its successor and a rotation
under way. *Process*: an old and a new release, one corrected migration and two faults (a failed start, a lost LISTEN client, a kill or a restart); a bind fails at any start. *Tasks*: a board whose
last rank is the limit, so that a move must renumber; a page of two. *Desktop*: two members and
a third credential, two calls for a key, two conversations, two patches of different fields.
*Workers*: three lifecycle operations and two conversations of an agent supersede one another twice; two
windows, one reload. Symmetry is used for sockets' epochs and for sessions, in runs without liveness.

**Deadlock** checking is off where a run may end: its bounds are spent and nobody needs to act. What must not
stop is a property instead (`AllEnds`, `Settles`, and inside the invariants that a running transport always waits for something
and a serving hub always owes itself an attempt).

**Fairness** is weak throughout and stated of steps that a timer, an event loop or a database takes by itself.
*Outbox*: IndexedDB settles, a request is answered or fails, timers fire, events are served, a recovery that
began completes; nothing of the person. *Socket*: reads settle, continuations run, the heartbeat fires;
nothing of the peer. *Hub*: the timer fires, Postgres answers (a loss is an answer), a NOTIFY on a live
connection arrives. *Process*: a step of the start or of a close that can be taken is taken, and an armed deadline fires; no LISTEN client is lost on cue, so a
close without a deadline is not assumed to end. *Lifecycle*: cleanups and refreshes settle, as both have
time limits. *Sign-in*: the flow's and the drain's awaits settle while the process lives. *AI channel*:
every call to an agent has a time limit. *Updater*: the source settles a check or the stall timer fires.
*Window*: a load finishes or fails, and the teardown has a deadline. *Adapter*: each of its three tasks goes on, and Hermes answers a handover. The
rest is checked for safety only: what would happen next is up to a caller.

## 4. Findings

1. **Outbox**, `workspace-runtime.ts:4838`: a pushed event deletes the row before it updates the screen; a worker
   refused by the cache in between returns, and another queued message, even of another conversation, is left without
   worker or timer.
2. **Outbox**, `workspace-runtime.ts:5189`: a reload publishes outbox rows it read before decrypting; a message written
   meanwhile leaves the screen and is overtaken by the next.
3. **Delivery**, `identity/service.ts:420`: `disableAgent` takes the agent's membership row FOR UPDATE and waits for the
   workspace row, while a send to one of the agent's channels holds the workspace row and waits for KEY SHARE on the
   membership row. `requireActivePrincipal` (`authorization.ts:170`) takes the caller's row the same way. PostgreSQL
   aborts one of them and nothing retries it.

Met while modelling, stated as a definition or a hazard, but with no run of their own:

- `pool.end()` waits for every client taken from the pool, and its hook runs before the hub's, the only one that gives a live LISTEN client
  back (`main.ts:163`, `app.ts:263`, `hub.ts:62`). So a shutdown of a listening server ends by its deadline, with code 1 (`shutdown.ts:30`), and
  a server whose port could not be bound (`main.ts:288`: handlers off, no deadline) waits until it is killed, unless the connection to the
  database is lost meanwhile. `ClosesOnlyAfterLoss` says so and is proved. It is no finding, because no document, comment or test of the repository says otherwise.
- A catalog refresh begun by a channel edit stops the outbox's worker and swallows its retry timer
  (`workspace-runtime.ts:2540`); `discardMessage` (`:2287`) does not flush; `replaceFailedMessage` (`:1273`) checks before it encrypts, a step
  the model does not split. `Drains` and `AuthoredOrder` hold in the runs that leave these situations out, and only there.
- A reaction is authorized by seats read before its lock wait (`message-operations.ts:1526`), so a member removed meanwhile
  still reacts, to an audience without them; a task's author is decided the same way.
- The hub wakes its subscribers only when an *earlier* LISTEN was adopted (`hub.ts:147`): an outage of the first one is
  caught up by the next event only.
- Replica: a mutation's answer applied beside a catch-up counts a message twice (against `docs/architecture.md:410-411`), and a catalog
  ahead of its rows misses one (`workspace-projection.ts:159-161`). `inexact` records when, and `CountedOnce` is stated where neither happened.
- `NoPredecessorCache` of `ChatSession` (`chat-session.ts:484-486`) fails while an answer waits to be read; `MemoryKeyIsStored` of `CacheKeys`
  (`cache-crypto.ts:342-345`) fails when two calls of one scope overlap; `OlderReadsLose` of `Notifications` and `LaterIntentOwns` of
  `NotificationSettings` (`notification-settings-controller.ts:128-129`) say what comments promise and the code does not quite do; `Unwatched` of `Updater` is the refused download
  that no stall timer watches (`updater.ts:188-189`). The runs check each property with that exception named.
- A cleanup that is cut off after deleting bytes leaves a claimable row without them (`cut` in `Attachments`); webhook rotation by
  the command line (`bots/service.ts:571-590`) misses a credential committed while it waits, which `docs/bot-tasks.md:43` does not say.

## 5. Proofs

All theorems hold for every value of the constants under the modules' named assumptions, which say what a
constant is (a natural number, a value outside a set, a function of the right shape) and never how large. None of the
invariants below is inductive as it stands; each module states the strengthening and what it means.

**Event log** (the last part of `MessageDelivery_proofs`): types, `RetainedSuffix`, `StampsFollowSequence`, `FloorInHistory`, `CommitsAboveHead`, and the refinement of
`EventLog`. The invariant says what the lock means: only its holder has uncommitted work, and its rows are exactly the
sequences above the head. So a commit extends a suffix by a suffix, and deletion by age removes a prefix because stamps follow sequences.

**Delivery** (`MessageDelivery_proofs`): `LockDiscipline`, then `KeyStaysFreeHolds` and `CommitsWhileAllowedHolds`. Three layers: `Exclusion`
(no two sessions hold conflicting locks), what a session holds at each stage, and that what it found under
its locks still holds, because another session could change it only with a lock that `Exclusion` denies it.

**The log tells the truth** (`MessageDelivery_proofs`): `SessionsInformed` extends this to every operation: what a
session has read *and decided* is still so at every later stage, since the row that numbers the events excludes everyone else from there on.
From it `KeepsAnOwnerHolds`, an action property: owners who remove one another at the same time leave one. And
`LogIsTrueHolds`: a commit appends one event whose audience, target and count are those of the tables at
that point, so `HistoryInv`, which says that the log's own history and the tables tell the same, is kept; the lemmas count messages by
bijections between them and the log's `message.created` events.

**Realtime client** (`RealtimeClient_proofs`): `TransportHoldsAlways`, `ResumesDurablyHolds`, `NoGapHolds` and the action
property `ReopensPastOverflowHolds`. The invariant says what a running transport waits for (exactly one of ticket, timer and socket of the current
generation), that each cursor is at most what was persisted, that held and delivered events are contiguous with it, and
what a latched recovery forbids.

**Realtime socket** (`Realtime_proofs`): `SocketHoldsAlways` and `WithheldHolds`. Two arguments: the commits a page misses leave
a wake-up on its way or a round asked for; and a page of an agent has one check of its own in the queue, whose verdict is as
fresh as the page.

**Realtime hub** (`Realtime_proofs`): `HubInductive`, `HubHoldsAlways`. Every connection out of the pool has one owner
(the hub, `close`, or one run); a serving hub without a listener owes the attempt to its own timer or run; while `start` was called
once, a single attempt is under way, which decides what a commit may be behind.

**Outbox** (`Outbox_proofs`): `OutboxInductive`, `OutboxHoldsAlways` (one loop sends, and there is always a free worker for the loop that starts),
`NothingLostHolds`, and the action property `NeverRetriedAlone`. Lemmas about the pure stretches of `#flushOutbox` say that from a sound loop they
make a sound loop, whatever outbox they are shown; `OneOwner` gives each stale loop the membership change that retired it; `Kept` says where the last
edit of each message is.

**Replica** (`Replica_proofs`): `ReplicaInductive` and the refinement `ReplicaImplementsStore`: the encrypted cache implements the atomic one for
every log of the server, through crashes, overlaps, failures and resyncs. Rows hidden by a reservation are compared as
`load()` returns them. The invariant: nothing of the future is stored, tombstones are reserved, markers and
lanes agree, whoever applies an event holds the first one the replica has not passed, and pages in flight are pages the server had. Then each commit is
shown to be one operation of the store, field by field; everything else is a stutter. The proof changed the model in two places:
the store accepts any page the server may replay, and not only pages of the current position, because nothing in the cache checks that; and three
definitions with overlapping cases, whose meaning TLA+ leaves open, now say what the code does first.

**Server** (`ServerIdentity_proofs`, `Server_proofs`): `ServerInductive`, and from it every property of the run `server`: `SignInsAreSingleHolds`,
`RevocationsReachHolds`, `AdmissionHoldsAlways`, `PostsAreCurrentHolds`, `ProcessesCloseHolds` and the action property
`EndsStayEndedHolds`. One invariant per part, each saying what a request, a transaction or a process may rely on at the statement it has
reached:
- `DevicesInv`: no credential is in two places (`CredentialsApart`); whoever burned a link is the only one who may make its
  session (`LinksBurned`, `RequestsOK`); what a refresh concludes from looking back is what the row it saw says, so a lost race ends no lineage.
- `AuthKitInv`: the transaction and the handoff a handler holds are used up in its name; the provider session's advisory lock orders an
  exchange against the webhook (`HandlersApart`), so a revocation is either read by the exchange or reaches its session; the reconciliation
  revokes only what was in its snapshot and is gone at the provider.
- `AdmissionInv`: no two transactions hold the same row (`Transactions`), and what one read is so while it holds the row: the invitation it
  activates, its member's standing, the username it inserted, the workspace. Every commit holds the workspace row, so the count of members and of owners
  it decides by is the one it changes: hence the capacity and the last owner. Counting is by lemmas on the cardinality of a roster with one member more or less.
- `EnrollmentInv`: which of the enrollment's, the workspace's, the requester's and the channel's rows a transaction holds at each stage;
  what it checked under them holds at the commit; each enrollment's trail is a chain that ends in its status.
- `HookInv`: a post at its commit shares the row of the current, live credential, and nobody at its commit is about to revoke a row that
  someone shares; whoever changes the webhook holds conversation and webhook, and has found the current credential if there is one.
- `ProcessInv`: what a process holds (pool, LISTEN client, timers, jobs, the migration lock) in each phase and stage of its close; that a
  process up to the end of its pool has a LISTEN client as long as nothing was lost (`ListenerOK`); and that the ledger's names are unique and
  only the lock's holder writes them.

`MCServer` runs one part in a behaviour, so a step is a step of the chosen part or a stutter of it (`ServerMoves`) and the
invariants of the parts make one (`ServerInv`). What is assumed of the constants is named there, one assumption per part: bounds are natural
numbers; owners and guests are finite sets with at least one owner, at most as many owners as the capacity holds, and neither the agent
nor the absent value among them; the enrolling team has room for one agent; a workspace has a webhook seat and a process may start;
at most one job is single-flight (the code has one such guard); a migration is recorded under one checksum. The numbers of requests, members,
invitations, credentials, processes, files and jobs are free. The proof changed the model in one place: binding a subject to
a member in `Admission` now respects both unique indexes of the identity table (`MayBind`), where the model asked for
one of them only.

**Workers** (`Workers_proofs`): `WorkersInductive`, and from it every safety property of the run `desktop_workers`:
`SessionsNeverOverlapHolds`, `AgentsHoldAlways`, `OneAtATimeHolds` and the action property `NothingGoesBackHolds`, by parts like the server's.
- `LifecycleInv`: transitions settle in their order, and the last one builds the wanted identity; only the session a pending transition waits
  for, or the current one, is open; work of the newest refresh belongs to the current session.
- `SignInv`: which operation of each kind is queued, running or still awaited by its caller, what each has read of the record on disk, and what the fence
  forbids until a cancellation has cleared it. An attempt taken under the intent in force was neither given up nor superseded (`FreshShape`), and one on its
  way to the exchange has left memory and disk; whoever gives up makes a newer intent, which the drain sees before it exchanges.
- `AiInv`: who holds the agent (`HolderShape`: of the operations that work under the held token only the newest may), what the latest operation owes the screen
  (`LatestShape`), whose writes of the preference are queued, and which conversation the transcript is of.
- `UpdaterInv`: a download belongs to the running check or to the tracked one, never both, and an offer lets no check begin.
- `WindowInv`: an open window is the main one; while no renderer is ready, none was under the current generation; whoever may leave has torn down.

Assumed: the bounds are natural numbers, there is at least one window and one conversation, and no folder is the absent value; users, logins and
folders are any sets. Two proofs changed the model: the absent intent of a sign-in is now outside everything a crash or a
start can reach (`NoIntent`), and the generation of the agent's view is typed by its least value, not by a bound the run never met.

**Only model-checked.**
- All liveness (`AllEnds`, `Settles`): fairness and `ENABLED` are out of the prover's reach.
- `ReplicaIsExact`: that counters and rows are what the log says. The theorems need of the recursive definitions (`ServerAt`, `Replay`) only bounds and
  types, which are proved by taking a least counterexample (`WFMin`), as the induction theorems of the library take an operator and no installed prover can
  instantiate one. Exactness needs a joint induction over what four writers have applied of the log; it and the types of the replica's bookkeeping stay with TLC.
- `SentInOrder`: authored order is not a theorem of `Outbox`, since it is false when reloads exist (finding 2); it holds without them on the run's instance. `FailedStays`, checked beside it,
  is `NeverRetriedAlone` there.
- `HermesKeeps` and `HermesInOrder`, whose state is filtered sequences (`SelectSeq`).
- `ContentHolds`, `ContentKept` (attachments and tasks), `CachesFollowMembers`, `NotificationsAreCurrent`, `ChoicesHold` and `NothingIsTakenBack` (the rest of
  the desktop's main process): not proved. Nothing but work stands between them and a proof by parts like the two above; the
  renumbering of a task board is a recursive function and would stay with TLC.

## 6. What each theorem rests on

The log's, the delivery's and the server's theorems assume what their modules name of PostgreSQL: row locks held to the end of a transaction, READ COMMITTED's
re-check of the awaited row, atomic commits. The workers' assume that what the main process does between two awaits is one step. The client's and the socket's assume the abstract log, which the log's theorem establishes. The
outbox's and the replica's assume that an IndexedDB transaction is atomic and that an action runs to completion between awaits. Nothing is assumed about timing.

## 7. Not modelled, and the plan

Not modelled: creating and joining channels and direct messages (their lock orders would be the next module beside
`MessageDelivery`); `sync-operations.ts` and the system channel's seeder; the activity hub, whose leases are bounded and never persisted; the
command line's watch; the HTTP client, schemas, rendering, formatting and scripts, which keep no state these questions depend on. Inside modelled
components, what is left out is in each component's note in `PROJECT.json`.

Plan, in order: the replica's exactness as far as it needs no induction over a log; `Attachments` (a claim is kept); the rest of the desktop's main
process by parts, `ChatSession` and `Notifications` first; then `replaceFailedMessage` split at its await.
