------------------------------- MODULE Outbox -------------------------------
(***************************************************************************)
(* The desktop's outbox: the sends a person has written and the server has *)
(* not yet confirmed.  Every item exists twice, as a row of the encrypted  *)
(* replica (workspace-cache.ts), which survives a crash, and as an entry   *)
(* of the renderer's state (workspace-runtime.ts), which is what is shown  *)
(* and what the flush worker walks.  One worker per projection sends the   *)
(* head of each conversation; membership changes, catalog refreshes, sync  *)
(* passes, pushed events and the person act between any two of its steps.  *)
(* The server (message-operations.ts) commits a key once and only for a    *)
(* member of the conversation.  The encrypted replica's other tables, the  *)
(* cursor's other uses and the recoveries' own retries are abstracted.     *)
(***************************************************************************)
EXTENDS Naturals, Sequences, FiniteSets

CONSTANTS
  Conversation,
  MaxAuthored,       \* bound: messages written
  ConversationOf,    \* the conversation each of them is written in
  MaxReplacements,   \* bound: edits of one failed message
  MaxDiscards,       \* bound: discards of failed messages
  MaxLosses,         \* bound: requests or answers the network loses
  MaxRefusals,       \* bound: answers 4xx (401 and 426 included)
  MaxAccessChanges,  \* bound: removals and restorations of the membership
  MaxRestarts,       \* bound: crashes of the renderer
  MaxCatalogs,       \* bound: catalog refreshes
  MaxSyncs,          \* bound: sync passes
  Realtime           \* whether the socket delivers events

ASSUME OutboxAssumption ==
  /\ MaxAuthored \in Nat \ {0}
  /\ ConversationOf \in [1..MaxAuthored -> Conversation]
  /\ {MaxReplacements, MaxDiscards, MaxLosses, MaxRefusals, MaxAccessChanges,
      MaxRestarts, MaxCatalogs, MaxSyncs} \subseteq Nat
  /\ Realtime \in BOOLEAN

\* A message and its edits: the authored position, and a new id per edit.
Keys == (1..MaxAuthored) \X (0..MaxReplacements)
NoKey == <<0, 0>>
Conv(k) == ConversationOf[k[1]]
Before(j, k) == j[1] < k[1] \/ (j[1] = k[1] /\ j[2] < k[2])

\* Each projection has one worker; rotations are bounded, and so are they.
Workers == 1..(MaxAccessChanges + 1)
NoWorker == 0

VARIABLES
  log,         \* what the server committed, in order: messages and accesses
  access,      \* the conversations this person may write to
  orphans,     \* requests the client gave up on and the server may still see
  rows,        \* durable outbox rows
  cursor,      \* durable position in the log
  view,        \* outbox of the renderer's state
  shown,       \* conversations of the renderer's catalog
  heard,       \* events the socket has handed to the renderer
  publishing,  \* the message whose event is durable and not yet published
  gates,       \* recoveries that hold the flush back
  flush,       \* the flush owner, whether a rerun is requested, the timer
  workers,     \* the flush loops, those of retired projections included
  waiting,     \* retries whose nextAttemptAt lies in the future
  reload,      \* a cache read that a refresh or sync pass will publish
  authored,    \* messages written so far
  settled,     \* keys the person discarded or edited away
  used         \* how much of each bound is spent

server == <<log, access, orphans>>
durable == <<rows, cursor>>
screen == <<view, shown>>
person == <<authored, settled>>
vars == <<server, durable, screen, heard, publishing, gates, flush, workers,
          waiting, reload, person, used>>

Status == {"none", "pending", "sending", "retry_wait", "paused_auth",
           "permanent_failure"}
Gates == {"startup", "catalog", "membership", "protocol"}
Bounds == [discards |-> MaxDiscards, losses |-> MaxLosses,
           refusals |-> MaxRefusals, accesses |-> MaxAccessChanges,
           restarts |-> MaxRestarts, catalogs |-> MaxCatalogs,
           syncs |-> MaxSyncs]
Spend(b) == /\ used[b] < Bounds[b]
            /\ used' = [used EXCEPT ![b] = @ + 1]

-----------------------------------------------------------------------------
\* Outbox items.  Only a retry_wait item has a nextAttemptAt.

Item(s, n) == [status |-> s, attempt |-> n]
Absent == Item("none", 0)
Pending == Item("pending", 0)
Held(q) == {k \in Keys : q[k].status # "none"}
Without(q, S) == [k \in Keys |-> IF k \in S THEN Absent ELSE q[k]]
First(S) == CHOOSE k \in S : \A j \in S : j = k \/ Before(k, j)

Blocking(q, k) == \/ q[k].status \in {"permanent_failure", "paused_auth"}
                  \/ q[k].status = "retry_wait" /\ k \in waiting
Earlier(q, k) == {j \in Held(q) : Conv(j) = Conv(k) /\ Before(j, k)}

\* A mutant of Deliverable: a failed head does not hold up its conversation.
DeliverablePastFailures(q) == {k \in Held(q) : ~Blocking(q, k)}

\* nextDeliverable: the first of these, when there is one.
Deliverable(q) == {k \in Held(q) : /\ ~Blocking(q, k)
                                   /\ \A j \in Earlier(q, k) : ~Blocking(q, j)}
firstItemsByConversation(q) == {k \in Held(q) : Earlier(q, k) = {}}

\* cache.load projects an interrupted send as pending.
Loaded(q) == [k \in Keys |-> IF q[k].status = "sending"
                               THEN [q[k] EXCEPT !.status = "pending"]
                               ELSE q[k]]

\* ACCESS_REMOVED_OUTBOX_UPDATE on the rows of conversations outside S.
Revoked(q, S) ==
  [k \in Keys |-> IF k \in Held(q) /\ Conv(k) \notin S
                    THEN Item("permanent_failure", q[k].attempt)
                    ELSE q[k]]

\* matchesOutboxExpectation
Matches(row, status, attempt) ==
  /\ row.status = status \/ (row.status = "sending" /\ status = "pending")
  /\ row.attempt = attempt

Messages == {i \in DOMAIN log : log[i].kind = "message"}
CommittedKeys == {log[i].key : i \in Messages}
MessageEvent(k) == [kind |-> "message", key |-> k]
AccessEvent(c, on) == [kind |-> "access", conversation |-> c, on |-> on]
Memberships(i, j) == {n \in DOMAIN log : i < n /\ n <= j /\ log[n].kind = "access"}

-----------------------------------------------------------------------------
(***************************************************************************)
(* #flushOutbox.  What its synchronous stretches read is a context: the    *)
(* shown outbox, the gates and the shown conversations.  What they write   *)
(* is the loop: the flush fields and the workers.                          *)
(***************************************************************************)

Idle == [pc |-> "idle", key |-> NoKey, attempt |-> 0, status |-> "none",
         live |-> FALSE, done |-> FALSE, result |-> "none"]
Unowned == [owner |-> NoWorker, requested |-> FALSE, timer |-> {}]
Context == [view |-> view, gates |-> gates, shown |-> shown]
Loop == [flush |-> flush, workers |-> workers]
Becomes(loop) == flush' = loop.flush /\ workers' = loop.workers

\* #isOutboxFlushOwnerCurrent; live: the projection's signal is not aborted.
Current(w, c, loop) ==
  /\ c.gates \cap {"startup", "catalog", "membership"} = {}
  /\ loop.flush.owner = w
  /\ loop.workers[w].live
CurrentFor(w, k, c, loop) == Current(w, c, loop) /\ Conv(k) \in c.shown

\* A mutant of ScheduleNextRetry: the timer is not armed again.
NeverReschedule(c, loop) == loop

\* #scheduleNextRetry: the timer is due when the first of these is.
ScheduleNextRetry(c, loop) ==
  LET heads == {k \in firstItemsByConversation(c.view) :
                  c.view[k].status = "retry_wait"}
  IN  IF "protocol" \in c.gates \/ heads = {} THEN loop
      ELSE [loop EXCEPT !.flush.timer = heads]

\* The finally block without its rerun.
Release(w, loop) ==
  [loop EXCEPT !.workers[w] = Idle,
               !.flush.owner = IF @ = w THEN NoWorker ELSE @,
               !.flush.requested = @ /\ loop.flush.owner # w]

\* One turn of the loop, up to the claim's await or to the end.
Turn(w, c, loop) ==
  LET k == First(Deliverable(c.view))
  IN  IF "protocol" \in c.gates \/ ~Current(w, c, loop) THEN Release(w, loop)
      ELSE IF Deliverable(c.view) = {}
        THEN Release(w, ScheduleNextRetry(c, loop))
      ELSE IF ~CurrentFor(w, k, c, loop) THEN Release(w, loop)
      ELSE [loop EXCEPT !.workers[w] =
              [Idle EXCEPT !.pc = "claim", !.key = k, !.live = TRUE,
                           !.status = c.view[k].status,
                           !.attempt = c.view[k].attempt + 1]]

\* A mutant of FlushOutbox: a running worker is not looked for.
FlushBeside(c, loop) ==
  LET w == CHOOSE i \in Workers : loop.workers[i] = Idle
  IN  IF c.gates # {} \/ (\A i \in Workers : loop.workers[i] # Idle) THEN loop
      ELSE Turn(w, c, [loop EXCEPT !.flush = [Unowned EXCEPT !.owner = w],
                                   !.workers[w].live = TRUE])

FlushOutbox(c, loop) ==
  LET owner == loop.flush.owner
      w == CHOOSE i \in Workers : loop.workers[i] = Idle
  IN  IF c.gates # {} THEN loop
      ELSE IF owner # NoWorker /\ (owner # NoWorker => loop.workers[owner].live)
        THEN [loop EXCEPT !.flush.requested = TRUE]
      ELSE Turn(w, c, [loop EXCEPT !.flush = [Unowned EXCEPT !.owner = w],
                                   !.workers[w].live = TRUE])

\* The finally block's rerun, once `after` has released w.
Rerun(w, c, before, after) ==
  IF /\ before.flush.owner = w /\ before.flush.requested
     /\ after.workers[w] = Idle /\ "membership" \notin c.gates
    THEN FlushOutbox(c, after)
    ELSE after
Finish(w, c, loop) == Rerun(w, c, loop, Release(w, loop))
Again(w, c, loop) == Rerun(w, c, loop, Turn(w, c, loop))

\* #rotateProjectionBarrier, with #clearRetryTimer and the abandoned refresh.
Rotated == [flush |-> [flush EXCEPT !.timer = {}],
            workers |-> [w \in Workers |-> [workers[w] EXCEPT !.live = FALSE]]]

-----------------------------------------------------------------------------
Init ==
  /\ log = <<>> /\ access = Conversation /\ orphans = {}
  /\ rows = [k \in Keys |-> Absent] /\ cursor = 0
  /\ view = rows /\ shown = Conversation
  /\ heard = 0 /\ publishing = NoKey
  /\ gates = {} /\ waiting = {}
  /\ flush = Unowned /\ workers = [w \in Workers |-> Idle]
  /\ reload = [kind |-> "none"]
  /\ authored = 0 /\ settled = {}
  /\ used = [b \in DOMAIN Bounds |-> 0]

-----------------------------------------------------------------------------
\* The person.

sendMessage ==
  LET k == <<authored + 1, 0>>
  IN  /\ authored < MaxAuthored
      /\ Conv(k) \in shown /\ "membership" \notin gates
      /\ authored' = authored + 1
      /\ rows' = [rows EXCEPT ![k] = Pending]
      /\ view' = [view EXCEPT ![k] = Pending]
      /\ UNCHANGED <<server, cursor, shown, heard, publishing, gates, waiting, reload, settled, used>>
      /\ Becomes(FlushOutbox(Context', Loop))

\* The row of a failed message offers edit, retry and discard.
Offered(k) == view[k].status = "permanent_failure" /\ Conv(k) \in shown

retryMessage(k) ==
  /\ Offered(k)
  /\ IF Matches(rows[k], view[k].status, view[k].attempt)
       THEN /\ rows' = [rows EXCEPT ![k] = Pending]
            /\ view' = [view EXCEPT ![k] = Pending]
       ELSE UNCHANGED <<rows, view>>
  /\ UNCHANGED <<server, cursor, shown, heard, publishing, gates, waiting, reload, person, used>>
  /\ Becomes(FlushOutbox(Context', Loop))

replaceFailedMessage(k) ==
  LET n == <<k[1], k[2] + 1>>
      swap(q) == [Without(q, {k}) EXCEPT ![n] = Pending]
  IN  /\ Offered(k) /\ "membership" \notin gates
      /\ n \in Keys /\ k \in Held(rows) /\ n \notin Held(rows) \cup settled
      /\ rows' = swap(rows) /\ view' = swap(view)
      /\ settled' = settled \cup {k}
      /\ UNCHANGED <<server, cursor, shown, heard, publishing, gates, waiting, reload, authored, used>>
      /\ Becomes(FlushOutbox(Context', Loop))

discardMessage(k) ==
  /\ Offered(k) /\ Spend("discards")
  /\ rows' = Without(rows, {k}) /\ view' = Without(view, {k})
  /\ settled' = settled \cup {k}
  /\ UNCHANGED <<server, cursor, shown, heard, publishing, gates, flush, workers, waiting, reload, authored>>

Person == \/ sendMessage
          \/ \E k \in Keys : \/ retryMessage(k)
                             \/ replaceFailedMessage(k)
                             \/ discardMessage(k)

-----------------------------------------------------------------------------
\* The server, and the network between it and a worker's request.

Commit(k) == log' = IF k \in CommittedKeys THEN log ELSE Append(log, MessageEvent(k))

Reply(w, r) == workers' = [workers EXCEPT ![w].pc = "replied", ![w].result = r]

Handles(w) ==
  LET k == workers[w].key
  IN  /\ workers[w].pc = "send"
      /\ \/ /\ Conv(k) \in access /\ Commit(k) /\ Reply(w, "accepted")
            /\ UNCHANGED used
         \/ /\ Conv(k) \notin access /\ Reply(w, "permanent")
            /\ UNCHANGED <<log, used>>
         \/ /\ k \notin CommittedKeys /\ Spend("refusals")
            /\ \E r \in {"permanent", "authentication_required", "upgrade_required"} : Reply(w, r)
            /\ UNCHANGED log
      /\ UNCHANGED <<access, orphans, durable, screen, heard, publishing, gates, flush, waiting, reload, person>>

\* 5xx, 429, a timeout or a lost connection: before or after the commit.
Loses(w) ==
  /\ workers[w].pc \in {"send", "replied"} /\ workers[w].result # "retryable"
  /\ Spend("losses")
  /\ Reply(w, "retryable")
  /\ orphans' = orphans \cup (IF workers[w].pc = "send" THEN {workers[w].key} ELSE {})
  /\ UNCHANGED <<log, access, durable, screen, heard, publishing, gates, flush, waiting, reload, person>>

OrphanArrives(k) ==
  /\ k \in orphans
  /\ orphans' = orphans \ {k}
  /\ IF Conv(k) \in access THEN Commit(k) ELSE UNCHANGED log
  /\ UNCHANGED <<access, durable, screen, heard, publishing, gates, flush, workers, waiting, reload, person, used>>

ChangesAccess(c) ==
  LET on == c \notin access
  IN  /\ Spend("accesses")
      /\ access' = IF on THEN access \cup {c} ELSE access \ {c}
      /\ log' = Append(log, AccessEvent(c, on))
      /\ UNCHANGED <<orphans, durable, screen, heard, publishing, gates, flush, workers, waiting, reload, person>>

Server == \/ \E w \in Workers : Handles(w) \/ Loses(w)
          \/ \E k \in Keys : OrphanArrives(k)
          \/ \E c \in Conversation : ChangesAccess(c)

-----------------------------------------------------------------------------
\* The flush worker, from one await to the next.

At(w, pc) == workers[w].pc = pc
Goes(w, pc) == workers' = [workers EXCEPT ![w].pc = pc]

\* A cache transaction of the worker: aborted with its projection, refused
\* when the row is not the one the worker decided on.
CacheWrites(w) ==
  LET k == workers[w].key
      n == workers[w].attempt
      allowed == /\ workers[w].live
                 /\ \/ At(w, "claim") /\ Matches(rows[k], workers[w].status, n - 1)
                    \/ At(w, "accept") /\ k \in Held(rows) /\ Conv(k) \in shown
                    \/ At(w, "patch") /\ Matches(rows[k], "sending", n)
      written == IF At(w, "claim") THEN Item("sending", n)
                 ELSE IF At(w, "accept") THEN Absent
                 ELSE Item(workers[w].status, n)
  IN  /\ workers[w].pc \in {"claim", "accept", "patch"} /\ ~workers[w].done
      /\ rows' = IF allowed THEN [rows EXCEPT ![k] = written] ELSE rows
      /\ waiting' = IF allowed /\ written.status = "retry_wait" THEN waiting \cup {k} ELSE waiting
      /\ workers' = [workers EXCEPT ![w].done = TRUE,
                                    ![w].result = IF allowed THEN "written" ELSE "refused"]
      /\ UNCHANGED <<server, cursor, screen, heard, publishing, gates, flush, reload, person, used>>

Written(w) == workers[w].done /\ workers[w].result = "written"
Publish(k, item) == view' = IF k \in Held(view) THEN [view EXCEPT ![k] = item] ELSE view

\* What is left alone by a continuation of the worker.
Elsewhere == UNCHANGED <<server, durable, shown, heard, publishing, waiting, reload, person, used>>

ClaimContinues(w) ==
  LET k == workers[w].key
  IN  /\ At(w, "claim") /\ workers[w].done
      /\ UNCHANGED gates /\ Elsewhere
      /\ \/ /\ Written(w) /\ CurrentFor(w, k, Context, Loop)
            /\ Publish(k, Item("sending", workers[w].attempt))
            /\ workers' = [workers EXCEPT ![w].pc = "send", ![w].done = FALSE, ![w].result = "none"]
            /\ UNCHANGED flush
         \/ /\ ~(Written(w) /\ CurrentFor(w, k, Context, Loop))
            /\ UNCHANGED view
            /\ Becomes(Finish(w, Context, Loop))

\* The answer of sendConversationMessage reaches the renderer.
Settled == [permanent |-> "permanent_failure", retryable |-> "retry_wait",
            authentication_required |-> "paused_auth", upgrade_required |-> "pending"]
AnswerArrives(w) ==
  LET k == workers[w].key
      r == workers[w].result
  IN  /\ At(w, "replied")
      /\ gates' = IF CurrentFor(w, k, Context, Loop) /\ k \in Held(view) /\ r = "upgrade_required"
                    THEN gates \cup {"protocol"} ELSE gates
      /\ \/ /\ ~CurrentFor(w, k, Context, Loop)
            /\ Becomes(Finish(w, Context, Loop))
         \/ /\ CurrentFor(w, k, Context, Loop) /\ k \notin Held(view)
            /\ Becomes(Again(w, Context, Loop))
         \/ /\ CurrentFor(w, k, Context, Loop) /\ k \in Held(view)
            /\ workers' = [workers EXCEPT ![w].pc = IF r = "accepted" THEN "accept" ELSE "patch",
                                          ![w].status = IF r = "accepted" THEN "none" ELSE Settled[r],
                                          ![w].result = "none"]
            /\ flush' = IF r = "upgrade_required" THEN [flush EXCEPT !.timer = {}] ELSE flush
      /\ UNCHANGED view /\ Elsewhere

\* After upsertAcknowledgedMessage: an event may have settled the row first.
AcceptContinues(w) ==
  LET k == workers[w].key
  IN  /\ At(w, "accept") /\ workers[w].done
      /\ UNCHANGED gates /\ Elsewhere
      /\ \/ /\ ~CurrentFor(w, k, Context, Loop) \/ (~Written(w) /\ k \in Held(view))
            /\ UNCHANGED view
            /\ Becomes(Finish(w, Context, Loop))
         \/ /\ CurrentFor(w, k, Context, Loop) /\ ~Written(w) /\ k \notin Held(view)
            /\ UNCHANGED view
            /\ Becomes(Again(w, Context, Loop))
         \/ /\ CurrentFor(w, k, Context, Loop) /\ Written(w)
            /\ view' = Without(view, {k})
            /\ Becomes(Again(w, Context', Loop))

PatchContinues(w) ==
  LET k == workers[w].key
      s == workers[w].status
  IN  /\ At(w, "patch") /\ workers[w].done
      /\ UNCHANGED gates /\ Elsewhere
      /\ IF Written(w) /\ CurrentFor(w, k, Context, Loop)
           THEN /\ Publish(k, Item(s, workers[w].attempt))
                /\ Becomes(CASE s = "permanent_failure" -> Again(w, Context', Loop)
                             [] s = "retry_wait" -> Finish(w, Context', ScheduleNextRetry(Context', Loop))
                             [] OTHER -> Finish(w, Context', Loop))
           ELSE UNCHANGED view /\ Becomes(Finish(w, Context, Loop))

Worker(w) == \/ CacheWrites(w) \/ ClaimContinues(w) \/ AnswerArrives(w)
             \/ AcceptContinues(w) \/ PatchContinues(w)

-----------------------------------------------------------------------------
\* Time: the moment a nextAttemptAt passes, and the retry timer.

Elapses(k) ==
  /\ k \in waiting /\ waiting' = waiting \ {k}
  /\ UNCHANGED <<server, durable, screen, heard, publishing, gates, flush, workers, reload, person, used>>

TimerFires ==
  /\ \E k \in flush.timer : k \notin waiting
  /\ UNCHANGED <<server, durable, screen, heard, publishing, gates, waiting, reload, person, used>>
  /\ Becomes(FlushOutbox(Context, [Loop EXCEPT !.flush.timer = {}]))

-----------------------------------------------------------------------------
\* Events the socket pushes.

NoReload == [kind |-> "none"]

\* The listener: a change of the membership retires the projection at once.
Hears ==
  LET e == log[heard + 1]
      gone == e.kind = "access" /\ ~e.on
      hidden == {k \in Keys : gone /\ Conv(k) = e.conversation}
  IN  /\ Realtime /\ "startup" \notin gates /\ heard < Len(log)
      /\ heard' = heard + 1
      /\ IF e.kind = "message"
           THEN UNCHANGED <<screen, publishing, gates, flush, workers, reload>>
           ELSE /\ view' = Without(view, hidden)
                /\ shown' = IF gone THEN shown \ {e.conversation} ELSE shown
                /\ publishing' = NoKey
                /\ gates' = (gates \ {"catalog"}) \cup {"membership"}
                /\ reload' = NoReload
                /\ Becomes(Rotated)
      /\ UNCHANGED <<server, durable, person, used, waiting>>

\* #applyWorkspaceEvent: durable first, acknowledged, and only then published.
EventCommits ==
  LET e == log[cursor + 1]
  IN  /\ cursor < heard /\ publishing = NoKey /\ "membership" \notin gates
      /\ e.kind = "message"
      /\ rows' = Without(rows, {e.key}) /\ cursor' = cursor + 1
      /\ publishing' = e.key
      /\ UNCHANGED <<server, screen, heard, gates, flush, workers, waiting, reload, person, used>>

\* A mutant of EventPublishes: the delivered message stays on the screen.
EventForgotten ==
  /\ publishing # NoKey /\ publishing' = NoKey
  /\ UNCHANGED <<server, durable, screen, heard, gates, flush, workers, waiting, reload, person, used>>

EventPublishes ==
  /\ publishing # NoKey
  /\ view' = Without(view, {publishing})
  /\ publishing' = NoKey
  /\ UNCHANGED <<server, durable, shown, heard, gates, flush, workers, waiting, reload, person, used>>

\* #repairMembershipEvent: the durable purge ...
RepairBegins ==
  LET pending == Memberships(cursor, heard)
      n == CHOOSE i \in pending : \A j \in pending : i <= j
      e == log[n]
      left == IF e.on THEN Conversation ELSE Conversation \ {e.conversation}
  IN  /\ "membership" \in gates /\ pending # {}
      /\ rows' = Revoked(rows, left) /\ cursor' = n
      /\ view' = Loaded(rows') /\ shown' = shown \cap left
      /\ UNCHANGED <<server, heard, publishing, gates, flush, workers, waiting, reload, person, used>>

\* ... and the authoritative snapshot, from which the socket resumes.
\* A mutant of Snapshot: what a removal failed is sent again once access is back.
SnapshotRearms ==
  LET back(k) == rows[k].status = "permanent_failure" /\ Conv(k) \in access \ shown
  IN  /\ rows' = [k \in Keys |-> IF back(k) THEN Pending ELSE Revoked(rows, access)[k]]
      /\ cursor' = Len(log) /\ view' = Loaded(rows') /\ shown' = access

Snapshot == /\ rows' = Revoked(rows, access) /\ cursor' = Len(log)
            /\ view' = Loaded(rows') /\ shown' = access

\* A mutant of RepairEnds: the socket resumes one event too far.
RepairEndsBeyond ==
  /\ "membership" \in gates /\ Memberships(cursor, heard) = {}
  /\ Snapshot /\ heard' = cursor' + 1
  /\ gates' = gates \ {"membership"}
  /\ UNCHANGED <<server, publishing, waiting, reload, person, used>>
  /\ Becomes(FlushOutbox(Context', Loop))

RepairEnds ==
  /\ "membership" \in gates /\ Memberships(cursor, heard) = {}
  /\ Snapshot /\ heard' = cursor'
  /\ gates' = gates \ {"membership"}
  /\ UNCHANGED <<server, publishing, waiting, reload, person, used>>
  /\ Becomes(FlushOutbox(Context', Loop))

Events == Hears \/ EventCommits \/ EventPublishes \/ RepairBegins \/ RepairEnds

-----------------------------------------------------------------------------
\* Catalog refreshes and sync passes read the replica and publish what they
\* read; the renderer goes on between the two.

CatalogBegins ==
  /\ gates \cap {"startup", "catalog", "membership"} = {} /\ reload = NoReload
  /\ Spend("catalogs")
  /\ gates' = gates \cup {"catalog"}
  /\ reload' = [kind |-> "catalog", read |-> FALSE]
  /\ UNCHANGED <<server, durable, screen, heard, publishing, flush, workers, person, waiting>>

\* A mutant of CatalogReads: the outbox is replaced with the other stores.
CatalogReplaces ==
  /\ reload.kind = "catalog" /\ ~reload.read
  /\ rows' = [k \in Keys |-> Absent] /\ cursor' = Len(log)
  /\ reload' = [kind |-> "catalog", read |-> TRUE, items |-> Loaded(rows'), shown |-> access]
  /\ UNCHANGED <<server, screen, heard, publishing, gates, flush, workers, person, used, waiting>>

CatalogReads ==
  /\ reload.kind = "catalog" /\ ~reload.read
  /\ rows' = Revoked(rows, access) /\ cursor' = Len(log)
  /\ reload' = [kind |-> "catalog", read |-> TRUE, items |-> Loaded(rows'), shown |-> access]
  /\ UNCHANGED <<server, screen, heard, publishing, gates, flush, workers, person, used, waiting>>

\* The catalog's failure is shown, and no longer holds sends back.
CatalogFails ==
  /\ reload.kind = "catalog" /\ ~reload.read
  /\ reload' = NoReload /\ gates' = gates \ {"catalog"}
  /\ UNCHANGED <<server, durable, screen, heard, publishing, flush, workers, person, used, waiting>>

SyncReads ==
  LET seen == {log[i].key : i \in {n \in Messages : n > cursor}}
  IN  /\ gates \cap {"startup", "membership"} = {} /\ reload = NoReload
      /\ Memberships(cursor, Len(log)) = {}
      /\ Spend("syncs")
      /\ rows' = Without(rows, seen) /\ cursor' = Len(log)
      /\ reload' = [kind |-> "sync", read |-> TRUE, items |-> Loaded(rows'), shown |-> shown]
      /\ UNCHANGED <<server, screen, heard, publishing, gates, flush, workers, person, waiting>>

ReloadPublishes ==
  /\ reload.kind # "none" /\ reload.read
  /\ view' = reload.items /\ shown' = reload.shown
  /\ reload' = NoReload
  /\ IF reload.kind = "catalog"
       THEN gates' = gates \ {"catalog"} /\ UNCHANGED <<flush, workers>>
       ELSE UNCHANGED gates /\ Becomes(FlushOutbox(Context', Loop))
  /\ UNCHANGED <<server, durable, heard, publishing, person, used, waiting>>

Crashes ==
  /\ Spend("restarts")
  /\ orphans' = orphans \cup {workers[w].key : w \in {i \in Workers : At(i, "send")}}
  /\ view' = Loaded(rows)
  /\ gates' = {"startup"}
  /\ heard' = cursor /\ publishing' = NoKey /\ reload' = NoReload
  /\ flush' = Unowned /\ workers' = [w \in Workers |-> Idle]
  /\ UNCHANGED <<log, access, durable, shown, person, waiting>>

StartupCompletes ==
  /\ "startup" \in gates
  /\ Snapshot /\ heard' = cursor'
  /\ gates' = gates \ {"startup"}
  /\ UNCHANGED <<server, publishing, waiting, reload, person, used>>
  /\ Becomes(FlushOutbox(Context', Loop))

Recoveries == \/ CatalogBegins \/ CatalogReads \/ CatalogFails
              \/ SyncReads \/ ReloadPublishes
              \/ Crashes \/ StartupCompletes

-----------------------------------------------------------------------------
Next == \/ Person \/ Server \/ Events \/ Recoveries \/ TimerFires
        \/ \E w \in Workers : Worker(w)
        \/ \E k \in Keys : Elapses(k)

Spec == Init /\ [][Next]_vars

\* The network answers or fails, IndexedDB settles, timers fire, the socket's
\* queue is served and a recovery that began completes.  Nothing is assumed of
\* the person, of crashes, of losses or of changes of the membership.
Answered(w) == Handles(w) \/ Loses(w)
Fairness ==
  /\ \A w \in Workers : WF_vars(Worker(w)) /\ WF_vars(Answered(w))
  /\ \A k \in Keys : WF_vars(Elapses(k))
  /\ WF_vars(TimerFires) /\ WF_vars(Events)
  /\ WF_vars(CatalogReads \/ CatalogFails) /\ WF_vars(ReloadPublishes)
  /\ WF_vars(StartupCompletes)

FairSpec == Spec /\ Fairness

-----------------------------------------------------------------------------
Items == [status : Status, attempt : Nat]

\* The outbox, the loop, the gates and the positions keep their types.
TypeOK ==
  /\ rows \in [Keys -> Items] /\ view \in [Keys -> Items]
  /\ waiting \subseteq Keys
  /\ access \subseteq Conversation /\ shown \subseteq Conversation
  /\ cursor \in 0..Len(log) /\ heard \in 0..Len(log)
  /\ orphans \subseteq Keys /\ settled \subseteq Keys
  /\ publishing \in Keys \cup {NoKey}
  /\ gates \subseteq Gates
  /\ flush \in [owner : Workers \cup {NoWorker}, requested : BOOLEAN,
                timer : SUBSET Keys]
  /\ \A w \in Workers : workers[w] # Idle => workers[w].key \in Keys
  /\ authored \in 0..MaxAuthored

\* What a person wrote is in the durable outbox until the server has it or the
\* person discarded or edited it away: no crash, lost answer, late answer of a
\* retired projection, removal from the conversation or pushed event drops it.
NothingLost ==
  \A i \in 1..authored : \E n \in 0..MaxReplacements :
    LET k == <<i, n>>
    IN  \/ k \in Held(rows) \cup CommittedKeys
        \/ k \in settled /\ <<i, n + 1>> \notin Held(rows) \cup CommittedKeys \cup settled

\* The server receives the messages of a conversation in the order in which
\* they were written, whatever was lost, retried or restarted on the way; a
\* message the person gave up may be overtaken.
AuthoredOrder ==
  \A i, j \in Messages :
    LET a == log[i].key
        b == log[j].key
    IN  i < j /\ Conv(a) = Conv(b) /\ b[1] < a[1] => b \in settled

\* Two loops of the same projection never send: a live worker owns the flush.
OneLiveLoop == \A w \in Workers : workers[w].live => flush.owner = w

\* The outbox of one profile is worked by one loop and shown by one view, together.
OutboxHolds == TypeOK /\ OneLiveLoop

\* A message marked as failed is only ever sent again because the person asked:
\* its row changes to a fresh pending row or goes, and restored access, a
\* restart, a late answer or a retry timer leave it as it is.
FailedStaysFailed ==
  \A k \in Keys :
    rows[k].status = "permanent_failure" =>
      rows'[k].status \in {"permanent_failure", "none"} \/ Person
NoAutomaticRetry == [][FailedStaysFailed]_vars

\* With nothing under way the person sees exactly what is durable.
AtRest == /\ gates = {} /\ publishing = NoKey /\ reload = NoReload
          /\ \A w \in Workers : workers[w] = Idle
ShownIsKept == AtRest => view = Loaded(rows)

\* A message behind no failed one and awaiting delivery is delivered or
\* refused, unless the session or the protocol ended: network failures,
\* restarts and changes of the membership leave no send without a worker, a
\* timer or a recovery that will start one.
Undelivered(k) ==
  /\ rows[k].status \in {"pending", "sending", "retry_wait"}
  /\ \A j \in Keys : rows[j].status # "paused_auth"
  /\ \A j \in Earlier(rows, k) : rows[j].status # "permanent_failure"
  /\ "protocol" \notin gates
Drains == \A k \in Keys : []<>~Undelivered(k)
=============================================================================
