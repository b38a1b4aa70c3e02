----------------------------- MODULE ReplicaStore -----------------------------
(* What a workspace cache promises: one map of rows that every operation reads  *)
(* and writes in a single step. This is MemoryWorkspaceCache                    *)
(* (workspace-cache.ts), whose methods run without an await between reading and *)
(* writing; the encrypted IndexedDB cache of module Replica implements it. Of a *)
(* conversation's summary only its presence is kept here, and the query         *)
(* metadata of collections is left out: Replica decides both.                   *)
EXTENDS ReplicaProjection, Integers

VARIABLES
  history,  \* the event log of the workspace; positions are its indices
  store     \* the cache

NoCursor == -1

\* An empty cache, and one bootstrapped from a catalog at the log's start.
EmptyStore ==
  [cursor |-> NoCursor, marker |-> 0, shown |-> FALSE, rows |-> EmptyRows,
   anchor |-> [m \in Message |-> 0], reacts |-> {}, task |-> 0, reserved |-> {},
   known |-> {}, queued |-> "none"]
Bootstrapped(h) ==
  [EmptyStore EXCEPT
    !.cursor = 0,
    !.shown = SummaryAt(h, 0) # None,
    !.queued = IF \E n \in 1..Len(h) : h[n].kind = "created" /\ h[n].mine
               THEN "pending" ELSE "none"]

\* Everything of the conversation goes; its queued send stays, marked failed.
Purged(s) ==
  [s EXCEPT !.shown = FALSE, !.rows = EmptyRows, !.anchor = [m \in Message |-> 0],
            !.reacts = {}, !.task = 0,
            !.queued = IF @ = "none" THEN @ ELSE "failed"]

---------------------------------------------------------------------------
\* The methods, as functions of the cache.

\* The message rows after an event. A retract writes a tombstone for a message
\* that is cached, as a row or as the preview of its conversation.
RowsAfter(s, e, sourced) ==
  CASE e.kind = "created" ->
         [s.rows EXCEPT ![e.message] =
            Preferred(@, Reserved(e.message, "live", s.reserved))]
    [] e.kind = "retracted" /\ (s.rows[e.message] # "none" \/ (s.shown /\ sourced)) ->
         [s.rows EXCEPT ![e.message] = "dead"]
    [] OTHER -> s.rows

ReactionsAfter(s, e, n) ==
  CASE e.kind = "retracted" -> {r \in s.reacts : r.message # e.message}
    [] e.kind = "reacted" /\ n > s.anchor[e.message] ->
         s.reacts \cup {[id |-> n, message |-> e.message]}
    [] e.kind = "unreacted" /\ n > s.anchor[e.message] -> {r \in s.reacts : r.id # e.by}
    [] OTHER -> s.reacts

TaskAfter(s, e, n) ==
  LET version == ServerAt[history][n].task
  IN IF e.kind = "task" /\ AcceptsTask(s.task, version) THEN version ELSE s.task

\* applyEvent of an event that does not change the user's own membership.
Apply(s, n, sourced) ==
  LET e == history[n]
  IN [s EXCEPT
       !.cursor = n, !.known = @ \cup {n}, !.rows = RowsAfter(s, e, sourced),
       !.shown = @ \/ e.kind = "opened",
       !.reacts = ReactionsAfter(s, e, n),
       !.task = TaskAfter(s, e, n),
       !.reserved = IF e.kind = "retracted" THEN @ \cup {e.message} ELSE @,
       !.queued = IF e.kind = "created" /\ e.mine THEN "none" ELSE @]

CanApply(s, n) == s.marker = 0 /\ s.cursor < n /\ n \notin s.known

\* stageMembershipRepair and #finishStagedMembershipEvent.
StageRepair(s, n) == [s EXCEPT !.marker = n]
FinishRepair(s) ==
  LET purged == IF history[s.marker].kind = "left" THEN Purged(s) ELSE s
  IN [purged EXCEPT !.known = @ \cup {s.marker},
                    !.cursor = IF s.marker > @ THEN s.marker ELSE @]

\* The three modes of #writeMetadata, with a catalog read at position p.
StagePage(s, p) ==
  [s EXCEPT !.shown = @ \/ SummaryAt(history, p) # None]
ReplaceCatalog(s, p) ==
  IF SummaryAt(history, p) = None THEN Purged(s) ELSE StagePage(s, p)
Install(s, p) == [ReplaceCatalog(s, p) EXCEPT !.cursor = p, !.marker = 0]

\* canWriteMetadata.
CanWrite(s, p, mode) ==
  /\ s.marker = 0 \/ (mode = "bootstrap" /\ p >= s.marker)
  /\ IF mode = "refresh" THEN s.cursor = p ELSE s.cursor <= p

\* upsertConversation of a mutation response.
UpsertConversation(s) == [s EXCEPT !.shown = TRUE]

\* upsertAcknowledgedMessage of the send that committed as event k.
CanAcknowledge(s) == s.marker = 0 /\ s.queued # "none" /\ s.shown
Acknowledge(s, k, cursor) ==
  LET m == history[k].message
  IN [s EXCEPT
       !.rows[m] = Preferred(@, Reserved(m, "live", s.reserved)),
       !.queued = "none",
       !.cursor = IF cursor > @ THEN cursor ELSE @]

\* upsertHistory of a page read at position p; "reacted" says that it carries
\* the reactions of its messages too.
PutHistory(s, page, p, reacted) ==
  LET reserved == ReserveTombstones(s.reserved, page.rows)
      rows == [m \in Message |->
                IF page.rows[m] = "none" THEN s.rows[m]
                ELSE Preferred(s.rows[m], Reserved(m, page.rows[m], reserved))]
      paged(r) == page.rows[r.message] # "none"
      alive(r) == rows[r.message] = "live"
  IN [s EXCEPT
       !.rows = rows, !.reserved = reserved,
       !.reacts = IF reacted
                  THEN {r \in @ : ~paged(r)} \cup {r \in page.reacts : paged(r) /\ alive(r)}
                  ELSE {r \in @ : paged(r) => alive(r)},
       !.anchor = [m \in Message |->
                    IF reacted /\ page.rows[m] # "none" THEN p ELSE @[m]]]
CanPutHistory(s, page, p, reacted) ==
  /\ s.marker = 0 /\ s.shown
  /\ reacted => \A m \in Message : page.rows[m] # "none" => s.anchor[m] <= p

\* upsertReaction, removeReaction, upsertTasks and advanceCursor.
PutReaction(s, k) == [s EXCEPT !.reacts = @ \cup {[id |-> k, message |-> history[k].message]}]
DropReaction(s, id) == [s EXCEPT !.reacts = {r \in @ : r.id # id}]
PutTask(s, version) == [s EXCEPT !.task = IF AcceptsTask(@, version) THEN version ELSE @]
Advance(s, c) == [s EXCEPT !.cursor = IF c > @ THEN c ELSE @]

\* clearServerStatePreservingOutbox keeps the outbox and the reservations.
Clear(s) == [EmptyStore EXCEPT !.reserved = s.reserved, !.queued = s.queued]

---------------------------------------------------------------------------
Init == history \in Histories /\ store = Bootstrapped(history)

\* What the runtime stores as history: a page of some position that some of the
\* events have moved on, or the one message of an answered retract.
PagesOf ==
  [h \in Histories |->
    {Replay(PageAt(h, p), h, events) : p \in 0..Len(h), events \in SUBSET (1..Len(h))}
    \cup {Tombstone(m) : m \in Message}]

Next ==
  LET n0 == Len(history)
  IN /\ UNCHANGED history /\ store' # store
     /\ \/ \E n \in 1..n0, sourced \in BOOLEAN :
             CanApply(store, n) /\ store' = Apply(store, n, sourced)
        \/ store.marker = 0 /\ store' = UpsertConversation(store)
        \/ \E n \in 1..n0 : CanApply(store, n) /\ store' = StageRepair(store, n)
        \/ store.marker > 0 /\ store' = FinishRepair(store)
        \/ \E p \in 0..n0 :
             \/ CanWrite(store, p, "page") /\ store' = StagePage(store, p)
             \/ CanWrite(store, p, "refresh") /\ store' = ReplaceCatalog(store, p)
             \/ CanWrite(store, p, "bootstrap") /\ store' = Install(store, p)
             \/ store.marker = 0 /\ store' = Advance(store, p)
        \/ \E k \in 1..n0, c \in 0..n0 :
             CanAcknowledge(store) /\ store' = Acknowledge(store, k, c)
        \/ \E k \in 1..n0 : store.shown /\ store.marker = 0 /\ store' = PutReaction(store, k)
        \/ \E id \in 1..n0 : store' = DropReaction(store, id)
        \/ \E v \in 0..n0 : store.shown /\ store.marker = 0 /\ store' = PutTask(store, v)
        \/ \E page \in PagesOf[history], p \in 0..n0, reacted \in BOOLEAN :
             /\ CanPutHistory(store, page, p, reacted)
             /\ store' = PutHistory(store, page, p, reacted)
        \/ store.marker = 0 /\ store' = Clear(store)

storeVars == <<history, store>>
Spec == Init /\ [][Next]_storeVars

=============================================================================
