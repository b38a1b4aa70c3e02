--------------------------- MODULE ReplicaProjection ---------------------------
(* The deterministic rules by which the desktop turns server facts into cached  *)
(* rows (workspace-projection.ts, workspace-collections.ts) and the history of  *)
(* one conversation the server may write. Nothing here has state: both caches   *)
(* and the runtime are built from these operators.                             *)
EXTENDS Naturals, Sequences, FiniteSets, FiniteSetsExt

CONSTANTS
  Histories,  \* the workspace event logs a run explores
  None        \* no conversation row, no operation in flight

\* Messages of the conversation, by conversation sequence.
Message == 1..2

\* Workspace events that concern the conversation. "by" names the reaction an
\* event adds or removes by the position of its reaction.added event.
Event == [kind : {"opened", "created", "retracted", "reacted", "unreacted", "task",
                  "read", "left", "returned", "member"},
          message : 0..2, mine : BOOLEAN, by : Nat]
OfMessage == {"created", "retracted", "reacted", "unreacted"}

\* The summary row of a conversation.
Summary == [last : 0..2, dead : BOOLEAN, unread : Nat, read : 0..2, people : BOOLEAN]

\* A log is not empty, an event about a message names one, and a reaction is
\* removed after it was added.
HistoriesAssumption ==
  \A h \in Histories :
    /\ h \in Seq(Event) /\ h # <<>>
    /\ \A n \in 1..Len(h) :
         /\ h[n].kind \in OfMessage => h[n].message \in Message
         /\ h[n].kind = "unreacted" => h[n].by \in 1..(n - 1)
NoneAssumption == None \notin Summary
ASSUME ReplicaAssumption == HistoriesAssumption /\ NoneAssumption

---------------------------------------------------------------------------
\* What the server holds after the first n events of a history.

EmptyRows == [m \in Message |-> "none"]

\* A conversation's rows and counters when the history starts.
Opening(h) ==
  [member |-> h[1].kind # "opened", rows |-> EmptyRows, reacts |-> {}, task |-> 0,
   people |-> FALSE, last |-> 0, dead |-> FALSE, unread |-> 0, read |-> 0,
   others |-> {}]

NewestLiveOf(rows) == Max({0} \cup {m \in Message : rows[m] = "live"})
UnreadOf(s, rows) == Cardinality({m \in s.others : rows[m] = "live" /\ m > s.read})

AfterEvent(s, e, n) ==
  LET rows == CASE e.kind = "created"   -> [s.rows EXCEPT ![e.message] = "live"]
                [] e.kind = "retracted" -> [s.rows EXCEPT ![e.message] = "dead"]
                [] OTHER -> s.rows
      moved == [s EXCEPT
        !.rows = rows,
        !.member = (@ \/ e.kind \in {"opened", "returned"}) /\ e.kind # "left",
        !.people = @ \/ e.kind = "member",
        !.task = IF e.kind = "task" THEN @ + 1 ELSE @,
        !.read = IF e.kind = "read" THEN e.message ELSE @,
        !.others = IF e.kind = "created" /\ ~e.mine THEN @ \cup {e.message} ELSE @,
        !.reacts = CASE e.kind = "reacted"   -> @ \cup {[id |-> n, message |-> e.message]}
                     [] e.kind = "unreacted" -> {r \in @ : r.id # e.by}
                     [] e.kind = "retracted" -> {r \in @ : r.message # e.message}
                     [] OTHER -> @]
  IN [moved EXCEPT !.last = NewestLiveOf(rows), !.unread = UnreadOf(moved, rows)]

\* The server's state at every position of every history.
ServerAt ==
  [h \in Histories |->
    LET at[n \in 0..Len(h)] ==
          IF n = 0 THEN Opening(h) ELSE AfterEvent(at[n - 1], h[n], n)
    IN at]

\* An event reaches a member's device, and so does the end of the membership.
Delivered(h, n) == ServerAt[h][n].member \/ h[n].kind = "left"
SelfMembership(e) == e.kind \in {"left", "returned"}

\* The summary row of the conversation in a catalog read at position n.
SummaryAt(h, n) ==
  LET s == ServerAt[h][n]
  IN IF s.member THEN [last |-> s.last, dead |-> FALSE, unread |-> s.unread,
                       read |-> s.read, people |-> s.people]
     ELSE None

---------------------------------------------------------------------------
\* Message rows: "none", "live" or "dead" (a tombstone keeps its row).

\* preferRetainedMessage: a tombstone or a later version is never replaced.
Preferred(current, incoming) == IF current = "dead" THEN "dead" ELSE incoming
\* applyRetractReservation.
Reserved(m, state, reserved) == IF m \in reserved /\ state # "none" THEN "dead" ELSE state
\* reserveTombstonedMessages.
ReserveTombstones(reserved, rows) == reserved \cup {m \in Message : rows[m] = "dead"}
\* applyRetractReservationsToConversations: only the preview of the last message.
ReserveSummary(conv, reserved) ==
  IF conv = None \/ conv.last \notin reserved THEN conv ELSE [conv EXCEPT !.dead = TRUE]

\* projectCreatedMessageSummary.
ProjectCreated(conv, m, mine) ==
  [conv EXCEPT !.last = m, !.dead = FALSE, !.unread = IF mine THEN @ ELSE @ + 1]
\* projectReadCursorSummary: the event carries the server's own counters.
ProjectRead(conv, upTo, unread) == [conv EXCEPT !.read = upTo, !.unread = unread]
\* projectConversationSummary of a conversation's creation.
ProjectOpened(conv) ==
  IF conv = None
  THEN [last |-> 0, dead |-> FALSE, unread |-> 0, read |-> 0, people |-> FALSE]
  ELSE conv
\* projectConversationMembershipChange, for another member who is added.
ProjectMember(conv) == [conv EXCEPT !.people = TRUE]
\* reconcileRetractedConversationSummary, with the rows retained after the retract.
ProjectRetracted(conv, m, mine, rows) ==
  LET unread == ~mine /\ m > conv.read
      newest == NewestLiveOf(rows)
  IN [conv EXCEPT
       !.last = IF @ = m THEN newest ELSE @,
       !.dead = IF conv.last = m THEN FALSE ELSE @,
       !.unread = IF unread /\ @ > 0 THEN @ - 1 ELSE @]
\* mergeConversationProjection: a response never lowers what is already cached.
MergeSummary(incoming, conv) ==
  IF conv = None THEN incoming
  ELSE [incoming EXCEPT
         !.last = IF conv.last > 0 /\ conv.last >= @ THEN conv.last ELSE @,
         !.dead = conv.dead,
         !.unread = conv.unread,
         !.read = IF conv.read >= @ THEN conv.read ELSE @]
\* acceptsTaskVersion.
AcceptsTask(current, incoming) == incoming >= current

---------------------------------------------------------------------------
\* Query metadata: which collection was read at which position, and the last
\* event that made it out of date.

Collection == {"timeline", "tasks"}
Unloaded == [loaded |-> FALSE, at |-> 0, stale |-> 0]

\* collectionAffected.
Affected(c, e) ==
  \/ e.kind \in {"member", "left", "returned"}
  \/ IF c = "tasks" THEN e.kind = "task"
     ELSE e.kind \in {"created", "retracted", "reacted", "unreacted"}
\* invalidateCollections: the event's position outdates what it affects.
Invalidate(coll, e, n) ==
  [c \in Collection |-> IF Affected(c, e) THEN [coll[c] EXCEPT !.stale = n] ELSE coll[c]]
\* metadataCollections of a complete catalog read at p.
InvalidateOlder(coll, p) ==
  [c \in Collection |-> IF coll[c].loaded /\ coll[c].at >= p THEN coll[c]
                        ELSE [coll[c] EXCEPT !.stale = p]]
\* commitCollectionState: refused unless the applied position is the expected one.
CommitsAt(state, cursor, expected, p) == cursor = expected /\ (state.loaded => state.at <= p)
CommitCollection(state, p) ==
  [loaded |-> TRUE, at |-> p, stale |-> IF state.stale > p THEN state.stale ELSE 0]

\* Mutant: the page is stored as it was read.
ReplayNothing(page, h, events) == page

\* replayCollectionPage: the events the fetch's journal holds beyond its page.
ReplayEvent(q, h, k) ==
  LET e == h[k]
  IN CASE e.kind = "reacted" /\ q.rows[e.message] = "live" ->
            [q EXCEPT !.reacts = @ \cup {[id |-> k, message |-> e.message]}]
       [] e.kind = "unreacted" -> [q EXCEPT !.reacts = {r \in @ : r.id # e.by}]
       [] e.kind = "retracted" ->
            [q EXCEPT !.rows = IF @[e.message] = "none" THEN @
                               ELSE [@ EXCEPT ![e.message] = "dead"],
                      !.reacts = {r \in @ : r.message # e.message}]
       [] e.kind = "task" ->
            [q EXCEPT !.task = IF @ > 0 /\ AcceptsTask(@, ServerAt[h][k].task)
                               THEN ServerAt[h][k].task ELSE @]
       [] OTHER -> q
Replay(page, h, events) ==
  LET step[k \in 0..Len(h)] ==
        IF k = 0 THEN page
        ELSE IF k \in events THEN ReplayEvent(step[k - 1], h, k) ELSE step[k - 1]
  IN step[Len(h)]

\* The collection page the server answers at position n.
PageAt(h, n) ==
  LET s == ServerAt[h][n]
  IN [rows |-> s.rows, reacts |-> s.reacts, task |-> s.task]

\* The answer of the user's own retract: one tombstone.
Tombstone(m) == [rows |-> [EmptyRows EXCEPT ![m] = "dead"], reacts |-> {}, task |-> 0]

=============================================================================
