-------------------------------- MODULE Replica --------------------------------
(* The desktop's encrypted replica of one conversation and the runtime work that *)
(* writes it (workspace-cache.ts PersistentWorkspaceCache, workspace-runtime.ts). *)
(* A cache method reads rows, encrypts what it will write outside any             *)
(* transaction, and commits in an IndexedDB transaction that re-reads what it     *)
(* must not have lost. Realtime events, a catch-up, a collection page, a catalog  *)
(* and a mutation's answer do this at the same time.                             *)
EXTENDS ReplicaProjection, Integers, Functions

CONSTANTS MaxLoads, MaxCatalogs, MaxAnswers, MaxCrashes, MaxResyncs, MaxRedeliveries,
          MaxTogether  \* how many of these one run combines

VARIABLES
  history,   \* the workspace's event log, chosen at the start
  head,      \* how much of it the server has committed
  db,        \* the IndexedDB stores
  applied,   \* the runtime's #syncCursor
  running,   \* the renderer is up
  lanes,     \* the two appliers of events: the realtime queue and a catch-up
  load,      \* the collection read in flight
  catalog,   \* the catalog read in flight
  answer,    \* the mutation response in flight
  inexact,   \* why the cached counters may differ from the server's
  spent      \* how often each bounded thing has happened

vars == <<history, head, db, applied, running, lanes, load, catalog, answer, inexact, spent>>

Lane == {"live", "sync"}
NoCursor == -1
\* What load() shows of the stores.
StoreOf(d) ==
  [cursor |-> d.cursor, marker |-> d.marker, shown |-> d.conv # None,
   rows |-> [m \in Message |-> Reserved(m, d.rows[m], d.reserved)],
   anchor |-> d.anchor, reacts |-> d.reacts, task |-> d.task, reserved |-> d.reserved,
   known |-> d.known, queued |-> d.queued]
Store == INSTANCE ReplicaStore WITH store <- StoreOf(db)

Idle == [on |-> FALSE, next |-> 1, target |-> 0, try |-> None]
AllIdle == [l \in Lane |-> Idle]
EmptyDb ==
  [cursor |-> NoCursor, marker |-> 0, conv |-> None, rows |-> EmptyRows,
   anchor |-> [m \in Message |-> 0], reacts |-> {}, task |-> 0, reserved |-> {},
   known |-> {}, queued |-> "none", coll |-> [c \in Collection |-> Unloaded]]
\* Signed in with a catalog read at the log's start; a send may be queued.
Bootstrapped(h) ==
  [EmptyDb EXCEPT
    !.cursor = 0,
    !.conv = SummaryAt(h, 0),
    !.queued = IF \E n \in 1..Len(h) : h[n].kind = "created" /\ h[n].mine
               THEN "pending" ELSE "none"]

Init ==
  /\ history \in Histories
  /\ head = 0
  /\ db = Bootstrapped(history)
  /\ applied = 0
  /\ running = TRUE
  /\ lanes = [AllIdle EXCEPT !["live"].on = TRUE]
  /\ load = None /\ catalog = None /\ answer = None
  /\ inexact = {}
  /\ spent = [b \in {"loads", "catalogs", "answers", "crashes", "resyncs", "redeliveries"} |-> 0]

Within(b, max) ==
  /\ spent[b] < max
  /\ FoldFunction(+, 0, spent) < MaxTogether
  /\ spent' = [spent EXCEPT ![b] = @ + 1]

\* The server commits the next event.
Publish ==
  /\ head < Len(history) /\ head' = head + 1
  /\ UNCHANGED <<history, db, applied, running, lanes, load, catalog, answer, inexact, spent>>

---------------------------------------------------------------------------
\* Applying events: read, encrypt, commit, publish.

\* Mutant: reads past what the server has committed.
UpcomingAll(l) == {n \in lanes[l].next..Len(history) : Delivered(history, n)}
Upcoming(l) ==
  {n \in lanes[l].next..(IF l = "sync" THEN lanes[l].target ELSE head) : Delivered(history, n)}
Turn(l) == lanes[l].on /\ lanes[l].try = None /\ Upcoming(l) # {}
NextEvent(l) == Min(Upcoming(l))

\* Mutant: only the event store rejects a duplicate, not the cursor.
ApplicableUnknown(n) == n \notin db.known
Applicable(n) == db.cursor < n /\ n \notin db.known
\* #serialize: an event of the realtime queue and a renderer projection exclude
\* each other; a catch-up runs outside that queue.
QueueIdle == lanes["live"].try = None
Writing == load # None /\ load.base # None

\* #applyEventAttempt reads what the event's rows are computed from.
ReadForEvent(l) ==
  /\ Turn(l) /\ (l = "live" => ~Writing)
  /\ LET n == NextEvent(l)
     IN /\ ~SelfMembership(history[n]) /\ db.marker = 0 /\ Applicable(n)
        /\ lanes' = [lanes EXCEPT ![l].try =
             [n |-> n, conv |-> db.conv, rows |-> db.rows, reserved |-> db.reserved,
              written |-> FALSE]]
  /\ UNCHANGED <<history, head, db, applied, running, load, catalog, answer, inexact, spent>>

\* A duplicate or an event behind the cursor is ignored; a repeated change of
\* the own membership still retires what is in flight.
IgnoreEvent(l) ==
  /\ Turn(l) /\ ~Applicable(NextEvent(l))
  /\ LET repair == SelfMembership(history[NextEvent(l)])
     IN /\ lanes' = [lanes EXCEPT ![l].next = NextEvent(l) + 1]
        /\ load' = IF repair THEN None ELSE load
        /\ catalog' = IF repair THEN None ELSE catalog
        /\ answer' = IF repair THEN None ELSE answer
  /\ UNCHANGED <<history, head, db, applied, running, inexact, spent>>

\* What the event writes, computed from the rows read before the encryption.
SourceKnown(try, e) ==
  try.rows[e.message] # "none" \/ (try.conv # None /\ try.conv.last = e.message)

CreatedRow(try, e) == Preferred(try.rows[e.message], Reserved(e.message, "live", try.reserved))
CreatedWrite(try, e) ==
  LET row == CreatedRow(try, e)
  IN [db EXCEPT
       !.rows[e.message] = row,
       !.conv = IF try.conv = None \/ row = "dead" THEN @
                ELSE ProjectCreated(try.conv, e.message, e.mine),
       !.queued = IF e.mine THEN "none" ELSE @]

RetractedWrite(try, e) ==
  LET rows == [try.rows EXCEPT ![e.message] = "dead"]
  IN [db EXCEPT
       !.rows[e.message] = IF SourceKnown(try, e) THEN "dead" ELSE @,
       !.reacts = {r \in @ : r.message # e.message},
       !.reserved = @ \cup {e.message},
       !.conv = IF try.conv # None /\ SourceKnown(try, e)
                THEN ProjectRetracted(try.conv, e.message, e.mine, rows) ELSE @]

\* A page that already covers the message as of a later position wins.
ReactionWrite(e, n) ==
  IF n <= db.anchor[e.message] THEN db
  ELSE [db EXCEPT !.reacts = IF e.kind = "reacted" THEN @ \cup {[id |-> n, message |-> e.message]}
                             ELSE {r \in @ : r.id # e.by}]

\* Mutant: the event overwrites a version that a newer page brought.
TaskWriteBlind(n) == [db EXCEPT !.task = ServerAt[history][n].task]
TaskWrite(n) ==
  LET version == ServerAt[history][n].task
  IN [db EXCEPT !.task = IF AcceptsTask(@, version) THEN version ELSE @]

SummaryWrite(try, e, n) ==
  [db EXCEPT !.conv =
    CASE e.kind = "opened" -> ProjectOpened(try.conv)
      [] e.kind = "member" /\ try.conv # None -> ProjectMember(try.conv)
      [] e.kind = "read" /\ try.conv # None ->
           ProjectRead(try.conv, e.message, ServerAt[history][n].unread)
      [] OTHER -> @]

EventWrite(try) ==
  LET e == history[try.n]
  IN CASE e.kind = "created"   -> CreatedWrite(try, e)
       [] e.kind = "retracted" -> RetractedWrite(try, e)
       [] e.kind \in {"reacted", "unreacted"} -> ReactionWrite(e, try.n)
       [] e.kind = "task"      -> TaskWrite(try.n)
       [] OTHER                -> SummaryWrite(try, e, try.n)

\* The counters miss an event: a retract without a source, and the creation of a
\* message that a page already showed retracted.
Uncounted(try) ==
  LET e == history[try.n]
  IN CASE e.kind = "retracted" /\ ~SourceKnown(try, e) -> {"sourceless"}
       [] e.kind = "created" /\ CreatedRow(try, e) = "dead" -> {"early"}
       [] OTHER -> {}

\* A created or retracted event compares the reservations it encrypted against.
ReservationsMoved(try) ==
  history[try.n].kind \in {"created", "retracted"} /\ try.reserved # db.reserved

\* The commit: retry after a reservation change, give way to a commit at or past
\* the event, and otherwise write the rows, the event and the cursor together.
RecordEvent(d, n) ==
  [d EXCEPT !.cursor = n, !.known = @ \cup {n}, !.coll = Invalidate(@, history[n], n)]

CommitEvent(l) ==
  /\ lanes[l].try # None /\ ~lanes[l].try.written
  /\ LET try == lanes[l].try
     IN \/ /\ ReservationsMoved(try) \/ db.marker # 0
           /\ lanes' = [lanes EXCEPT ![l].try = None]
           /\ UNCHANGED db
        \/ /\ ~ReservationsMoved(try) /\ db.marker = 0 /\ ~Applicable(try.n)
           /\ lanes' = [lanes EXCEPT ![l].try = None, ![l].next = try.n + 1]
           /\ UNCHANGED db
        \/ /\ ~ReservationsMoved(try) /\ db.marker = 0 /\ Applicable(try.n)
           /\ db' = RecordEvent(EventWrite(try), try.n)
           /\ lanes' = [lanes EXCEPT ![l].try.written = TRUE]
     /\ inexact' = IF db' = db THEN inexact ELSE inexact \cup Uncounted(try)
  /\ UNCHANGED <<history, head, applied, running, load, catalog, answer, spent>>

\* The runtime learns of the commit: journals record the event, the realtime lane
\* moves #syncCursor.
PublishCommitted(l) ==
  /\ lanes[l].try # None /\ lanes[l].try.written
  /\ LET try == lanes[l].try
     IN /\ lanes' = [lanes EXCEPT ![l].try = None, ![l].next = try.n + 1]
        /\ applied' = IF l = "live" THEN try.n ELSE applied
        /\ load' = IF load = None THEN None ELSE [load EXCEPT !.journal = @ \cup {try.n}]
  /\ UNCHANGED <<history, head, db, running, catalog, answer, inexact, spent>>

---------------------------------------------------------------------------
\* Catch-up (#repairAndFlush) and the realtime session.

BeginSync ==
  /\ running /\ ~lanes["sync"].on /\ db.marker = 0 /\ db.cursor # NoCursor
  /\ \/ catalog = None /\ ~lanes["live"].on
     \/ catalog # None /\ catalog.mode = "refresh" /\ applied < catalog.at
  /\ lanes' = [lanes EXCEPT !["sync"] =
       [on |-> TRUE, next |-> db.cursor + 1, target |-> head, try |-> None]]
  /\ UNCHANGED <<history, head, db, applied, running, load, catalog, answer, inexact, spent>>

\* The last page's cursor skips what this member does not see; realtime starts
\* from the durable cursor.
FinishSync ==
  /\ lanes["sync"].on /\ lanes["sync"].try = None /\ Upcoming("sync") = {}
  /\ LET target == lanes["sync"].target
         cursor == Max({target, db.cursor})
     IN /\ db' = [db EXCEPT !.cursor = cursor]
        /\ lanes' = [AllIdle EXCEPT !["live"] =
             IF lanes["live"].on THEN lanes["live"]
             ELSE [Idle EXCEPT !.on = TRUE, !.next = cursor + 1]]
        /\ applied' = IF lanes["live"].on THEN Max({target, applied}) ELSE cursor
  /\ UNCHANGED <<history, head, running, load, catalog, answer, inexact, spent>>

\* A socket that reconnects delivers again from its last acknowledgement.
Redeliver ==
  /\ lanes["live"].on /\ lanes["live"].try = None /\ lanes["live"].next > 1
  /\ Within("redeliveries", MaxRedeliveries)
  /\ \E n \in 1..(lanes["live"].next - 1) : lanes' = [lanes EXCEPT !["live"].next = n]
  /\ UNCHANGED <<history, head, db, applied, running, load, catalog, answer, inexact>>

\* A replaced sync position: the server's rows are dropped, the outbox and the
\* reservations stay, and a catalog must be read before anything is applied.
Resync ==
  /\ lanes["live"].on /\ QueueIdle /\ ~lanes["sync"].on /\ catalog = None /\ db.marker = 0
  /\ Within("resyncs", MaxResyncs)
  /\ db' = [EmptyDb EXCEPT !.reserved = db.reserved, !.queued = db.queued]
  /\ applied' = NoCursor
  /\ lanes' = AllIdle
  /\ UNCHANGED <<history, head, running, load, catalog, answer, inexact>>

---------------------------------------------------------------------------
\* A change of the own membership: close the cache, purge, read a new catalog.

\* stageMembershipRepair; the barrier aborts every projection in flight.
StageMembershipRepair(l) ==
  /\ Turn(l) /\ db.marker = 0
  /\ SelfMembership(history[NextEvent(l)]) /\ Applicable(NextEvent(l))
  /\ db' = [db EXCEPT !.marker = NextEvent(l)]
  /\ lanes' = AllIdle
  /\ load' = None /\ catalog' = None /\ answer' = None
  /\ UNCHANGED <<history, head, applied, running, inexact, spent>>

\* Mutant: the purge forgets the message rows.
FinishedWithRows(d) ==
  IF d.marker = 0 THEN d
  ELSE [d EXCEPT !.known = @ \cup {d.marker}, !.cursor = Max({@, d.marker}),
                 !.conv = IF history[d.marker].kind = "left" THEN None ELSE @]

\* #finishStagedMembershipEvent, by the event itself or by the next load().
Finished(d) ==
  IF d.marker = 0 THEN d
  ELSE LET e == history[d.marker]
           kept == [d EXCEPT !.known = @ \cup {d.marker}, !.cursor = Max({@, d.marker}),
                             !.coll = [c \in Collection |-> Unloaded]]
       IN IF e.kind # "left" THEN kept
          ELSE [kept EXCEPT !.conv = None, !.rows = EmptyRows, !.reacts = {}, !.task = 0,
                            !.anchor = [m \in Message |-> 0],
                            !.queued = IF @ = "none" THEN @ ELSE "failed"]

FinishMembershipRepair ==
  /\ running /\ db.marker # 0 /\ db.marker \notin db.known
  /\ db' = Finished(db)
  /\ UNCHANGED <<history, head, applied, running, lanes, load, catalog, answer, inexact, spent>>

\* The renderer stops between any two steps; restarting reads the stores back.
Crash ==
  /\ running /\ Within("crashes", MaxCrashes)
  /\ running' = FALSE
  /\ lanes' = AllIdle /\ load' = None /\ catalog' = None /\ answer' = None
  /\ UNCHANGED <<history, head, db, applied, inexact>>

Restart ==
  /\ ~running /\ running' = TRUE
  /\ db' = Finished(db)
  /\ applied' = db'.cursor
  /\ UNCHANGED <<history, head, lanes, load, catalog, answer, inexact, spent>>

---------------------------------------------------------------------------
\* Catalogs: conversation summaries read at one server position.

CanWrite(p, mode) ==
  /\ db.marker = 0 \/ (mode = "bootstrap" /\ p >= db.marker)
  /\ IF mode = "refresh" THEN db.cursor = p ELSE db.cursor <= p

\* The answer of the bootstrap read arrives; opening it cancels the collection
\* reads. A catalog is due when the replica has none, after a membership change
\* and after a retract that left the counters unknown.
ReadCatalog(mode) ==
  /\ running /\ catalog = None /\ ~Writing
  /\ IF mode = "bootstrap"
     THEN /\ db.marker # 0 => db.marker \in db.known
          /\ \/ db.cursor = NoCursor /\ UNCHANGED spent
             \/ db.marker # 0 /\ UNCHANGED spent
             \/ db.cursor # NoCursor /\ db.marker = 0 /\ Within("catalogs", MaxCatalogs)
     ELSE /\ db.cursor # NoCursor /\ db.marker = 0
          /\ \/ "sourceless" \in inexact /\ UNCHANGED spent
             \/ "sourceless" \notin inexact /\ Within("catalogs", MaxCatalogs)
  /\ catalog' = [mode |-> mode, at |-> head]
  /\ load' = IF mode = "bootstrap" THEN None ELSE load
  /\ UNCHANGED <<history, head, db, applied, running, lanes, answer, inexact>>

\* A page of the catalog is written before the catalog is complete, and does not
\* move the cursor. #refreshWorkspaceMetadata stages only at its own position.
StageMetadataPage ==
  /\ catalog # None /\ db.marker = 0 /\ CanWrite(catalog.at, "page")
  /\ catalog.mode = "refresh" => applied = catalog.at
  /\ SummaryAt(history, catalog.at) # None
  /\ db' = [db EXCEPT !.conv = ReserveSummary(SummaryAt(history, catalog.at), db.reserved)]
  /\ db' # db
  /\ inexact' = IF catalog.at > db.cursor THEN inexact \cup {"staged"} ELSE inexact
  /\ UNCHANGED <<history, head, applied, running, lanes, load, catalog, answer, spent>>

\* #writeMetadata of a complete catalog: rows of a conversation it does not list go.
CatalogWrite(p) ==
  LET conv == ReserveSummary(SummaryAt(history, p), db.reserved)
      kept == [db EXCEPT !.conv = conv]
  IN IF conv # None THEN kept
     ELSE [kept EXCEPT !.rows = EmptyRows, !.reacts = {}, !.task = 0,
                       !.anchor = [m \in Message |-> 0],
                       !.coll = [c \in Collection |-> Unloaded],
                       !.queued = IF @ = "none" THEN @ ELSE "failed"]

\* A complete catalog corrects the counters, unless an event in flight still holds
\* the summary it read before.
Corrected == IF \E l \in Lane : lanes[l].try # None THEN inexact ELSE inexact \cap {"late"}

\* installMetadataSnapshot: the catalog's position becomes the replay position,
\* unless events have passed it; either way the cache is read back.
InstallCatalog ==
  /\ catalog # None /\ catalog.mode = "bootstrap" /\ ~Writing
  /\ LET p == catalog.at
     IN IF CanWrite(p, "bootstrap")
        THEN /\ db' = [CatalogWrite(p) EXCEPT !.cursor = p, !.marker = 0,
                                              !.coll = InvalidateOlder(@, p)]
             /\ applied' = p
             /\ inexact' = Corrected
        ELSE /\ UNCHANGED <<db, inexact>>
             /\ applied' = db.cursor
  /\ catalog' = None
  /\ UNCHANGED <<history, head, running, lanes, load, answer, spent>>

\* refreshMetadata and replaceMetadata: counters are replaced only at the very
\* position the replica has reached; a later replica keeps its own.
RefreshMetadata ==
  /\ catalog # None /\ catalog.mode = "refresh" /\ applied >= catalog.at /\ ~Writing
  /\ db.marker = 0
  /\ IF CanWrite(catalog.at, "refresh")
     THEN db' = CatalogWrite(catalog.at) /\ inexact' = Corrected
     ELSE UNCHANGED <<db, inexact>>
  /\ catalog' = None
  /\ UNCHANGED <<history, head, applied, running, lanes, load, answer, spent>>

\* The read or the rest of its pages fail.
CatalogFails ==
  /\ catalog # None /\ catalog' = None
  /\ UNCHANGED <<history, head, db, applied, running, lanes, load, answer, inexact, spent>>

---------------------------------------------------------------------------
\* Collection reads (#loadCollection): a page as of the server's position, the
\* events applied since its journal opened, and one commit.

BeginLoad(c) ==
  /\ running /\ load = None /\ db.marker = 0 /\ db.conv # None
  /\ Within("loads", MaxLoads)
  /\ load' = [of |-> c, start |-> applied, at |-> NoCursor, journal |-> {}, base |-> None]
  /\ UNCHANGED <<history, head, db, applied, running, lanes, catalog, answer, inexact>>

LoadAnswers ==
  /\ load # None /\ load.at = NoCursor
  /\ load' = [load EXCEPT !.at = head]
  /\ UNCHANGED <<history, head, db, applied, running, lanes, catalog, answer, inexact, spent>>

\* The page and its newer events, and the rows and reservations of the replica.
ReadForPage ==
  /\ load # None /\ load.at # NoCursor /\ load.base = None /\ QueueIdle
  /\ load' = IF load.start # NoCursor /\ load.at < load.start THEN None
             ELSE [load EXCEPT !.base =
                    [page |-> Replay(PageAt(history, load.at), history,
                                     {n \in load.journal : n > load.at}),
                     expected |-> applied, rows |-> db.rows, reserved |-> db.reserved]]
  /\ UNCHANGED <<history, head, db, applied, running, lanes, catalog, answer, inexact, spent>>

Paged(page, m) == page.rows[m] # "none"

\* upsertHistory's rows, from the rows read before the encryption.
HistoryWrite(base, page, p, reacted) ==
  LET reserved == ReserveTombstones(base.reserved, page.rows)
      rows == [m \in Message |->
                IF ~Paged(page, m) THEN db.rows[m]
                ELSE Preferred(base.rows[m], Reserved(m, page.rows[m], reserved))]
      alive(r) == rows[r.message] = "live"
  IN [db EXCEPT
       !.rows = rows, !.reserved = reserved,
       !.reacts = IF reacted
                  THEN {r \in @ : ~Paged(page, r.message)}
                       \cup {r \in page.reacts : Paged(page, r.message) /\ alive(r)}
                  ELSE {r \in @ : Paged(page, r.message) => alive(r)},
       !.anchor = [m \in Message |-> IF reacted /\ Paged(page, m) THEN p ELSE @[m]]]

\* Rows or reservations that moved since they were read send the write round again.
PageMoved(base, page) ==
  \/ base.reserved # db.reserved
  \/ \E m \in Message : Paged(page, m) /\ base.rows[m] # db.rows[m]

CommitHistory ==
  /\ Writing /\ load.of = "timeline"
  /\ LET base == load.base
         commits == CommitsAt(db.coll["timeline"], db.cursor, base.expected, load.at)
         anchored == \A m \in Message : Paged(base.page, m) => db.anchor[m] <= load.at
     IN \/ /\ commits /\ PageMoved(base, base.page)
           /\ load' = [load EXCEPT !.base.rows = db.rows, !.base.reserved = db.reserved]
           /\ UNCHANGED db
        \/ /\ ~commits \/ (~PageMoved(base, base.page) /\ ~(anchored /\ db.marker = 0 /\ db.conv # None))
           /\ load' = None
           /\ UNCHANGED db
        \/ /\ commits /\ ~PageMoved(base, base.page) /\ anchored /\ db.marker = 0 /\ db.conv # None
           /\ db' = [HistoryWrite(base, base.page, load.at, TRUE)
                      EXCEPT !.coll["timeline"] = CommitCollection(@, load.at)]
           /\ load' = None
  /\ UNCHANGED <<history, head, applied, running, lanes, catalog, answer, inexact, spent>>

\* upsertTasks: the page's versions meet the stored ones inside the transaction.
CommitTasks ==
  /\ Writing /\ load.of = "tasks"
  /\ load' = None
  /\ LET base == load.base
     IN IF db.marker = 0 /\ db.conv # None
           /\ CommitsAt(db.coll["tasks"], db.cursor, base.expected, load.at)
        THEN db' = [db EXCEPT !.task = IF AcceptsTask(@, base.page.task) THEN base.page.task ELSE @,
                              !.coll["tasks"] = CommitCollection(@, load.at)]
        ELSE UNCHANGED db
  /\ UNCHANGED <<history, head, applied, running, lanes, catalog, answer, inexact, spent>>

---------------------------------------------------------------------------
\* Responses of the user's own mutations, which the log also delivers as events.

MutationAnswered ==
  /\ running /\ answer = None /\ Within("answers", MaxAnswers)
  /\ \/ \E k \in 1..head :
          /\ history[k].mine /\ applied # NoCursor
          /\ answer' = [kind |-> history[k].kind, k |-> k, from |-> applied, base |-> None]
     \/ /\ db.conv = None /\ SummaryAt(history, head) # None
        /\ \E k \in 1..head : history[k].kind = "opened"
        /\ answer' = [kind |-> "direct", k |-> head, from |-> applied, base |-> None]
  /\ UNCHANGED <<history, head, db, applied, running, lanes, load, catalog, inexact>>

\* addReaction and removeReaction: skipped once the events have been applied.
AnswerReaction ==
  /\ answer # None /\ answer.kind \in {"reacted", "unreacted"} /\ QueueIdle /\ ~Writing
  /\ LET e == history[answer.k]
     IN IF applied >= answer.k \/ db.marker # 0 \/ db.conv = None
        THEN UNCHANGED <<db, load, inexact>>
        ELSE /\ load' = None
             /\ db' = [db EXCEPT !.reacts =
                  IF e.kind = "reacted" THEN @ \cup {[id |-> answer.k, message |-> e.message]}
                  ELSE {r \in @ : r.id # e.by}]
             /\ inexact' = IF Max({db.cursor, db.anchor[e.message]}) >= answer.k
                          THEN inexact \cup {"late"} ELSE inexact
  /\ answer' = None
  /\ UNCHANGED <<history, head, applied, running, lanes, catalog, spent>>

\* retractMessage writes the tombstone through upsertHistory, without reactions.
AnswerRetract ==
  /\ answer # None /\ answer.kind = "retracted" /\ QueueIdle /\ ~Writing
  /\ IF db.marker # 0 \/ db.conv = None THEN UNCHANGED <<db, load>>
     ELSE LET page == Tombstone(history[answer.k].message)
          IN /\ db' = HistoryWrite([rows |-> db.rows, reserved |-> db.reserved], page, 0, FALSE)
             /\ load' = None
  /\ answer' = None
  /\ UNCHANGED <<history, head, applied, running, lanes, catalog, inexact, spent>>

\* upsertAcknowledgedMessage, outside the event queue: the cursor it writes is
\* what the runtime has applied, or had when it sent, never the send's own.
ReadForSent ==
  /\ answer # None /\ answer.kind = "created" /\ answer.base = None
  /\ answer' = [answer EXCEPT !.base =
       [reserved |-> db.reserved,
        applied |-> IF applied = NoCursor THEN answer.from ELSE applied]]
  /\ UNCHANGED <<history, head, db, applied, running, lanes, load, catalog, inexact, spent>>

CommitSent ==
  /\ answer # None /\ answer.kind = "created" /\ answer.base # None
  /\ LET m == history[answer.k].message
         base == answer.base
     IN IF base.reserved # db.reserved
        THEN answer' = [answer EXCEPT !.base = None] /\ UNCHANGED db
        ELSE /\ answer' = None
             /\ IF db.marker # 0 \/ db.queued = "none" \/ db.conv = None THEN UNCHANGED db
                ELSE db' = [db EXCEPT !.rows[m] = Reserved(m, "live", base.reserved),
                                      !.queued = "none",
                                      !.cursor = Max({@, base.applied})]
  /\ UNCHANGED <<history, head, applied, running, lanes, load, catalog, inexact, spent>>

\* createDirectConversation: upsertConversation of a conversation whose creation
\* the log may still have to deliver.
AnswerDirect ==
  /\ answer # None /\ answer.kind = "direct" /\ QueueIdle /\ ~Writing /\ db.marker = 0
  /\ db' = [db EXCEPT !.conv = MergeSummary(SummaryAt(history, answer.k), @)]
  /\ inexact' = IF answer.k > db.cursor THEN inexact \cup {"direct"} ELSE inexact
  /\ answer' = None
  /\ UNCHANGED <<history, head, applied, running, lanes, load, catalog, spent>>

---------------------------------------------------------------------------
Next ==
  \/ Publish
  \/ \E l \in Lane :
       \/ ReadForEvent(l) \/ IgnoreEvent(l) \/ CommitEvent(l) \/ PublishCommitted(l)
       \/ StageMembershipRepair(l)
  \/ FinishMembershipRepair \/ Crash \/ Restart
  \/ BeginSync \/ FinishSync \/ Redeliver \/ Resync
  \/ \E mode \in {"bootstrap", "refresh"} : ReadCatalog(mode)
  \/ StageMetadataPage \/ InstallCatalog \/ RefreshMetadata \/ CatalogFails
  \/ \E c \in Collection : BeginLoad(c)
  \/ LoadAnswers \/ ReadForPage \/ CommitHistory \/ CommitTasks
  \/ MutationAnswered \/ AnswerReaction \/ AnswerRetract
  \/ ReadForSent \/ CommitSent \/ AnswerDirect

Spec == Init /\ [][Next]_vars

---------------------------------------------------------------------------
TypeOK ==
  /\ history \in Histories /\ head \in 0..Len(history)
  /\ db.cursor \in NoCursor..head /\ db.marker \in 0..head
  /\ db.rows \in [Message -> {"none", "live", "dead"}]
  /\ db.anchor \in [Message -> 0..head]
  /\ db.reserved \subseteq Message /\ db.known \subseteq 1..head
  /\ db.queued \in {"none", "pending", "failed"}
  /\ inexact \subseteq {"staged", "sourceless", "late", "direct", "early"}

\* A loaded collection all of whose later events have been applied one by one
\* holds what the server holds at the cursor, or what a response has already
\* learned of a later position. Rows are read under the reservations, as load()
\* shows them.
LoadedIsExact ==
  LET continuous(c) ==
        /\ db.coll[c].loaded /\ db.marker = 0 /\ db.cursor # NoCursor
        /\ \A n \in (db.coll[c].at + 1)..db.cursor : Delivered(history, n) => n \in db.known
      later == {ServerAt[history][q] : q \in Max({0, db.cursor})..head}
  IN /\ continuous("timeline") =>
          /\ \A m \in Message : \E s \in later :
               Reserved(m, db.rows[m], db.reserved) = s.rows[m]
          /\ "late" \notin inexact =>
               /\ \A r \in db.reacts : \E s \in later : r \in s.reacts
               /\ \A r \in UNION {s.reacts : s \in later} :
                    (\A s \in later : r \in s.reacts) => r \in db.reacts
     /\ continuous("tasks") => \E s \in later : db.task = s.task

\* The unread counter and the read cursor count every event once: nothing applied
\* twice, nothing lost between a catalog and the events after it. A catalog page
\* or an opened conversation read ahead of the cursor is excepted until the next
\* complete catalog, and so is a retract whose source the replica never had.
CountedOnce ==
  (db.cursor # NoCursor /\ db.marker = 0 /\ db.conv # None /\ inexact \subseteq {"late"})
    => /\ db.conv.unread = ServerAt[history][db.cursor].unread
       /\ db.conv.read = ServerAt[history][db.cursor].read

\* Once the purge of a lost membership has committed, nothing brings content of
\* the conversation back until a catalog shows it again.
RevokedIsPurged ==
  (db.cursor > 0 /\ ~ServerAt[history][db.cursor].member /\ inexact \subseteq {"late"})
    => /\ db.conv = None /\ db.rows = EmptyRows /\ db.reacts = {} /\ db.task = 0
       /\ db.queued # "pending" \/ history[1].kind = "opened"

\* Every commit of the encrypted cache is one operation of the atomic cache: what
\* was read before the encryption is never what a concurrent commit has changed.
\* Rows are compared as load() returns them, under the reservations.
ImplementsStore == Store!Spec

\* With no catalog being read, counters are exact: "a cached catalog ahead of the
\* applied position waits for catch-up before its counters replace cached counters".
CatalogWaitsForCatchUp ==
  (db.cursor # NoCursor /\ db.marker = 0 /\ db.conv # None /\ running /\ catalog = None
     /\ inexact \subseteq {"staged"})
    => db.conv.unread = ServerAt[history][db.cursor].unread

\* "A history page can have already supplied the tombstone, so the event is the
\* exactly-once boundary for its unread contribution": once every event has been
\* applied, the unread counter is the server's.
EventsCountOnce ==
  (db.cursor = Len(history) /\ db.marker = 0 /\ db.conv # None
     /\ inexact \subseteq {"early"})
    => db.conv.unread = ServerAt[history][db.cursor].unread

=============================================================================
