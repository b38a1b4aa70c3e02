----------------------------- MODULE Attachments -----------------------------
(* The files of a conversation (attachment-operations.ts, file-store.ts): an upload is      *)
(* created, its bytes are put, it is completed, and a message claims it; the retention run *)
(* (workspace-retention.ts) removes what expired.  The row lives in the database and the    *)
(* bytes on disk, so a transaction that is rolled back leaves its files as they are.  A     *)
(* transaction holds its row locks from the statement that takes them to its end.           *)
EXTENDS Naturals, FiniteSets

CONSTANTS
  Workers,      \* connections that run a request or the retention job
  MaxFiles, MaxMessages, MaxNow,
  UploadTTL,    \* ATTACHMENT_UPLOAD_TTL_MS
  UnclaimedTTL, \* UNCLAIMED_READY_ATTACHMENT_RETENTION_MS
  BatchSize,    \* ATTACHMENT_CLEANUP_BATCH_SIZE
  MaxFaults     \* crashes, lost connections and failed file operations

VARIABLES
  now,
  open,     \* whether the uploader still sees the conversation and may write to it
  rows,     \* attachments
  disk,     \* a file's bytes: the object and the staged .part
  deleted,  \* messages that were retracted
  sent,     \* messages so far
  work,     \* what each worker is in the middle of
  faults,
  cut,      \* history: files a cleanup emptied without deleting their row
  missed    \* history: files of a message whose bytes a read did not find

attVars == <<now, open, rows, disk, deleted, sent, work, faults, cut, missed>>

Files == 1..MaxFiles
Messages == 1..MaxMessages
Never == 0
Moments == 1..MaxNow + 1 \* a moment is its hour's number plus one
NoRow == [status |-> "none", due |-> 0, received |-> Never, message |-> 0]
Idle == [op |-> "none", pc |-> "none", file |-> 0, held |-> {},
         batch |-> {}, left |-> {}, removed |-> {}, kind |-> "none"]
Ops == {"put", "send", "sweep", "read"}
Kinds == {"pending", "unclaimed-ready"}

TypeOK ==
  /\ now \in 0..MaxNow /\ open \in BOOLEAN
  /\ rows \in [Files -> [status : {"none", "pending", "ready", "gone"}, due : 0..MaxNow + UploadTTL,
                         received : {Never} \cup Moments, message : {0} \cup Messages]]
  /\ disk \in [Files -> [object : BOOLEAN, part : BOOLEAN]]
  /\ deleted \subseteq Messages /\ sent \in 0..MaxMessages /\ faults \in 0..MaxFaults
  /\ work \in [Workers -> [op : {"none"} \cup Ops, pc : {"none", "stage", "strip", "place", "commit", "select",
                             "remove", "fetch"}, file : {0} \cup Files, held : SUBSET Files,
                           batch : SUBSET Files, left : SUBSET Files, removed : SUBSET Files,
                           kind : {"none"} \cup Kinds]]
  /\ cut \subseteq Files /\ missed \subseteq Files

Init ==
  /\ now = 0 /\ open = TRUE /\ rows = [f \in Files |-> NoRow]
  /\ disk = [f \in Files |-> [object |-> FALSE, part |-> FALSE]]
  /\ deleted = {} /\ sent = 0 /\ work = [w \in Workers |-> Idle] /\ faults = 0 /\ cut = {} /\ missed = {}

Unlocked(f) == \A w \in Workers : f \notin work[w].held
Goes(w, step) == work' = [work EXCEPT ![w] = step]
Ends(w) == Goes(w, Idle)
Begins(w, step) == work[w] = Idle /\ Goes(w, step)
At(w, op, pc) == work[w].op = op /\ work[w].pc = pc
DatabaseKept == UNCHANGED <<now, open, rows, deleted, sent, faults>>
Expired(f) == rows[f].due <= now

\* uploading

createFileUpload(f) ==
  /\ open /\ rows[f].status = "none" /\ \A g \in Files : g < f => rows[g].status # "none"
  /\ rows' = [rows EXCEPT ![f] = [NoRow EXCEPT !.status = "pending", !.due = now + UploadTTL]]
  /\ UNCHANGED <<now, open, disk, deleted, sent, work, faults, cut, missed>>

\* the bytes are those that were announced: anything else is refused under the row's lock
putFileContent(w, f) ==
  /\ Unlocked(f) /\ rows[f].status = "pending" /\ ~Expired(f)
  /\ Begins(w, [Idle EXCEPT !.op = "put", !.pc = "stage", !.file = f, !.held = {f}])
  /\ DatabaseKept /\ UNCHANGED <<disk, cut, missed>>

\* LocalAttachmentStore.write: a staged file takes the place of the object
Write(w, pc, then, part, object) ==
  /\ At(w, "put", pc) /\ disk' = [disk EXCEPT ![work[w].file] = [object |-> object, part |-> part]]
  /\ Goes(w, [work[w] EXCEPT !.pc = then])
  /\ DatabaseKept /\ UNCHANGED <<cut, missed>>
write(w) ==
  \/ Write(w, "stage", "strip", TRUE, disk[work[w].file].object)
  \/ Write(w, "strip", "place", TRUE, FALSE)
  \/ Write(w, "place", "commit", FALSE, TRUE)

CommitContent(w) ==
  /\ At(w, "put", "commit") /\ Ends(w)
  /\ rows' = [rows EXCEPT ![work[w].file].received = now + 1]
  /\ UNCHANGED <<now, open, disk, deleted, sent, faults, cut, missed>>

Complete(f) == rows[f].received # Never /\ disk[f].object
\* under the row's lock; one that is ready already is answered as it is
completeFileUpload(f) ==
  /\ Unlocked(f) /\ rows[f].status = "pending" /\ ~Expired(f) /\ Complete(f)
  /\ rows' = [rows EXCEPT ![f].status = "ready"]
  /\ UNCHANGED <<now, open, disk, deleted, sent, work, faults, cut, missed>>

\* a message claims what its author completed, or the send fails

claimAttachments(w, f) ==
  /\ open /\ sent < MaxMessages /\ Unlocked(f) /\ rows[f].status = "ready" /\ rows[f].message = 0
  /\ Begins(w, [Idle EXCEPT !.op = "send", !.pc = "commit", !.file = f, !.held = {f}])
  /\ DatabaseKept /\ UNCHANGED <<disk, cut, missed>>
CommitMessage(w) ==
  /\ At(w, "send", "commit") /\ sent < MaxMessages /\ sent' = sent + 1 /\ Ends(w)
  /\ rows' = [rows EXCEPT ![work[w].file].message = sent + 1]
  /\ UNCHANGED <<now, open, disk, deleted, faults, cut, missed>>
Retract(m) ==
  /\ m <= sent /\ m \notin deleted /\ deleted' = deleted \cup {m}
  /\ UNCHANGED <<now, open, rows, disk, sent, work, faults, cut, missed>>

\* reading: the row is queried first, its bytes afterwards, and nothing is locked

Readable(f, byUploader) ==
  /\ rows[f].status = "ready" /\ (byUploader => open)
  /\ IF rows[f].message # 0 THEN rows[f].message \notin deleted ELSE byUploader
readFileContent(w, f) ==
  /\ \E byUploader \in BOOLEAN : Readable(f, byUploader)
  /\ Begins(w, [Idle EXCEPT !.op = "read", !.pc = "fetch", !.file = f,
                            !.kind = IF rows[f].message # 0 THEN "none" ELSE "unclaimed-ready"])
  /\ DatabaseKept /\ UNCHANGED <<disk, cut, missed>>
Fetch(w) ==
  LET f == work[w].file IN
  /\ At(w, "read", "fetch") /\ Ends(w)
  /\ missed' = IF work[w].kind = "none" /\ ~disk[f].object THEN missed \cup {f} ELSE missed
  /\ DatabaseKept /\ UNCHANGED <<disk, cut>>

\* the retention run: batches of one kind, then of the other, each a transaction

Due(f, kind) ==
  IF kind = "pending" THEN rows[f].status = "pending" /\ Expired(f)
  ELSE rows[f].status = "ready" /\ rows[f].message = 0 /\ rows[f].received - 1 + UnclaimedTTL <= now
Age(f, kind) == IF kind = "pending" THEN rows[f].due ELSE rows[f].received
\* mutant: the batch is selected without its locks
LocksNothing(batch) == {}
LocksBatch(batch) == batch
deleteExpiredState(w) ==
  /\ Begins(w, [Idle EXCEPT !.op = "sweep", !.pc = "select", !.kind = "pending"])
  /\ (\E f \in Files, kind \in Kinds : Due(f, kind))
  /\ DatabaseKept /\ UNCHANGED <<disk, cut, missed>>
NextKind(w) ==
  Goes(w, IF work[w].kind = "pending" THEN [Idle EXCEPT !.op = "sweep", !.pc = "select", !.kind = "unclaimed-ready"]
          ELSE Idle)
\* FOR UPDATE SKIP LOCKED, the oldest first
SelectBatch(w) ==
  LET kind == work[w].kind
      due == {f \in Files : Due(f, kind) /\ Unlocked(f)}
      before(f) == {g \in due : Age(g, kind) < Age(f, kind) \/ (Age(g, kind) = Age(f, kind) /\ g < f)}
      batch == {f \in due : Cardinality(before(f)) < BatchSize} IN
  /\ At(w, "sweep", "select")
  /\ IF batch = {} THEN NextKind(w)
     ELSE Goes(w, [work[w] EXCEPT !.pc = "remove", !.held = LocksBatch(batch), !.batch = batch, !.left = batch])
  /\ DatabaseKept /\ UNCHANGED <<disk, cut, missed>>
Removing(w, f, removed) ==
  /\ At(w, "sweep", "remove") /\ f \in work[w].left
  /\ Goes(w, [work[w] EXCEPT !.left = @ \ {f}, !.removed = removed,
                             !.pc = IF work[w].left = {f} THEN "commit" ELSE "remove"])
\* the object and the staged file go; one that cannot be removed keeps its row
Remove(w, f) ==
  /\ Removing(w, f, work[w].removed \cup {f})
  /\ disk' = [disk EXCEPT ![f] = [object |-> FALSE, part |-> FALSE]]
  /\ DatabaseKept /\ UNCHANGED <<cut, missed>>
RemoveFails(w, f) ==
  /\ Removing(w, f, work[w].removed) /\ faults < MaxFaults /\ faults' = faults + 1
  /\ \E gone \in {disk[f].object, FALSE} :
       /\ disk' = [disk EXCEPT ![f].object = gone]
       /\ cut' = IF disk[f].object /\ ~gone THEN cut \cup {f} ELSE cut
  /\ UNCHANGED <<now, open, rows, deleted, sent, missed>>
CommitBatch(w) ==
  LET step == work[w] IN
  /\ At(w, "sweep", "commit")
  /\ rows' = [f \in Files |-> IF f \in step.removed THEN [NoRow EXCEPT !.status = "gone"] ELSE rows[f]]
  /\ IF Cardinality(step.batch) < BatchSize \/ step.removed = {} THEN NextKind(w)
     ELSE Goes(w, [Idle EXCEPT !.op = "sweep", !.pc = "select", !.kind = step.kind])
  /\ UNCHANGED <<now, open, disk, deleted, sent, faults, cut, missed>>

\* a failed write, a crash or a lost connection: the transaction is rolled back
Rollback(w) ==
  LET step == work[w] IN
  /\ step # Idle /\ faults < MaxFaults /\ faults' = faults + 1 /\ Ends(w)
  /\ cut' = cut \cup step.removed
  /\ UNCHANGED <<now, open, rows, disk, deleted, sent, missed>>
Leaves == /\ open /\ open' = FALSE
          /\ UNCHANGED <<now, rows, disk, deleted, sent, work, faults, cut, missed>>
HourPasses == /\ now < MaxNow /\ now' = now + 1
              /\ UNCHANGED <<open, rows, disk, deleted, sent, work, faults, cut, missed>>

Next ==
  \/ HourPasses \/ Leaves \/ \E m \in Messages : Retract(m)
  \/ \E f \in Files : createFileUpload(f) \/ completeFileUpload(f)
  \/ \E w \in Workers :
       \/ \E f \in Files : putFileContent(w, f) \/ claimAttachments(w, f) \/ readFileContent(w, f)
                         \/ Remove(w, f) \/ RemoveFails(w, f)
       \/ write(w) \/ CommitContent(w) \/ CommitMessage(w) \/ Fetch(w)
       \/ deleteExpiredState(w) \/ SelectBatch(w) \/ CommitBatch(w) \/ Rollback(w)

Spec == Init /\ [][Next]_attVars

-----------------------------------------------------------------------------
Sweeping(f) == \E w \in Workers : work[w].op = "sweep" /\ f \in work[w].batch

(* A ready file has its bytes, whatever puts failed half-way before it was completed, unless *)
(* a cleanup that emptied it was cut off before it could delete the row: that row stays       *)
(* claimable, since a claim asks nothing of the bytes (message-operations.ts:1484-1490).       *)
NothingDangling == \A f \in Files \ cut : rows[f].status = "ready" /\ ~Sweeping(f) => disk[f].object

(* A read that found a message's file is served its bytes, though it locks nothing.          *)
ReadsServe == missed \subseteq cut

(* No bytes outlive their row: what a rolled back put left is removed with the row.          *)
NoOrphans == \A f \in Files : (disk[f].object \/ disk[f].part) => rows[f].status \in {"pending", "ready"}

(* A message keeps the file it claimed: no other message takes it and no cleanup that        *)
(* selected it while it was unclaimed deletes it.                                          *)
ClaimIsKept == \A f \in Files : rows[f].message # 0 => rows'[f] = rows[f]
=============================================================================
