---------------------------- MODULE WorkspaceLog ----------------------------
(***************************************************************************)
(* The sync_events table of one workspace, written by concurrent           *)
(* transactions (apps/server/src/modules/workspace).                       *)
(*                                                                         *)
(* Every mutation of the server ends by taking the next value of           *)
(* workspaces.last_event_sequence with an UPDATE, whose row lock the       *)
(* transaction keeps until it commits, and inserts its event row under     *)
(* that lock.  Several events may be written by one transaction.           *)
(* Retention deletes committed rows by age, not by sequence, and the       *)
(* operator's cutover moves the replay epoch.  The module keeps what each  *)
(* of them reads and writes; the content of an event plays no part here.   *)
(*                                                                         *)
(* Committed state is in last, epoch, floor, rows and createdAt; a         *)
(* writer's uncommitted state is in tip and inserted.                      *)
(***************************************************************************)
EXTENDS Naturals, FiniteSets

CONSTANTS
  Writers,                 \* concurrent server transactions
  NoWriter,
  Epochs,                  \* epochs an operator may choose
  NoEpoch,
  LegacyEvents,            \* events written before the first cutover
  RetentionAge,            \* SYNC_RETENTION_DAYS, in clock ticks
  MaxSequence,             \* bound: sequences allocated
  MaxBurst,                \* bound: events of one transaction
  MaxClock                 \* bound: clock ticks

ASSUME NoWriterAssumption == NoWriter \notin Writers
ASSUME NoEpochAssumption == NoEpoch \notin Epochs
ASSUME BoundsAssumption ==
  /\ MaxSequence \in Nat /\ MaxBurst \in Nat /\ MaxClock \in Nat
  /\ RetentionAge \in Nat
  /\ LegacyEvents \in Nat /\ LegacyEvents <= MaxSequence

VARIABLES
  last,                    \* workspaces.last_event_sequence
  epoch,                   \* workspaces.protocol_epoch
  floor,                   \* workspaces.protocol_replay_floor
  rows,                    \* sequences of the committed sync_events rows
  createdAt,               \* sync_events.created_at by sequence
  lock,                    \* holder of the workspaces row lock
  tip,                     \* last_event_sequence as the transaction sees it
  inserted,                \* rows the transaction has inserted
  plans,                   \* cutovers an operator recorded
  clock                    \* the database clock

tableState == <<last, epoch, floor, rows, createdAt, lock, tip, inserted, plans, clock>>

Sequences == 1..MaxSequence

Plan == [expectedEpoch: Epochs \cup {NoEpoch},
         expectedSequence: 0..MaxSequence,
         target: Epochs]

(* A workspace created by this release starts with an epoch and no history; *)
(* an older one keeps its history and waits for its first cutover.         *)
TableInit ==
  /\ \E n \in 0..LegacyEvents : last = n /\ rows = 1..n
  /\ epoch \in Epochs \cup {NoEpoch}
  /\ epoch # NoEpoch => last = 0
  /\ floor = 0
  /\ createdAt = [s \in Sequences |-> 0]
  /\ lock = NoWriter
  /\ tip = [w \in Writers |-> 0]
  /\ inserted = [w \in Writers |-> {}]
  /\ plans = {}
  /\ clock = 0

-----------------------------------------------------------------------------
(* Transactions of the server.                                             *)

Holds(w) == lock = w

(* The sequence this transaction allocated and has not inserted yet. *)
Allocated(w) == Holds(w) /\ tip[w] \notin inserted[w]

(* nextWorkspaceSequence: UPDATE ... SET last_event_sequence + 1 waits for  *)
(* the row lock, and keeps it.                                             *)
Allocate(w) ==
  /\ lock \in {NoWriter, w}
  /\ ~Allocated(w)
  /\ Cardinality(inserted[w]) < MaxBurst
  /\ LET seen == IF Holds(w) THEN tip[w] ELSE last
     IN  /\ seen < MaxSequence
         /\ tip' = [tip EXCEPT ![w] = seen + 1]
  /\ lock' = w
  /\ UNCHANGED <<last, epoch, floor, rows, createdAt, inserted, plans, clock>>

(* Mutant: created_at is the time the transaction began. *)
InsertStampedAtBegin(w) ==
  /\ Allocated(w)
  /\ epoch # NoEpoch
  /\ inserted' = [inserted EXCEPT ![w] = @ \cup {tip[w]}]
  /\ \E began \in 0..clock : createdAt' = [createdAt EXCEPT ![tip[w]] = began]
  /\ UNCHANGED <<last, epoch, floor, rows, lock, tip, plans, clock>>

(* insertSyncEventWithSequence: refused while the workspace has no epoch;   *)
(* created_at is clock_timestamp() at the insert.                          *)
InsertEvent(w) ==
  /\ Allocated(w)
  /\ epoch # NoEpoch
  /\ inserted' = [inserted EXCEPT ![w] = @ \cup {tip[w]}]
  /\ createdAt' = [createdAt EXCEPT ![tip[w]] = clock]
  /\ UNCHANGED <<last, epoch, floor, rows, lock, tip, plans, clock>>

Release(w) ==
  /\ lock' = NoWriter
  /\ tip' = [tip EXCEPT ![w] = 0]
  /\ inserted' = [inserted EXCEPT ![w] = {}]

(* Mutant: the counter is committed before the events it numbers. *)
CommitCounterFirst(w) ==
  /\ \/ /\ Holds(w) /\ ~Allocated(w)
        /\ last' = tip[w] /\ lock' = NoWriter
        /\ UNCHANGED <<rows, tip, inserted>>
     \/ /\ ~Holds(w) /\ inserted[w] # {}
        /\ rows' = rows \cup inserted[w]
        /\ tip' = [tip EXCEPT ![w] = 0] /\ inserted' = [inserted EXCEPT ![w] = {}]
        /\ UNCHANGED <<last, lock>>
  /\ UNCHANGED <<epoch, floor, createdAt, plans, clock>>

(* COMMIT publishes the rows and the counter together. *)
Commit(w) ==
  /\ Holds(w)
  /\ ~Allocated(w)
  /\ last' = tip[w]
  /\ rows' = rows \cup inserted[w]
  /\ Release(w)
  /\ UNCHANGED <<epoch, floor, createdAt, plans, clock>>

(* ROLLBACK, on any error of the operation or a lost connection: neither    *)
(* the rows nor the sequence numbers survive.                              *)
RollsBack(w) ==
  /\ Holds(w)
  /\ Release(w)
  /\ UNCHANGED <<last, epoch, floor, rows, createdAt, plans, clock>>

-----------------------------------------------------------------------------
(* WorkspaceRetention.deleteExpiredState, hourly.  It sees committed rows.  *)

Expired == {s \in rows : createdAt[s] + RetentionAge < clock}

DeleteExpiredState ==
  /\ Expired # {}
  /\ rows' = rows \ Expired
  /\ UNCHANGED <<last, epoch, floor, createdAt, lock, tip, inserted, plans, clock>>

-----------------------------------------------------------------------------
(* The operator's cutover: inspect and record, later establish.            *)

(* Mutant: the plan records the sequence that comes next. *)
RecordPlanNext(e) ==
  /\ e # epoch
  /\ \A p \in plans : e \notin {p.target, p.expectedEpoch}
  /\ plans' = plans \cup {[expectedEpoch |-> epoch, expectedSequence |-> last + 1, target |-> e]}
  /\ UNCHANGED <<last, epoch, floor, rows, createdAt, lock, tip, inserted, clock>>

(* inspectWorkspaceProtocol; the operator picks an unused target epoch. *)
RecordPlan(e) ==
  /\ e # epoch
  /\ \A p \in plans : e \notin {p.target, p.expectedEpoch}
  /\ plans' = plans \cup {[expectedEpoch |-> epoch, expectedSequence |-> last, target |-> e]}
  /\ UNCHANGED <<last, epoch, floor, rows, createdAt, lock, tip, inserted, clock>>

(* Mutant: the floor is the first sequence of the new epoch. *)
EstablishFloorAfterHead(p) ==
  /\ lock = NoWriter
  /\ epoch # p.target
  /\ epoch = p.expectedEpoch
  /\ last = p.expectedSequence
  /\ epoch' = p.target
  /\ floor' = p.expectedSequence + 1
  /\ UNCHANGED <<last, rows, createdAt, lock, tip, inserted, plans, clock>>

(* Mutant: the recorded sequence is not compared with the current one. *)
EstablishStalePlan(p) ==
  /\ lock = NoWriter
  /\ epoch # p.target
  /\ epoch = p.expectedEpoch
  /\ epoch' = p.target
  /\ floor' = p.expectedSequence
  /\ UNCHANGED <<last, rows, createdAt, lock, tip, inserted, plans, clock>>

(* establishWorkspaceProtocolEpoch under SELECT ... FOR UPDATE.  Running    *)
(* the same plan again finds its epoch in place and changes nothing; a     *)
(* workspace that moved since the plan was recorded is a conflict.         *)
AlreadyEstablished(p) == epoch = p.target /\ floor = p.expectedSequence

Establish(p) ==
  /\ lock = NoWriter
  /\ \/ AlreadyEstablished(p) /\ UNCHANGED <<epoch, floor>>
     \/ /\ epoch # p.target
        /\ epoch = p.expectedEpoch
        /\ last = p.expectedSequence
        /\ epoch' = p.target
        /\ floor' = p.expectedSequence
  /\ UNCHANGED <<last, rows, createdAt, lock, tip, inserted, plans, clock>>

Tick ==
  /\ clock < MaxClock
  /\ clock' = clock + 1
  /\ UNCHANGED <<last, epoch, floor, rows, createdAt, lock, tip, inserted, plans>>

TableNext ==
  \/ \E w \in Writers : Allocate(w) \/ InsertEvent(w) \/ Commit(w) \/ RollsBack(w)
  \/ DeleteExpiredState
  \/ \E e \in Epochs : RecordPlan(e)
  \/ \E p \in plans : Establish(p)
  \/ Tick

TableSpec == TableInit /\ [][TableNext]_tableState

-----------------------------------------------------------------------------
(* What readers derive from the table.                                     *)

(* The oldest position sync accepts: the one before the oldest retained    *)
(* row, or the head when retention left nothing.                           *)
RetainedCursorFloor ==
  IF rows = {} THEN last
  ELSE (CHOOSE s \in rows : \A t \in rows : s <= t) - 1

-----------------------------------------------------------------------------
(* Properties.                                                             *)

TableTypeOK ==
  /\ last \in 0..MaxSequence
  /\ epoch \in Epochs \cup {NoEpoch}
  /\ floor \in 0..MaxSequence
  /\ rows \in SUBSET Sequences
  /\ createdAt \in [Sequences -> Nat]
  /\ lock \in Writers \cup {NoWriter}
  /\ tip \in [Writers -> 0..MaxSequence]
  /\ inserted \in [Writers -> SUBSET Sequences]
  /\ plans \in SUBSET Plan
  /\ clock \in Nat

(* The retained rows are the unbroken end of the log: sync compares a      *)
(* cursor only with the oldest row, so one hole above it would be an event *)
(* that a reader silently skips.  Retention deletes by age, and only the   *)
(* order of created_at keeps what it leaves unbroken.                      *)
RetainedSuffix ==
  \A s \in rows : s <= last /\ \A t \in s..last : t \in rows

(* created_at never decreases along the sequence: it is stamped under the  *)
(* row lock, not when the transaction began.                               *)
StampsFollowSequence ==
  \A s, t \in rows : s <= t => createdAt[s] <= createdAt[t]

(* The workspaces CHECK constraint of migration 0032 can never refuse the  *)
(* cutover or a sequence update.                                           *)
FloorInHistory == floor <= last /\ (epoch = NoEpoch => floor = 0)

(* What every reader of the table relies on, together. *)
LogHolds == TableTypeOK /\ RetainedSuffix /\ StampsFollowSequence /\ FloorInHistory

(* A cursor handed out at any time stays ahead of nothing: an event only   *)
(* becomes visible above every event and every head visible before it.     *)
CommitsAboveHead ==
  [][last <= last' /\ \A s \in rows' \ rows : last < s]_tableState

(* The table implements the abstract log. *)
Log == INSTANCE EventLog WITH head <- last, trimmed <- RetainedCursorFloor
ImplementsEventLog == Log!LogSpec
=============================================================================
