--------------------------- MODULE Server_proofs ---------------------------
(***************************************************************************)
(* What the server's remaining parts promise for any number of enrollments,*)
(* credentials, processes and migrations, and the properties of the whole. *)
(* MCServer runs one part in a behaviour, so the parts' invariants, those of*)
(* ServerIdentity_proofs and these, make one invariant of the specification.*)
(***************************************************************************)
EXTENDS ServerIdentity_proofs

-----------------------------------------------------------------------------
(* Enrolling agents.                                                       *)

LEMMA EnrollingSize == \A S : Enrolling!Cardinality(S) = Cardinality(S)
BY DEF Enrolling!Cardinality, Cardinality

(* The trail tells the enrollment's story so far.                          *)
Chain(steps, status) ==
  /\ \A i \in 1..Len(steps) : steps[i].from = (IF i = 1 THEN "none" ELSE steps[i - 1].to)
  /\ IF status = "none" THEN steps = <<>> ELSE steps # <<>> /\ steps[Len(steps)].to = status
Chained == \A e \in Enrolling!Ids : Chain(trail[e], enrollments[e].status)

(* What a transaction may rely on where it is: the rows it locked are as   *)
(* it read them.                                                           *)
SeatStands(e) ==
  enrollments[e].seats => channel.open /\ (enrollments[e].by = Agent => channel.joined)
EnrollerOK(t) ==
  /\ t.kind \in {"request", "get", "review", "cancel", "redeem"} => t.id \in Enrolling!Ids
  /\ t.kind = "policy" => t.arg \in Enrolling!Modes
  /\ t.kind = "review" => t.by \in Owners
  /\ t.kind = "request" => enrollments[t.id].status = "none" /\ t.by # Nobody
  /\ \A e \in t.due : e \in Enrolling!Ids /\ Enrolling!Row(e) \in t.held /\ enrollments[e].status \in Enrolling!Open
  /\ \A e \in Enrolling!Ids : Enrolling!Row(e) \in t.held => enrollments[e].status # "none"
  /\ t.kind \in {"review", "cancel"} /\ t.pc = "commit" => Enrolling!Row(t.id) \in t.held
  /\ t.kind = "redeem" /\ t.pc \in {"seat", "workspace", "commit"} =>
       Enrolling!Row(t.id) \in t.held /\ enrollments[t.id].status = "ready_to_redeem"
  /\ t.kind = "redeem" /\ t.pc \in {"workspace", "commit"} =>
       SeatStands(t.id) /\ (enrollments[t.id].seats => Enrolling!Conversation \in t.shared)
  /\ t.kind \in {"leave", "archive"} /\ t.pc = "commit" => Enrolling!Conversation \in t.held
EnrollersApart(p, q) ==
  /\ p.held \cap (q.held \cup q.shared) = {}
  /\ p.kind = "request" /\ q.kind = "request" => p.id # q.id
Enrollers ==
  /\ \A s \in Sessions : EnrollerOK(tx[s])
  /\ \A s, o \in Sessions : s # o => EnrollersApart(tx[s], tx[o])

EnrollmentInv ==
  /\ Enrolling!TypeOK /\ Enrollers /\ Chained /\ Enrolling!PolicyGoverns /\ Enrolling!ActivatedWhileAllowed /\ Enrolling!OneAgent
  /\ \A e \in Enrolling!Ids : enrollments[e].status = "none" => enrollments[e].reviewed = Nobody

EnrollmentRecords ==
  [status : Enrolling!Statuses, by : Owners \cup {Agent, Nobody}, seats : BOOLEAN,
   expires : 0..MaxDays + 1, reviewed : Owners \cup {Nobody}]
LinkRecords == [from : Enrolling!Statuses, to : Enrolling!Statuses]
ChildRecords == [member : {"none", "active", "revoked"}, token : {"none", "live", "revoked"}, seated : BOOLEAN]
EnrollerKinds ==
  {"none", "policy", "request", "list", "get", "review", "cancel", "redeem",
   "disable", "token", "revoke", "demote", "leave", "archive"}
EnrollerPcs == {"none", "actor", "expire", "scope", "row", "seat", "target", "workspace", "commit"}
EnrollerArgs == {"none", "required", "automatic", "approve", "reject", "seats"}
EnrollerRecords ==
  [kind : EnrollerKinds, pc : EnrollerPcs, by : Owners \cup {Agent, Nobody}, id : {0} \cup Enrolling!Ids,
   at : 0..MaxDays, arg : EnrollerArgs, due : SUBSET Enrolling!Ids, held : SUBSET Enrolling!Rows, shared : SUBSET Enrolling!Rows,
   tries : 0..MaxRetries]

LEMMA EnrollmentTypes ==
  ASSUME Enrolling!TypeOK
  PROVE  /\ today \in 0..MaxDays /\ policy \in Enrolling!Modes /\ owners \subseteq Owners
         /\ inviter \in [active : BOOLEAN, token : BOOLEAN] /\ channel \in [open : BOOLEAN, joined : BOOLEAN]
         /\ enrollments \in [Enrolling!Ids -> EnrollmentRecords]
         /\ trail \in [Enrolling!Ids -> Seq(LinkRecords)]
         /\ children \in [Enrolling!Ids -> ChildRecords]
         /\ tx \in [Sessions -> EnrollerRecords]
         /\ granted \subseteq [policy : BOOLEAN, requester : BOOLEAN, seats : BOOLEAN, room : BOOLEAN]
         /\ redeemed \in [Enrolling!Ids -> 0..2] /\ aborted \in 0..MaxAborts /\ started \in 0..MaxAsked
BY DEF Enrolling!TypeOK, EnrollmentRecords, LinkRecords, ChildRecords, EnrollerRecords, EnrollerKinds, EnrollerPcs,
       EnrollerArgs

LEMMA EnrollmentTypesHold ==
  ASSUME /\ today' \in 0..MaxDays /\ policy' \in Enrolling!Modes /\ owners' \subseteq Owners
         /\ inviter' \in [active : BOOLEAN, token : BOOLEAN] /\ channel' \in [open : BOOLEAN, joined : BOOLEAN]
         /\ enrollments' \in [Enrolling!Ids -> EnrollmentRecords]
         /\ trail' \in [Enrolling!Ids -> Seq(LinkRecords)]
         /\ children' \in [Enrolling!Ids -> ChildRecords]
         /\ tx' \in [Sessions -> EnrollerRecords]
         /\ granted' \subseteq [policy : BOOLEAN, requester : BOOLEAN, seats : BOOLEAN, room : BOOLEAN]
         /\ redeemed' \in [Enrolling!Ids -> 0..2] /\ aborted' \in 0..MaxAborts /\ started' \in 0..MaxAsked
  PROVE  Enrolling!TypeOK'
BY DEF Enrolling!TypeOK, EnrollmentRecords, LinkRecords, ChildRecords, EnrollerRecords, EnrollerKinds, EnrollerPcs,
       EnrollerArgs

(* One field of a transaction changes, the others stay.                    *)
WithKind(t, v) == [t EXCEPT !.kind = v]
WithPc(t, v) == [t EXCEPT !.pc = v]
WithBy(t, v) == [t EXCEPT !.by = v]
WithId(t, v) == [t EXCEPT !.id = v]
WithAt(t, v) == [t EXCEPT !.at = v]
WithArg(t, v) == [t EXCEPT !.arg = v]
WithDue(t, v) == [t EXCEPT !.due = v]
WithHeld(t, v) == [t EXCEPT !.held = v]
WithShared(t, v) == [t EXCEPT !.shared = v]
WithTries(t, v) == [t EXCEPT !.tries = v]

LEMMA WithKindOK ==
  ASSUME NEW t \in EnrollerRecords, NEW v \in EnrollerKinds
  PROVE  /\ WithKind(t, v) \in EnrollerRecords /\ WithKind(t, v).kind = v
         /\ WithKind(t, v).pc = t.pc /\ WithKind(t, v).by = t.by /\ WithKind(t, v).id = t.id
         /\ WithKind(t, v).at = t.at /\ WithKind(t, v).arg = t.arg /\ WithKind(t, v).due = t.due
         /\ WithKind(t, v).held = t.held /\ WithKind(t, v).shared = t.shared /\ WithKind(t, v).tries = t.tries
BY DEF WithKind, EnrollerRecords

LEMMA WithPcOK ==
  ASSUME NEW t \in EnrollerRecords, NEW v \in EnrollerPcs
  PROVE  /\ WithPc(t, v) \in EnrollerRecords /\ WithPc(t, v).pc = v
         /\ WithPc(t, v).kind = t.kind /\ WithPc(t, v).by = t.by /\ WithPc(t, v).id = t.id
         /\ WithPc(t, v).at = t.at /\ WithPc(t, v).arg = t.arg /\ WithPc(t, v).due = t.due
         /\ WithPc(t, v).held = t.held /\ WithPc(t, v).shared = t.shared /\ WithPc(t, v).tries = t.tries
BY DEF WithPc, EnrollerRecords

LEMMA WithByOK ==
  ASSUME NEW t \in EnrollerRecords, NEW v \in Owners \cup {Agent, Nobody}
  PROVE  /\ WithBy(t, v) \in EnrollerRecords /\ WithBy(t, v).by = v
         /\ WithBy(t, v).kind = t.kind /\ WithBy(t, v).pc = t.pc /\ WithBy(t, v).id = t.id
         /\ WithBy(t, v).at = t.at /\ WithBy(t, v).arg = t.arg /\ WithBy(t, v).due = t.due
         /\ WithBy(t, v).held = t.held /\ WithBy(t, v).shared = t.shared /\ WithBy(t, v).tries = t.tries
BY DEF WithBy, EnrollerRecords

LEMMA WithIdOK ==
  ASSUME NEW t \in EnrollerRecords, NEW v \in {0} \cup Enrolling!Ids
  PROVE  /\ WithId(t, v) \in EnrollerRecords /\ WithId(t, v).id = v
         /\ WithId(t, v).kind = t.kind /\ WithId(t, v).pc = t.pc /\ WithId(t, v).by = t.by
         /\ WithId(t, v).at = t.at /\ WithId(t, v).arg = t.arg /\ WithId(t, v).due = t.due
         /\ WithId(t, v).held = t.held /\ WithId(t, v).shared = t.shared /\ WithId(t, v).tries = t.tries
BY DEF WithId, EnrollerRecords

LEMMA WithAtOK ==
  ASSUME NEW t \in EnrollerRecords, NEW v \in 0..MaxDays
  PROVE  /\ WithAt(t, v) \in EnrollerRecords /\ WithAt(t, v).at = v
         /\ WithAt(t, v).kind = t.kind /\ WithAt(t, v).pc = t.pc /\ WithAt(t, v).by = t.by
         /\ WithAt(t, v).id = t.id /\ WithAt(t, v).arg = t.arg /\ WithAt(t, v).due = t.due
         /\ WithAt(t, v).held = t.held /\ WithAt(t, v).shared = t.shared /\ WithAt(t, v).tries = t.tries
BY DEF WithAt, EnrollerRecords

LEMMA WithArgOK ==
  ASSUME NEW t \in EnrollerRecords, NEW v \in EnrollerArgs
  PROVE  /\ WithArg(t, v) \in EnrollerRecords /\ WithArg(t, v).arg = v
         /\ WithArg(t, v).kind = t.kind /\ WithArg(t, v).pc = t.pc /\ WithArg(t, v).by = t.by
         /\ WithArg(t, v).id = t.id /\ WithArg(t, v).at = t.at /\ WithArg(t, v).due = t.due
         /\ WithArg(t, v).held = t.held /\ WithArg(t, v).shared = t.shared /\ WithArg(t, v).tries = t.tries
BY DEF WithArg, EnrollerRecords

LEMMA WithDueOK ==
  ASSUME NEW t \in EnrollerRecords, NEW v, v \subseteq Enrolling!Ids
  PROVE  /\ WithDue(t, v) \in EnrollerRecords /\ WithDue(t, v).due = v
         /\ WithDue(t, v).kind = t.kind /\ WithDue(t, v).pc = t.pc /\ WithDue(t, v).by = t.by
         /\ WithDue(t, v).id = t.id /\ WithDue(t, v).at = t.at /\ WithDue(t, v).arg = t.arg
         /\ WithDue(t, v).held = t.held /\ WithDue(t, v).shared = t.shared /\ WithDue(t, v).tries = t.tries
BY DEF WithDue, EnrollerRecords

LEMMA WithHeldOK ==
  ASSUME NEW t \in EnrollerRecords, NEW v, v \subseteq Enrolling!Rows
  PROVE  /\ WithHeld(t, v) \in EnrollerRecords /\ WithHeld(t, v).held = v
         /\ WithHeld(t, v).kind = t.kind /\ WithHeld(t, v).pc = t.pc /\ WithHeld(t, v).by = t.by
         /\ WithHeld(t, v).id = t.id /\ WithHeld(t, v).at = t.at /\ WithHeld(t, v).arg = t.arg
         /\ WithHeld(t, v).due = t.due /\ WithHeld(t, v).shared = t.shared /\ WithHeld(t, v).tries = t.tries
BY DEF WithHeld, EnrollerRecords

LEMMA WithSharedOK ==
  ASSUME NEW t \in EnrollerRecords, NEW v, v \subseteq Enrolling!Rows
  PROVE  /\ WithShared(t, v) \in EnrollerRecords /\ WithShared(t, v).shared = v
         /\ WithShared(t, v).kind = t.kind /\ WithShared(t, v).pc = t.pc /\ WithShared(t, v).by = t.by
         /\ WithShared(t, v).id = t.id /\ WithShared(t, v).at = t.at /\ WithShared(t, v).arg = t.arg
         /\ WithShared(t, v).due = t.due /\ WithShared(t, v).held = t.held /\ WithShared(t, v).tries = t.tries
BY DEF WithShared, EnrollerRecords

LEMMA WithTriesOK ==
  ASSUME NEW t \in EnrollerRecords, NEW v \in 0..MaxRetries
  PROVE  /\ WithTries(t, v) \in EnrollerRecords /\ WithTries(t, v).tries = v
         /\ WithTries(t, v).kind = t.kind /\ WithTries(t, v).pc = t.pc /\ WithTries(t, v).by = t.by
         /\ WithTries(t, v).id = t.id /\ WithTries(t, v).at = t.at /\ WithTries(t, v).arg = t.arg
         /\ WithTries(t, v).due = t.due /\ WithTries(t, v).held = t.held /\ WithTries(t, v).shared = t.shared
BY DEF WithTries, EnrollerRecords

LEMMA NoEnroller ==
  /\ Enrolling!NoTx \in EnrollerRecords /\ EnrollerOK(Enrolling!NoTx) /\ EnrollerOK(Enrolling!NoTx)'
  /\ Enrolling!NoTx.kind = "none" /\ Enrolling!NoTx.held = {} /\ Enrolling!NoTx.shared = {} /\ Enrolling!NoTx.due = {} /\ Enrolling!NoTx.pc = "none"
  /\ Enrolling!NoTx.id = 0 /\ Enrolling!NoTx.by = Nobody /\ Enrolling!NoTx.arg = "none"
<1>1. Enrolling!NoTx \in EnrollerRecords
  BY EnrollmentBounds DEF Enrolling!NoTx, Enrolling!Asked, EnrollerRecords, EnrollerKinds, EnrollerPcs, EnrollerArgs
<1> QED BY <1>1 DEF Enrolling!NoTx, Enrolling!Asked, EnrollerOK

LEMMA EnrollmentInit == Enrolling!Init => EnrollmentInv
<1> SUFFICES ASSUME Enrolling!Init PROVE EnrollmentInv
  OBVIOUS
<1> USE EnrollmentBounds
<1>1. \A e \in Enrolling!Ids : enrollments[e] = Enrolling!NotRequested \/ enrollments[e] = Enrolling!Requested(Asking)
                     \/ enrollments[e] = Enrolling!Requested(Agent)
  BY DEF Enrolling!Init
<1>2. Enrolling!NotRequested \in EnrollmentRecords /\ Enrolling!Requested(Asking) \in EnrollmentRecords
      /\ Enrolling!Requested(Agent) \in EnrollmentRecords
  BY DEF Enrolling!NotRequested, Enrolling!Requested, EnrollmentRecords, Enrolling!Statuses
<1>3. enrollments \in [Enrolling!Ids -> EnrollmentRecords]
  BY <1>1, <1>2 DEF Enrolling!Init
<1>4. Enrolling!TypeOK
  <2>1. tx \in [Sessions -> EnrollerRecords]
    BY NoEnroller DEF Enrolling!Init
  <2>2. <<>> \in Seq(LinkRecords) /\ <<[from |-> "none", to |-> "pending_approval"]>> \in Seq(LinkRecords)
    BY DEF LinkRecords, Enrolling!Statuses
  <2>3. trail \in [Enrolling!Ids -> Seq(LinkRecords)]
    BY <2>2 DEF Enrolling!Init
  <2>4. children \in [Enrolling!Ids -> ChildRecords]
    BY DEF Enrolling!Init, ChildRecords
  <2>5. /\ today \in 0..MaxDays /\ policy \in Enrolling!Modes /\ owners \subseteq Owners
        /\ inviter \in [active : BOOLEAN, token : BOOLEAN] /\ channel \in [open : BOOLEAN, joined : BOOLEAN]
        /\ granted = {} /\ redeemed \in [Enrolling!Ids -> 0..2] /\ aborted \in 0..MaxAborts /\ started \in 0..MaxAsked
    BY DEF Enrolling!Init, Enrolling!Modes
  <2> QED BY <1>3, <2>1, <2>3, <2>4, <2>5 DEF Enrolling!TypeOK, EnrollmentRecords, LinkRecords, ChildRecords,
             EnrollerRecords, EnrollerKinds, EnrollerPcs, EnrollerArgs
<1>5. Enrollers
  BY NoEnroller DEF Enrolling!Init, Enrollers, EnrollersApart
<1>6. Chained
  <2>1. Chain(<<>>, "none")
    BY DEF Chain
  <2>2. Chain(<<[from |-> "none", to |-> "pending_approval"]>>, "pending_approval")
    BY DEF Chain
  <2>3. Enrolling!NotRequested.status = "none" /\ Enrolling!Requested(Asking).status = "pending_approval"
        /\ Enrolling!Requested(Agent).status = "pending_approval"
    BY DEF Enrolling!NotRequested, Enrolling!Requested
  <2> QED BY <1>1, <2>1, <2>2, <2>3 DEF Enrolling!Init, Chained
<1>7. \A e \in Enrolling!Ids : enrollments[e].status \in {"none", "pending_approval"} /\ enrollments[e].reviewed = Nobody
  BY <1>1 DEF Enrolling!NotRequested, Enrolling!Requested
<1>8. Enrolling!PolicyGoverns /\ Enrolling!ActivatedWhileAllowed
  BY <1>7 DEF Enrolling!PolicyGoverns, Enrolling!ActivatedWhileAllowed, Enrolling!Init
<1>9. Enrolling!OneAgent
  <2>1. \A e \in Enrolling!Ids : redeemed[e] <= 1 /\ (redeemed[e] = 1 <=> enrollments[e].status = "active")
    BY <1>7 DEF Enrolling!Init
  <2>2. \A e \in Enrolling!Ids : children[e].member = "none"
    BY DEF Enrolling!Init
  <2>3. {e \in Enrolling!Ids : children[e].member = "active"} = {}
    BY <2>2
  <2>4. Enrolling!activeMembers <= MaxTeam
    <3>1. Enrolling!activeMembers = Cardinality(Owners) + 1 + Cardinality({})
      BY <2>3, EnrollingSize DEF Enrolling!activeMembers, Enrolling!Init
    <3>2. Cardinality({}) = 0 /\ Cardinality(Owners) \in Nat
      BY FS_EmptySet, FS_CardinalityType
    <3> QED BY <3>1, <3>2
  <2> QED BY <2>1, <2>2, <2>4 DEF Enrolling!OneAgent
<1> QED BY <1>4, <1>5, <1>6, <1>7, <1>8, <1>9 DEF EnrollmentInv

-----------------------------------------------------------------------------
(* What a step of one transaction leaves to the others.                    *)
LeavesAlone(t) ==
  /\ \A e \in Enrolling!Ids : Enrolling!Row(e) \in t.held \/ (t.kind = "request" /\ t.id = e) => enrollments'[e] = enrollments[e]
  /\ Enrolling!Conversation \in t.shared => channel' = channel

LEMMA EnrollerStays ==
  ASSUME NEW t, EnrollerOK(t), LeavesAlone(t)
  PROVE  EnrollerOK(t)'
<1>1. t.kind = "request" => enrollments'[t.id].status = "none"
  BY DEF EnrollerOK, LeavesAlone
<1>2. \A e \in t.due : e \in Enrolling!Ids /\ Enrolling!Row(e) \in t.held /\ enrollments'[e].status \in Enrolling!Open
  BY DEF EnrollerOK, LeavesAlone
<1>3. t.kind = "redeem" /\ t.pc \in {"seat", "workspace", "commit"} =>
        Enrolling!Row(t.id) \in t.held /\ enrollments'[t.id].status = "ready_to_redeem"
  BY DEF EnrollerOK, LeavesAlone
<1>4. t.kind = "redeem" /\ t.pc \in {"workspace", "commit"} =>
        SeatStands(t.id)' /\ (enrollments'[t.id].seats => Enrolling!Conversation \in t.shared)
  <2> SUFFICES ASSUME t.kind = "redeem", t.pc \in {"workspace", "commit"}
               PROVE  SeatStands(t.id)' /\ (enrollments'[t.id].seats => Enrolling!Conversation \in t.shared)
    OBVIOUS
  <2>1. enrollments'[t.id] = enrollments[t.id]
    BY DEF EnrollerOK, LeavesAlone
  <2> QED BY <2>1 DEF EnrollerOK, LeavesAlone, SeatStands
<1>5. \A e \in Enrolling!Ids : Enrolling!Row(e) \in t.held => enrollments'[e].status # "none"
  BY DEF EnrollerOK, LeavesAlone
<1> QED BY <1>1, <1>2, <1>3, <1>4, <1>5 DEF EnrollerOK

LEMMA EnrollerOf ==
  ASSUME EnrollmentInv, NEW s \in Sessions
  PROVE  /\ tx[s] \in EnrollerRecords /\ EnrollerOK(tx[s])
         /\ \A o \in Sessions \ {s} : EnrollersApart(tx[s], tx[o]) /\ EnrollersApart(tx[o], tx[s])
BY EnrollmentTypes DEF EnrollmentInv, Enrollers

LEMMA EnrollersStep ==
  ASSUME EnrollmentInv, NEW s \in Sessions, NEW x \in EnrollerRecords, Enrolling!Goes(s, x), EnrollerOK(x)',
         \A o \in Sessions \ {s} : EnrollersApart(x, tx[o]) /\ EnrollersApart(tx[o], x),
         \A o \in Sessions \ {s} : LeavesAlone(tx[o])
  PROVE  Enrollers' /\ tx' \in [Sessions -> EnrollerRecords]
<1>1. tx \in [Sessions -> EnrollerRecords] /\ Enrollers /\ tx' = [tx EXCEPT ![s] = x]
  BY EnrollmentTypes DEF EnrollmentInv, Enrolling!Goes
<1>2. (\A o \in Sessions \ {s} : tx'[o] = tx[o]) /\ tx'[s] = x
  BY <1>1
<1>3. ASSUME NEW o \in Sessions PROVE EnrollerOK(tx[o])'
  <2>1. CASE o = s
    <3>1. PICK y : y = tx'[o]
      OBVIOUS
    <3>2. EnrollerOK(y)'
      BY <3>1, <2>1, <1>2
    <3> QED BY <3>1, <3>2
  <2>2. CASE o # s
    <3>1. PICK y : y = tx[o]
      OBVIOUS
    <3>2. EnrollerOK(y) /\ LeavesAlone(y)
      BY <3>1, <2>2, <1>1 DEF Enrollers
    <3>3. EnrollerOK(y)'
      BY <3>2, EnrollerStays
    <3>4. y = tx'[o]
      BY <3>1, <1>2, <2>2
    <3> QED BY <3>3, <3>4
  <2> QED BY <2>1, <2>2
<1>4. \A a, b \in Sessions : a # b => EnrollersApart(tx[a], tx[b])'
  BY <1>1, <1>2 DEF Enrollers, EnrollersApart
<1> QED BY <1>1, <1>3, <1>4 DEF Enrollers

LEMMA Untouched ==
  ASSUME UNCHANGED enrollments, UNCHANGED channel, NEW t
  PROVE  LeavesAlone(t)
BY DEF LeavesAlone

(* A statement that only takes locks or reads.                             *)
LEMMA EnrollerLocks ==
  ASSUME EnrollmentInv, NEW s \in Sessions, NEW x \in EnrollerRecords, Enrolling!Goes(s, x), EnrollerOK(x),
         \A o \in Sessions \ {s} : EnrollersApart(x, tx[o]) /\ EnrollersApart(tx[o], x),
         UNCHANGED Enrolling!Data, today' \in 0..MaxDays, aborted' \in 0..MaxAborts, started' \in 0..MaxAsked
  PROVE  EnrollmentInv' /\ Enrolling!EndedIsFinal
<1>1. UNCHANGED policy /\ UNCHANGED owners /\ UNCHANGED inviter /\ UNCHANGED channel /\ UNCHANGED enrollments
      /\ UNCHANGED trail /\ UNCHANGED children /\ UNCHANGED granted /\ UNCHANGED redeemed
  BY DEF Enrolling!Data
<1>2. EnrollerOK(x)'
  BY <1>1, Untouched, EnrollerStays
<1>3. Enrollers' /\ tx' \in [Sessions -> EnrollerRecords]
  BY <1>1, <1>2, Untouched, EnrollersStep
<1>4. Enrolling!TypeOK'
  BY <1>1, <1>3, EnrollmentTypes, EnrollmentTypesHold DEF EnrollmentInv
<1>5. Chained' /\ Enrolling!PolicyGoverns' /\ Enrolling!ActivatedWhileAllowed' /\ Enrolling!OneAgent' /\ Enrolling!EndedIsFinal
      /\ \A e \in Enrolling!Ids : enrollments'[e].status = "none" => enrollments'[e].reviewed = Nobody
  BY <1>1, EnrollingSize DEF EnrollmentInv, Chained, Enrolling!PolicyGoverns, Enrolling!ActivatedWhileAllowed,
                             Enrolling!OneAgent, Enrolling!activeMembers, Enrolling!EndedIsFinal
<1> QED BY <1>3, <1>4, <1>5 DEF EnrollmentInv

(* Transactions that begin.                                                *)
LEMMA EnrollerBegins ==
  ASSUME EnrollmentInv, NEW s \in Sessions, NEW k \in EnrollerKinds, NEW p \in EnrollerPcs,
         NEW b \in Owners \cup {Agent, Nobody}, NEW i \in {0} \cup Enrolling!Ids, NEW a \in EnrollerArgs,
         Enrolling!Starts(s, Enrolling!Asked(k, p, b, i, a)),
         p \notin {"seat", "workspace", "commit"},
         k \in {"request", "get", "review", "cancel", "redeem"} => i \in Enrolling!Ids,
         k = "policy" => a \in Enrolling!Modes,
         k = "review" => b \in Owners,
         k = "request" => /\ enrollments[i].status = "none" /\ b # Nobody
                          /\ \A o \in Sessions : ~(tx[o].kind = "request" /\ tx[o].id = i)
  PROVE  EnrollmentInv' /\ Enrolling!EndedIsFinal
<1> DEFINE r == Enrolling!Asked(k, p, b, i, a)
           x == WithAt(r, today)
<1>1. today \in 0..MaxDays /\ aborted \in 0..MaxAborts /\ started \in 0..MaxAsked
  BY EnrollmentTypes DEF EnrollmentInv
<1>2. r \in EnrollerRecords /\ r.kind = k /\ r.pc = p /\ r.by = b /\ r.id = i /\ r.arg = a
      /\ r.held = {} /\ r.shared = {} /\ r.due = {}
  BY EnrollmentBounds DEF Enrolling!Asked, EnrollerRecords
<1>3. Enrolling!Goes(s, x) /\ UNCHANGED Enrolling!Data /\ today' \in 0..MaxDays /\ aborted' \in 0..MaxAborts
      /\ started' \in 0..MaxAsked
  BY <1>1, EnrollmentBounds DEF Enrolling!Starts, WithAt
<1> HIDE DEF r
<1>4. x \in EnrollerRecords /\ x.kind = k /\ x.pc = p /\ x.by = b /\ x.id = i /\ x.arg = a
      /\ x.held = {} /\ x.shared = {} /\ x.due = {}
  BY <1>1, <1>2, WithAtOK
<1> HIDE DEF x
<1>5. EnrollerOK(x)
  BY <1>4 DEF EnrollerOK
<1>6. \A o \in Sessions \ {s} : EnrollersApart(x, tx[o]) /\ EnrollersApart(tx[o], x)
  BY <1>4 DEF EnrollersApart
<1> QED BY <1>3, <1>4, <1>5, <1>6, EnrollerLocks

LEMMA AsksKeep ==
  ASSUME EnrollmentInv, NEW s \in Sessions, Enrolling!Asks(s)
  PROVE  EnrollmentInv' /\ Enrolling!EndedIsFinal
<1> USE EnrollmentBounds DEF EnrollerKinds, EnrollerPcs, EnrollerArgs
<1>1. ASSUME NEW o \in Owners, NEW m \in Enrolling!Modes, Enrolling!SetPolicy(s, o, m) PROVE EnrollmentInv' /\ Enrolling!EndedIsFinal
  <2>1. Enrolling!Starts(s, Enrolling!Asked("policy", "actor", o, 0, m)) /\ m \in EnrollerArgs
    BY <1>1 DEF Enrolling!SetPolicy, Enrolling!Modes
  <2> QED BY <2>1, EnrollerBegins
<1>2. ASSUME NEW who \in {Asking, Agent}, NEW e \in Enrolling!Ids, NEW a \in {"none", "seats"}, Enrolling!Request(s, who, e, a)
      PROVE  EnrollmentInv' /\ Enrolling!EndedIsFinal
  <2>1. Enrolling!Starts(s, Enrolling!Asked("request", "actor", who, e, a))
    BY <1>2 DEF Enrolling!Request
  <2>2. enrollments[e].status = "none" /\ \A o \in Sessions : ~(tx[o].kind = "request" /\ tx[o].id = e)
    BY <1>2 DEF Enrolling!Request
  <2>3. who \in Owners \cup {Agent, Nobody} /\ who # Nobody /\ e \in {0} \cup Enrolling!Ids /\ a \in EnrollerArgs
        /\ "request" \in EnrollerKinds /\ "actor" \in EnrollerPcs /\ e \in Enrolling!Ids
        /\ "request" # "policy" /\ "request" # "review" /\ "actor" \notin {"seat", "workspace", "commit"}
    OBVIOUS
  <2> HIDE DEF EnrollerKinds, EnrollerPcs, EnrollerArgs
  <2> QED BY <2>1, <2>2, <2>3, EnrollerBegins
<1>3. ASSUME NEW who \in {Asking, Agent}, Enrolling!List(s, who) PROVE EnrollmentInv' /\ Enrolling!EndedIsFinal
  <2>1. Enrolling!Starts(s, Enrolling!Asked("list", "actor", who, 0, "none"))
    BY <1>3 DEF Enrolling!List
  <2> QED BY <2>1, EnrollerBegins
<1>4. ASSUME NEW who \in {Asking, Agent}, NEW e \in Enrolling!Ids, NEW k \in {"get", "cancel"}, Enrolling!Reads(s, k, who, e)
      PROVE EnrollmentInv' /\ Enrolling!EndedIsFinal
  <2>1. Enrolling!Starts(s, Enrolling!Asked(k, "actor", who, e, "none"))
    BY <1>4 DEF Enrolling!Reads
  <2>2. who \in Owners \cup {Agent, Nobody} /\ e \in {0} \cup Enrolling!Ids /\ k \in EnrollerKinds
        /\ "none" \in EnrollerArgs /\ "actor" \in EnrollerPcs
        /\ k # "policy" /\ k # "review" /\ k # "request" /\ "actor" \notin {"seat", "workspace", "commit"}
        /\ e \in Enrolling!Ids
    OBVIOUS
  <2> HIDE DEF EnrollerKinds, EnrollerPcs, EnrollerArgs
  <2> QED BY <2>1, <2>2, EnrollerBegins
<1>5. ASSUME NEW o \in Owners, NEW e \in Enrolling!Ids, NEW d \in {"approve", "reject"}, Enrolling!Review(s, o, e, d)
      PROVE  EnrollmentInv' /\ Enrolling!EndedIsFinal
  <2>1. Enrolling!Starts(s, Enrolling!Asked("review", "actor", o, e, d))
    BY <1>5 DEF Enrolling!Review
  <2>2. o \in Owners \cup {Agent, Nobody} /\ e \in {0} \cup Enrolling!Ids /\ "review" \in EnrollerKinds
        /\ d \in EnrollerArgs /\ "actor" \in EnrollerPcs /\ e \in Enrolling!Ids /\ o \in Owners
        /\ "review" # "policy" /\ "review" # "request" /\ "actor" \notin {"seat", "workspace", "commit"}
    OBVIOUS
  <2> HIDE DEF EnrollerKinds, EnrollerPcs, EnrollerArgs
  <2> QED BY <2>1, <2>2, EnrollerBegins
<1>6. ASSUME NEW e \in Enrolling!Ids, Enrolling!Redeem(s, e) PROVE EnrollmentInv' /\ Enrolling!EndedIsFinal
  <2>1. Enrolling!Starts(s, Enrolling!Asked("redeem", "row", Nobody, e, "none"))
    BY <1>6 DEF Enrolling!Redeem
  <2>2. Nobody \in Owners \cup {Agent, Nobody} /\ e \in {0} \cup Enrolling!Ids /\ "redeem" \in EnrollerKinds
        /\ "none" \in EnrollerArgs /\ "row" \in EnrollerPcs
        /\ "redeem" # "policy" /\ "redeem" # "review" /\ "redeem" # "request"
        /\ "row" \notin {"seat", "workspace", "commit"} /\ e \in Enrolling!Ids
    OBVIOUS
  <2> HIDE DEF EnrollerKinds, EnrollerPcs, EnrollerArgs
  <2> QED BY <2>1, <2>2, EnrollerBegins
<1>7. ASSUME NEW o \in Owners, NEW e \in {0} \cup Enrolling!Ids, NEW k \in {"disable", "token", "revoke"},
             (Enrolling!DisableAgent(s, o, e) /\ k = "disable") \/ Enrolling!AgentTokens(s, k, o, e)
      PROVE  EnrollmentInv' /\ Enrolling!EndedIsFinal
  <2>1. Enrolling!Starts(s, Enrolling!Asked(k, "target", o, e, "none"))
    BY <1>7 DEF Enrolling!DisableAgent, Enrolling!AgentTokens
  <2> QED BY <2>1, EnrollerBegins
<1>8. ASSUME Enrolling!Demote(s) PROVE EnrollmentInv' /\ Enrolling!EndedIsFinal
  <2>1. Enrolling!Starts(s, Enrolling!Asked("demote", "target", Asking, 0, "none"))
    BY <1>8 DEF Enrolling!Demote
  <2> QED BY <2>1, EnrollerBegins
<1>9. ASSUME NEW k \in {"leave", "archive"}, Enrolling!Channel(s, k) PROVE EnrollmentInv' /\ Enrolling!EndedIsFinal
  <2>1. Enrolling!Starts(s, Enrolling!Asked(k, "target", Nobody, 0, "none"))
    BY <1>9 DEF Enrolling!Channel
  <2> QED BY <2>1, EnrollerBegins
<1> QED BY <1>1, <1>2, <1>3, <1>4, <1>5, <1>6, <1>7, <1>8, <1>9 DEF Enrolling!Asks

-----------------------------------------------------------------------------
(* The statements that take locks.                                         *)

LEMMA EnrollerEnds ==
  ASSUME EnrollmentInv, NEW s \in Sessions, Enrolling!Ends(s), Enrolling!Locking
  PROVE  EnrollmentInv' /\ Enrolling!EndedIsFinal
<1>1. today' \in 0..MaxDays /\ aborted' \in 0..MaxAborts /\ started' \in 0..MaxAsked /\ UNCHANGED Enrolling!Data
  BY EnrollmentTypes DEF EnrollmentInv, Enrolling!Locking
<1>2. \A o \in Sessions \ {s} : EnrollersApart(Enrolling!NoTx, tx[o]) /\ EnrollersApart(tx[o], Enrolling!NoTx)
  BY NoEnroller DEF EnrollersApart
<1> QED BY <1>1, <1>2, NoEnroller, EnrollerLocks DEF Enrolling!Ends

LEMMA EnrollerMoves ==
  ASSUME EnrollmentInv, NEW s \in Sessions, NEW x \in EnrollerRecords, Enrolling!Goes(s, x), Enrolling!Locking, EnrollerOK(x),
         NEW H, NEW S, x.held = tx[s].held \cup H, x.shared = tx[s].shared \cup S,
         Enrolling!mayLock(s, H), Enrolling!mayShare(s, S), x.kind = tx[s].kind, x.id = tx[s].id
  PROVE  EnrollmentInv' /\ Enrolling!EndedIsFinal
<1>1. today' \in 0..MaxDays /\ aborted' \in 0..MaxAborts /\ started' \in 0..MaxAsked /\ UNCHANGED Enrolling!Data
  BY EnrollmentTypes DEF EnrollmentInv, Enrolling!Locking
<1>2. ASSUME NEW o \in Sessions \ {s} PROVE EnrollersApart(x, tx[o]) /\ EnrollersApart(tx[o], x)
  <2>1. EnrollersApart(tx[s], tx[o]) /\ EnrollersApart(tx[o], tx[s])
    BY EnrollerOf
  <2>2. (tx[o].held \cup tx[o].shared) \cap H = {} /\ tx[o].held \cap S = {}
    BY DEF Enrolling!mayLock, Enrolling!mayShare
  <2> QED BY <2>1, <2>2 DEF EnrollersApart
<1> QED BY <1>1, <1>2, EnrollerLocks

LEMMA NoRows ==
  ASSUME NEW s \in Sessions
  PROVE  Enrolling!mayLock(s, {}) /\ Enrolling!mayShare(s, {})
BY DEF Enrolling!mayLock, Enrolling!mayShare

LEMMA RowsOf ==
  /\ \A e \in Enrolling!Ids : Enrolling!Row(e) \in Enrolling!Rows /\ Enrolling!Child(e) \in Enrolling!Rows
  /\ Enrolling!Workspace \in Enrolling!Rows /\ Enrolling!Conversation \in Enrolling!Rows /\ Enrolling!InviterRow \in Enrolling!Rows
  /\ <<"open", 1>> \in Enrolling!Rows /\ <<"open", 2>> \in Enrolling!Rows
  /\ \A o : Enrolling!OwnerRow(o) \in Enrolling!Rows /\ Enrolling!AuthorityRow(o) \in Enrolling!Rows
  /\ \A e \in {0} \cup Enrolling!Ids : Enrolling!AgentRow(e) \in Enrolling!Rows
BY DEF Enrolling!Rows, Enrolling!OwnerRow, Enrolling!AuthorityRow, Enrolling!AgentRow

LEMMA RowsApart ==
  /\ \A e, f \in Enrolling!Ids : Enrolling!Row(e) = Enrolling!Row(f) => e = f
  /\ \A e \in Enrolling!Ids : Enrolling!Row(e) # Enrolling!Workspace /\ Enrolling!Row(e) # Enrolling!Conversation /\ Enrolling!Row(e) # Enrolling!InviterRow
  /\ \A e \in Enrolling!Ids : \A o : Enrolling!Row(e) # Enrolling!OwnerRow(o) /\ Enrolling!Row(e) # Enrolling!AuthorityRow(o)
  /\ \A e \in Enrolling!Ids : \A i : Enrolling!Row(e) # <<"open", i>> /\ Enrolling!Row(e) # Enrolling!Child(i) /\ Enrolling!Row(e) # Enrolling!AgentRow(i)
BY DEF Enrolling!Row, Enrolling!Workspace, Enrolling!Conversation, Enrolling!InviterRow, Enrolling!OwnerRow,
       Enrolling!AuthorityRow, Enrolling!Child, Enrolling!AgentRow

LEMMA RequireRequesterKeeps ==
  ASSUME EnrollmentInv, NEW s \in Sessions, Enrolling!requireRequester(s)
  PROVE  EnrollmentInv' /\ Enrolling!EndedIsFinal
<1> PICK t : t = tx[s]
  OBVIOUS
<1> PICK S : S = IF t.kind \in {"policy", "request", "review"} \/ (t.kind = "list" /\ t.by \in Owners)
                 THEN {Enrolling!AuthorityRow(t.by)} ELSE {}
  OBVIOUS
<1> PICK p : p = CASE t.kind \in {"policy", "request", "list"} -> "expire" [] OTHER -> "row"
  OBVIOUS
<1>1. t \in EnrollerRecords /\ EnrollerOK(t) /\ t.shared \subseteq Enrolling!Rows
  BY EnrollerOf DEF EnrollerRecords
<1> PICK h : h = t.shared \cup S
  OBVIOUS
<1> DEFINE a == WithPc(t, p)
           x == WithShared(a, h)
<1>2. t.pc = "actor" /\ Enrolling!mayShare(s, S) /\ Enrolling!Locking /\ (Enrolling!Ends(s) \/ Enrolling!Goes(s, x))
  BY DEF Enrolling!requireRequester, Enrolling!At, WithPc, WithShared
<1>3. p \in EnrollerPcs /\ p \in {"expire", "row"} /\ h \subseteq Enrolling!Rows
  BY <1>1, RowsOf DEF EnrollerPcs
<1>4. a \in EnrollerRecords /\ a.pc = p /\ a.kind = t.kind /\ a.by = t.by /\ a.id = t.id /\ a.arg = t.arg
      /\ a.due = t.due /\ a.held = t.held
  BY <1>1, <1>3, WithPcOK
<1> HIDE DEF a
<1>5. x \in EnrollerRecords /\ x.pc = p /\ x.kind = t.kind /\ x.by = t.by /\ x.id = t.id /\ x.arg = t.arg
      /\ x.due = t.due /\ x.held = t.held /\ x.shared = h
  BY <1>3, <1>4, WithSharedOK
<1> HIDE DEF x
<1>6. EnrollerOK(x)
  BY <1>1, <1>3, <1>5 DEF EnrollerOK
<1>7. CASE Enrolling!Goes(s, x)
  <2>1. x.held = t.held \cup {} /\ x.shared = t.shared \cup S
    BY <1>5
  <2> QED BY <1>2, <1>5, <1>6, <1>7, <2>1, NoRows, EnrollerMoves
<1> QED BY <1>2, <1>7, EnrollerEnds

LEMMA EnrollmentExpireKeeps ==
  ASSUME EnrollmentInv, NEW s \in Sessions, Enrolling!expireWorkspaceEnrollments(s)
  PROVE  EnrollmentInv' /\ Enrolling!EndedIsFinal
<1> PICK t : t = tx[s]
  OBVIOUS
<1> PICK d : d = Enrolling!Due(t)
  OBVIOUS
<1> PICK H : H = {Enrolling!Row(e) : e \in d}
  OBVIOUS
<1> PICK p : p = CASE t.kind = "policy" -> "workspace" [] t.kind = "request" -> "scope" [] OTHER -> "commit"
  OBVIOUS
<1> PICK h : h = t.held \cup H
  OBVIOUS
<1>1. t \in EnrollerRecords /\ EnrollerOK(t) /\ t.held \subseteq Enrolling!Rows
  BY EnrollerOf DEF EnrollerRecords
<1> DEFINE a == WithDue(t, d)
           b == WithHeld(a, h)
           x == WithPc(b, p)
<1>2. t.kind \in {"policy", "request", "list"} /\ Enrolling!mayLock(s, H) /\ Enrolling!Locking /\ Enrolling!Goes(s, x)
  BY DEF Enrolling!expireWorkspaceEnrollments, Enrolling!At, WithDue, WithHeld, WithPc
<1>3. d \subseteq Enrolling!Ids /\ h \subseteq Enrolling!Rows /\ p \in EnrollerPcs
      /\ \A e \in d : Enrolling!Row(e) \in h /\ enrollments[e].status \in Enrolling!Open
  BY <1>1, RowsOf DEF Enrolling!Due, EnrollerPcs
<1>4. a \in EnrollerRecords /\ a.due = d /\ a.kind = t.kind /\ a.by = t.by /\ a.id = t.id /\ a.arg = t.arg
      /\ a.held = t.held /\ a.shared = t.shared
  BY <1>1, <1>3, WithDueOK
<1> HIDE DEF a
<1>5. b \in EnrollerRecords /\ b.due = d /\ b.kind = t.kind /\ b.by = t.by /\ b.id = t.id /\ b.arg = t.arg
      /\ b.held = h /\ b.shared = t.shared
  BY <1>3, <1>4, WithHeldOK
<1> HIDE DEF b
<1>6. x \in EnrollerRecords /\ x.due = d /\ x.kind = t.kind /\ x.by = t.by /\ x.id = t.id /\ x.arg = t.arg
      /\ x.held = h /\ x.shared = t.shared \cup {}
  BY <1>3, <1>5, WithPcOK
<1> HIDE DEF x
<1>8. \A e \in Enrolling!Ids : Enrolling!Row(e) \in h => enrollments[e].status # "none"
  <2>1. \A e \in Enrolling!Ids : Enrolling!Row(e) \in H => e \in d
    BY <1>3, RowsApart
  <2>2. \A e \in d : enrollments[e].status # "none"
    BY <1>3 DEF Enrolling!Open
  <2>3. \A e \in Enrolling!Ids : Enrolling!Row(e) \in t.held => enrollments[e].status # "none"
    BY <1>1 DEF EnrollerOK
  <2> QED BY <2>1, <2>2, <2>3
<1>7. EnrollerOK(x)
  BY <1>1, <1>2, <1>3, <1>6, <1>8 DEF EnrollerOK
<1> QED BY <1>2, <1>6, <1>7, NoRows, EnrollerMoves

LEMMA ScopeKeeps ==
  ASSUME EnrollmentInv, NEW s \in Sessions, Enrolling!lockIdempotencyScope(s)
  PROVE  EnrollmentInv' /\ Enrolling!EndedIsFinal
<1> PICK t : t = tx[s]
  OBVIOUS
<1> PICK H : H = {<<"open", IF t.by = Agent THEN 1 ELSE 2>>}
  OBVIOUS
<1> PICK h : h = t.held \cup H
  OBVIOUS
<1>1. t \in EnrollerRecords /\ EnrollerOK(t) /\ t.held \subseteq Enrolling!Rows
  BY EnrollerOf DEF EnrollerRecords
<1> DEFINE a == WithPc(t, "workspace")
           x == WithHeld(a, h)
<1>2. t.kind = "request" /\ Enrolling!mayLock(s, H) /\ Enrolling!Locking /\ (Enrolling!Ends(s) \/ Enrolling!Goes(s, x))
  BY DEF Enrolling!lockIdempotencyScope, Enrolling!At, WithHeld, WithPc
<1>3. h \subseteq Enrolling!Rows /\ "workspace" \in EnrollerPcs
  BY <1>1, RowsOf DEF EnrollerPcs
<1>4. a \in EnrollerRecords /\ a.due = t.due /\ a.kind = t.kind /\ a.by = t.by /\ a.id = t.id /\ a.arg = t.arg
      /\ a.held = t.held /\ a.shared = t.shared
  BY <1>1, <1>3, WithPcOK
<1> HIDE DEF a
<1>5. x \in EnrollerRecords /\ x.due = t.due /\ x.kind = t.kind /\ x.by = t.by /\ x.id = t.id /\ x.arg = t.arg
      /\ x.held = h /\ x.shared = t.shared \cup {}
  BY <1>3, <1>4, WithHeldOK
<1> HIDE DEF x
<1>8. \A e \in Enrolling!Ids : Enrolling!Row(e) \in h => Enrolling!Row(e) \in t.held
  BY RowsApart
<1>6. EnrollerOK(x)
  BY <1>1, <1>2, <1>5, <1>8 DEF EnrollerOK
<1> QED BY <1>2, <1>5, <1>6, NoRows, EnrollerMoves, EnrollerEnds

LEMMA EnrLockWorkspaceKeeps ==
  ASSUME EnrollmentInv, NEW s \in Sessions, Enrolling!LockWorkspace(s)
  PROVE  EnrollmentInv' /\ Enrolling!EndedIsFinal
<1> PICK t : t = tx[s]
  OBVIOUS
<1> PICK H : H = {Enrolling!Workspace}
  OBVIOUS
<1> PICK h : h = t.held \cup H
  OBVIOUS
<1>1. t \in EnrollerRecords /\ EnrollerOK(t) /\ t.held \subseteq Enrolling!Rows
  BY EnrollerOf DEF EnrollerRecords
<1> DEFINE a == WithPc(t, "commit")
           x == WithHeld(a, h)
<1>2. t.kind \in {"policy", "request", "redeem", "disable", "demote"} /\ t.pc = "workspace"
      /\ Enrolling!mayLock(s, H) /\ Enrolling!Locking /\ Enrolling!Goes(s, x)
  BY DEF Enrolling!LockWorkspace, Enrolling!At, WithHeld, WithPc
<1>3. h \subseteq Enrolling!Rows /\ "commit" \in EnrollerPcs
  BY <1>1, RowsOf DEF EnrollerPcs
<1>4. a \in EnrollerRecords /\ a.due = t.due /\ a.kind = t.kind /\ a.by = t.by /\ a.id = t.id /\ a.arg = t.arg
      /\ a.held = t.held /\ a.shared = t.shared /\ a.pc = "commit"
  BY <1>1, <1>3, WithPcOK
<1> HIDE DEF a
<1>5. x \in EnrollerRecords /\ x.due = t.due /\ x.kind = t.kind /\ x.by = t.by /\ x.id = t.id /\ x.arg = t.arg
      /\ x.held = h /\ x.shared = t.shared \cup {} /\ x.pc = "commit"
  BY <1>3, <1>4, WithHeldOK
<1> HIDE DEF x
<1>8. \A e \in Enrolling!Ids : Enrolling!Row(e) \in h => Enrolling!Row(e) \in t.held
  BY RowsApart
<1>6. EnrollerOK(x)
  BY <1>1, <1>2, <1>5, <1>8 DEF EnrollerOK
<1> QED BY <1>2, <1>5, <1>6, NoRows, EnrollerMoves

LEMMA SeatKeeps ==
  ASSUME EnrollmentInv, NEW s \in Sessions, Enrolling!requireSeatAuthority(s)
  PROVE  EnrollmentInv' /\ Enrolling!EndedIsFinal
<1> PICK t : t = tx[s]
  OBVIOUS
<1> PICK S : S = IF enrollments[t.id].seats THEN {Enrolling!Conversation} ELSE {}
  OBVIOUS
<1> PICK h : h = t.shared \cup S
  OBVIOUS
<1>1. t \in EnrollerRecords /\ EnrollerOK(t) /\ t.shared \subseteq Enrolling!Rows
  BY EnrollerOf DEF EnrollerRecords
<1> DEFINE a == WithPc(t, "workspace")
           x == WithShared(a, h)
<1>2. t.kind = "redeem" /\ t.pc = "seat" /\ Enrolling!mayShare(s, S) /\ Enrolling!Locking
      /\ (Enrolling!Ends(s) \/ (SeatStands(t.id) /\ Enrolling!Goes(s, x)))
  BY DEF Enrolling!requireSeatAuthority, Enrolling!At, WithShared, WithPc, SeatStands
<1>3. h \subseteq Enrolling!Rows /\ "workspace" \in EnrollerPcs
  BY <1>1, RowsOf DEF EnrollerPcs
<1>4. a \in EnrollerRecords /\ a.due = t.due /\ a.kind = t.kind /\ a.by = t.by /\ a.id = t.id /\ a.arg = t.arg
      /\ a.held = t.held /\ a.pc = "workspace"
  BY <1>1, <1>3, WithPcOK
<1> HIDE DEF a
<1>5. x \in EnrollerRecords /\ x.due = t.due /\ x.kind = t.kind /\ x.by = t.by /\ x.id = t.id /\ x.arg = t.arg
      /\ x.held = t.held \cup {} /\ x.shared = h /\ x.pc = "workspace"
  BY <1>3, <1>4, WithSharedOK
<1> HIDE DEF x
<1>7. enrollments[t.id].seats => Enrolling!Conversation \in h
  OBVIOUS
<1>6. SeatStands(t.id) => EnrollerOK(x)
  BY <1>1, <1>2, <1>5, <1>7 DEF EnrollerOK
<1> QED BY <1>2, <1>5, <1>6, NoRows, EnrollerMoves, EnrollerEnds

LEMMA EnrLockTargetKeeps ==
  ASSUME EnrollmentInv, NEW s \in Sessions, Enrolling!LockTarget(s)
  PROVE  EnrollmentInv' /\ Enrolling!EndedIsFinal
<1> PICK t : t = tx[s]
  OBVIOUS
<1> PICK H : H = CASE t.kind = "disable" -> {Enrolling!AgentRow(t.id)} [] t.kind = "demote" -> {Enrolling!OwnerRow(t.by)}
                   [] t.kind \in {"leave", "archive"} -> {Enrolling!Conversation} [] OTHER -> {Enrolling!Workspace}
  OBVIOUS
<1> PICK h : h = t.held \cup H
  OBVIOUS
<1> PICK p : p = IF t.kind \in {"disable", "demote"} THEN "workspace" ELSE "commit"
  OBVIOUS
<1>1. t \in EnrollerRecords /\ EnrollerOK(t) /\ t.held \subseteq Enrolling!Rows /\ t.id \in {0} \cup Enrolling!Ids
  BY EnrollerOf DEF EnrollerRecords
<1> DEFINE a == WithHeld(t, h)
           x == WithPc(a, p)
<1>2. t.kind \in {"disable", "demote", "token", "revoke", "leave", "archive"}
      /\ Enrolling!mayLock(s, H) /\ Enrolling!Locking /\ Enrolling!Goes(s, x)
  BY DEF Enrolling!LockTarget, Enrolling!At, WithHeld, WithPc
<1>3. H \subseteq Enrolling!Rows /\ p \in EnrollerPcs /\ (t.kind \in {"leave", "archive"} => Enrolling!Conversation \in H)
  BY <1>1, RowsOf DEF EnrollerPcs
<1>4. a \in EnrollerRecords /\ a.due = t.due /\ a.kind = t.kind /\ a.by = t.by /\ a.id = t.id /\ a.arg = t.arg
      /\ a.held = h /\ a.shared = t.shared
  BY <1>1, <1>3, WithHeldOK
<1> HIDE DEF a
<1>5. x \in EnrollerRecords /\ x.due = t.due /\ x.kind = t.kind /\ x.by = t.by /\ x.id = t.id /\ x.arg = t.arg
      /\ x.held = h /\ x.shared = t.shared \cup {} /\ x.pc = p
  BY <1>3, <1>4, WithPcOK
<1> HIDE DEF x
<1>8. \A e \in Enrolling!Ids : Enrolling!Row(e) \in h => Enrolling!Row(e) \in t.held
  BY RowsApart
<1>6. EnrollerOK(x)
  BY <1>1, <1>2, <1>3, <1>5, <1>8 DEF EnrollerOK
<1> QED BY <1>2, <1>5, <1>6, NoRows, EnrollerMoves

LEMMA EnrAbortsKeeps ==
  ASSUME EnrollmentInv, NEW s \in Sessions, Enrolling!Aborts(s)
  PROVE  EnrollmentInv' /\ Enrolling!EndedIsFinal
<1> PICK t : t = tx[s]
  OBVIOUS
<1>1. t \in EnrollerRecords /\ EnrollerOK(t)
  BY EnrollerOf
<1>2. today \in 0..MaxDays /\ aborted \in 0..MaxAborts /\ started \in 0..MaxAsked
  BY EnrollmentTypes DEF EnrollmentInv
<1>3. aborted' \in 0..MaxAborts /\ started' \in 0..MaxAsked /\ today' \in 0..MaxDays /\ UNCHANGED Enrolling!Data
  BY <1>2, EnrollmentBounds DEF Enrolling!Aborts
<1>4. CASE Enrolling!Ends(s)
  <2>1. \A o \in Sessions \ {s} : EnrollersApart(Enrolling!NoTx, tx[o]) /\ EnrollersApart(tx[o], Enrolling!NoTx)
    BY NoEnroller DEF EnrollersApart
  <2> QED BY <1>3, <1>4, <2>1, NoEnroller, EnrollerLocks DEF Enrolling!Ends
<1>5. ASSUME NEW p \in {"row", "target", "actor"}, t.tries < MaxRetries,
             Enrolling!Goes(s, [Enrolling!Asked(t.kind, p, t.by, t.id, t.arg) EXCEPT !.at = today, !.tries = t.tries + 1])
      PROVE  EnrollmentInv' /\ Enrolling!EndedIsFinal
  <2> PICK n : n = t.tries + 1
    OBVIOUS
  <2> DEFINE r == Enrolling!Asked(t.kind, p, t.by, t.id, t.arg)
             b == WithAt(r, today)
             x == WithTries(b, n)
  <2>1. Enrolling!Goes(s, x)
    <3>2. x = [r EXCEPT !.at = today, !.tries = t.tries + 1]
      BY DEF WithAt, WithTries
    <3> QED BY <1>5, <3>2
  <2>2. n \in 0..MaxRetries /\ p \in EnrollerPcs
    BY <1>1, <1>5, EnrollmentBounds DEF EnrollerRecords, EnrollerPcs
  <2>3. r \in EnrollerRecords /\ r.kind = t.kind /\ r.pc = p /\ r.by = t.by /\ r.id = t.id /\ r.arg = t.arg
        /\ r.held = {} /\ r.shared = {} /\ r.due = {}
    BY <1>1, <2>2, EnrollmentBounds DEF Enrolling!Asked, EnrollerRecords
  <2> HIDE DEF r
  <2>4. b \in EnrollerRecords /\ b.kind = t.kind /\ b.pc = p /\ b.by = t.by /\ b.id = t.id /\ b.arg = t.arg
        /\ b.held = {} /\ b.shared = {} /\ b.due = {}
    BY <1>2, <2>3, WithAtOK
  <2> HIDE DEF b
  <2>5. x \in EnrollerRecords /\ x.kind = t.kind /\ x.pc = p /\ x.by = t.by /\ x.id = t.id /\ x.arg = t.arg
        /\ x.held = {} /\ x.shared = {} /\ x.due = {}
    BY <2>2, <2>4, WithTriesOK
  <2> HIDE DEF x
  <2>6. EnrollerOK(x)
    BY <1>1, <1>5, <2>5 DEF EnrollerOK
  <2>7. \A o \in Sessions \ {s} : EnrollersApart(t, tx[o]) /\ EnrollersApart(tx[o], t)
    BY EnrollerOf
  <2>8. \A o \in Sessions \ {s} : EnrollersApart(x, tx[o]) /\ EnrollersApart(tx[o], x)
    BY <2>5, <2>7 DEF EnrollersApart
  <2> QED BY <1>3, <2>1, <2>5, <2>6, <2>8, EnrollerLocks
<1>6. CASE t.tries < MaxRetries
           /\ Enrolling!Goes(s, [Enrolling!Asked(t.kind, CASE t.kind = "redeem" -> "row"
                         [] t.kind \in {"disable", "demote", "token", "revoke", "leave", "archive"} -> "target"
                         [] OTHER -> "actor", t.by, t.id, t.arg) EXCEPT !.at = today, !.tries = t.tries + 1])
  <2> PICK p : p = CASE t.kind = "redeem" -> "row"
                     [] t.kind \in {"disable", "demote", "token", "revoke", "leave", "archive"} -> "target"
                     [] OTHER -> "actor"
    OBVIOUS
  <2> p \in {"row", "target", "actor"}
    OBVIOUS
  <2> QED BY <1>5, <1>6
<1> QED BY <1>4, <1>6 DEF Enrolling!Aborts

-----------------------------------------------------------------------------
(* What a commit may do to an enrollment, with the link it leaves.         *)
Writ(e) ==
  \/ enrollments'[e] = enrollments[e] /\ trail'[e] = trail[e]
  \/ /\ enrollments[e].status \in Enrolling!Open \cup {"none"} /\ enrollments'[e] \in EnrollmentRecords
     /\ enrollments'[e].status # "none"
     /\ trail'[e] = Append(trail[e], [from |-> enrollments[e].status, to |-> enrollments'[e].status])
     /\ enrollments[e].reviewed # Nobody => enrollments'[e].reviewed = enrollments[e].reviewed
AllWrit ==
  /\ enrollments' = [e \in Enrolling!Ids |-> enrollments'[e]] /\ trail' = [e \in Enrolling!Ids |-> trail'[e]]
  /\ \A e \in Enrolling!Ids : Writ(e)

LEMMA ChainGrows ==
  ASSUME NEW steps \in Seq(LinkRecords), NEW status, NEW to, to # "none", Chain(steps, status)
  PROVE  Chain(Append(steps, [from |-> status, to |-> to]), to)
<1> DEFINE new == Append(steps, [from |-> status, to |-> to])
           n == Len(steps)
<1>1. n \in Nat /\ Len(new) = n + 1 /\ new[n + 1] = [from |-> status, to |-> to]
      /\ \A i \in 1..n : new[i] = steps[i]
  OBVIOUS
<1>2. (status = "none" => n = 0) /\ (status # "none" => n > 0 /\ steps[n].to = status)
  BY DEF Chain
<1>3. ASSUME NEW i \in 1..Len(new) PROVE new[i].from = (IF i = 1 THEN "none" ELSE new[i - 1].to)
  <2>1. CASE i \in 1..n
    <3>1. new[i] = steps[i] /\ (i # 1 => i - 1 \in 1..n)
      BY <1>1, <2>1
    <3> QED BY <1>1, <2>1, <3>1 DEF Chain
  <2>2. CASE i = n + 1
    <3>1. new[i].from = status
      BY <1>1, <2>2
    <3>2. CASE status = "none"
      BY <1>2, <2>2, <3>1, <3>2
    <3>3. CASE status # "none"
      <4>1. n > 0 /\ steps[n].to = status /\ i - 1 = n /\ i # 1
        BY <1>1, <1>2, <2>2, <3>3
      <4>2. new[i - 1] = steps[n]
        BY <1>1, <4>1
      <4> QED BY <3>1, <4>1, <4>2
    <3> QED BY <3>2, <3>3
  <2> QED BY <1>1, <2>1, <2>2
<1>4. new # <<>> /\ new[Len(new)].to = to
  BY <1>1
<1> HIDE DEF new
<1>5. Chain(new, to)
  BY <1>3, <1>4, Zenon DEF Chain
<1> QED BY <1>5 DEF new

LEMMA Written ==
  ASSUME EnrollmentInv, AllWrit
  PROVE  /\ enrollments' \in [Enrolling!Ids -> EnrollmentRecords] /\ trail' \in [Enrolling!Ids -> Seq(LinkRecords)]
         /\ Chained' /\ Enrolling!EndedIsFinal
         /\ \A e \in Enrolling!Ids : enrollments'[e].status = "none" => enrollments'[e].reviewed = Nobody
<1>1. enrollments \in [Enrolling!Ids -> EnrollmentRecords] /\ trail \in [Enrolling!Ids -> Seq(LinkRecords)] /\ Chained
      /\ \A e \in Enrolling!Ids : enrollments[e].status = "none" => enrollments[e].reviewed = Nobody
  BY EnrollmentTypes DEF EnrollmentInv
<1>2. ASSUME NEW e \in Enrolling!Ids
      PROVE  /\ enrollments'[e] \in EnrollmentRecords /\ trail'[e] \in Seq(LinkRecords)
             /\ Chain(trail'[e], enrollments'[e].status)
             /\ enrollments[e].status \in Enrolling!Statuses \ (Enrolling!Open \cup {"none"}) => enrollments'[e] = enrollments[e]
             /\ enrollments[e].reviewed # Nobody => enrollments'[e].reviewed = enrollments[e].reviewed
             /\ enrollments'[e].status = "none" => enrollments'[e].reviewed = Nobody
  <2>1. CASE enrollments'[e] = enrollments[e] /\ trail'[e] = trail[e]
    BY <1>1, <2>1 DEF Chained
  <2>2. CASE /\ enrollments[e].status \in Enrolling!Open \cup {"none"} /\ enrollments'[e] \in EnrollmentRecords
             /\ enrollments'[e].status # "none"
             /\ trail'[e] = Append(trail[e], [from |-> enrollments[e].status, to |-> enrollments'[e].status])
             /\ enrollments[e].reviewed # Nobody => enrollments'[e].reviewed = enrollments[e].reviewed
    <3>1. enrollments[e].status \in Enrolling!Statuses /\ enrollments'[e].status \in Enrolling!Statuses /\ trail[e] \in Seq(LinkRecords)
          /\ Chain(trail[e], enrollments[e].status)
      BY <1>1, <2>2 DEF EnrollmentRecords, Chained
    <3>2. [from |-> enrollments[e].status, to |-> enrollments'[e].status] \in LinkRecords
      BY <3>1 DEF LinkRecords
    <3>3. trail'[e] \in Seq(LinkRecords)
      BY <2>2, <3>1, <3>2
    <3>4. Chain(trail'[e], enrollments'[e].status)
      BY <2>2, <3>1, ChainGrows
    <3> QED BY <2>2, <3>3, <3>4
  <2> QED BY <2>1, <2>2 DEF AllWrit, Writ
<1>3. Chained'
  BY <1>2 DEF Chained
<1>4. Enrolling!EndedIsFinal
  BY <1>2 DEF Enrolling!EndedIsFinal
<1> QED BY <1>2, <1>3, <1>4 DEF AllWrit

(* A committed row was held by no other transaction.                       *)
LEMMA OthersKeep ==
  ASSUME EnrollmentInv, NEW s \in Sessions,
         \A e \in Enrolling!Ids : enrollments'[e] # enrollments[e] =>
           \/ /\ Enrolling!Row(e) \in tx[s].held \/ Enrolling!mayLock(s, {Enrolling!Row(e)})
              /\ enrollments[e].status # "none"
           \/ tx[s].kind = "request" /\ tx[s].id = e,
         channel' # channel => Enrolling!Conversation \in tx[s].held
  PROVE  \A o \in Sessions \ {s} : LeavesAlone(tx[o])
<1> SUFFICES ASSUME NEW o \in Sessions \ {s} PROVE LeavesAlone(tx[o])
  OBVIOUS
<1> PICK t : t = tx[s]
  OBVIOUS
<1> PICK u : u = tx[o]
  OBVIOUS
<1>1. EnrollersApart(t, u) /\ EnrollersApart(u, t) /\ EnrollerOK(t) /\ EnrollerOK(u)
  BY EnrollerOf
<1>2. ASSUME NEW e \in Enrolling!Ids, Enrolling!Row(e) \in u.held \/ (u.kind = "request" /\ u.id = e), enrollments'[e] # enrollments[e]
      PROVE  FALSE
  <2>1. CASE tx[s].kind = "request" /\ tx[s].id = e
    <3>1. enrollments[e].status = "none"
      BY <1>1, <2>1 DEF EnrollerOK
    <3>2. Enrolling!Row(e) \notin u.held
      BY <1>1, <3>1 DEF EnrollerOK
    <3> QED BY <1>1, <1>2, <2>1, <3>2 DEF EnrollersApart
  <2>2. CASE (Enrolling!Row(e) \in tx[s].held \/ Enrolling!mayLock(s, {Enrolling!Row(e)})) /\ enrollments[e].status # "none"
    <3>1. Enrolling!Row(e) \in u.held
      BY <1>1, <1>2, <2>2 DEF EnrollerOK
    <3> QED BY <1>1, <2>2, <3>1 DEF EnrollersApart, Enrolling!mayLock
  <2> QED BY <1>2, <2>1, <2>2
<1>3. Enrolling!Conversation \in u.shared => channel' = channel
  BY <1>1 DEF EnrollersApart
<1> QED BY <1>2, <1>3 DEF LeavesAlone

LEMMA EnrollerCommits ==
  ASSUME EnrollmentInv, NEW s \in Sessions, Enrolling!Ends(s), AllWrit, Enrolling!Counters,
         \A o \in Sessions \ {s} : LeavesAlone(tx[o]),
         policy' \in Enrolling!Modes, owners' \subseteq Owners, inviter' \in [active : BOOLEAN, token : BOOLEAN],
         channel' \in [open : BOOLEAN, joined : BOOLEAN], children' \in [Enrolling!Ids -> ChildRecords],
         granted' \subseteq [policy : BOOLEAN, requester : BOOLEAN, seats : BOOLEAN, room : BOOLEAN],
         redeemed' \in [Enrolling!Ids -> 0..2], Enrolling!PolicyGoverns', Enrolling!ActivatedWhileAllowed', Enrolling!OneAgent'
  PROVE  EnrollmentInv' /\ Enrolling!EndedIsFinal
<1>1. today' \in 0..MaxDays /\ aborted' \in 0..MaxAborts /\ started' \in 0..MaxAsked
  BY EnrollmentTypes DEF EnrollmentInv, Enrolling!Counters
<1>2. \A o \in Sessions \ {s} : EnrollersApart(Enrolling!NoTx, tx[o]) /\ EnrollersApart(tx[o], Enrolling!NoTx)
  BY NoEnroller DEF EnrollersApart
<1>3. Enrollers' /\ tx' \in [Sessions -> EnrollerRecords]
  BY <1>2, NoEnroller, EnrollersStep DEF Enrolling!Ends
<1>4. Enrolling!TypeOK'
  BY <1>1, <1>3, Written, EnrollmentTypesHold
<1> QED BY <1>3, <1>4, Written DEF EnrollmentInv

(* A commit that writes enrollments and no agent.                          *)
LEMMA EnrollerWrites ==
  ASSUME EnrollmentInv, NEW s \in Sessions, Enrolling!Ends(s), AllWrit, Enrolling!Counters,
         \A e \in Enrolling!Ids : enrollments'[e] # enrollments[e] =>
           \/ /\ Enrolling!Row(e) \in tx[s].held \/ Enrolling!mayLock(s, {Enrolling!Row(e)})
              /\ enrollments[e].status # "none"
           \/ tx[s].kind = "request" /\ tx[s].id = e,
         \A e \in Enrolling!Ids : enrollments'[e].status = "active" => enrollments[e].status = "active",
         policy' \in Enrolling!Modes, UNCHANGED owners, UNCHANGED inviter, UNCHANGED channel, UNCHANGED children,
         UNCHANGED granted, UNCHANGED redeemed, Enrolling!PolicyGoverns'
  PROVE  EnrollmentInv' /\ Enrolling!EndedIsFinal
<1>1. Enrolling!ActivatedWhileAllowed'
  BY DEF EnrollmentInv, Enrolling!ActivatedWhileAllowed
<1>2. \A e \in Enrolling!Ids : enrollments[e].status = "active" => enrollments'[e].status = "active"
  BY DEF AllWrit, Writ, Enrolling!Open
<1>3. Enrolling!OneAgent'
  BY <1>2, EnrollingSize DEF EnrollmentInv, Enrolling!OneAgent, Enrolling!activeMembers
<1>4. \A o \in Sessions \ {s} : LeavesAlone(tx[o])
  BY OthersKeep
<1> QED BY <1>1, <1>3, <1>4, EnrollmentTypes, EnrollerCommits DEF EnrollmentInv

LEMMA IdsFinite == IsFiniteSet(Enrolling!Ids)
BY EnrollmentBounds, FS_Interval DEF Enrolling!Ids

(* A commit that writes no enrollment.                                     *)
LEMMA EnrollerChanges ==
  ASSUME EnrollmentInv, NEW s \in Sessions, Enrolling!Ends(s), Enrolling!Counters, UNCHANGED enrollments, UNCHANGED trail,
         UNCHANGED policy, UNCHANGED granted, UNCHANGED redeemed,
         owners' \subseteq Owners, inviter' \in [active : BOOLEAN, token : BOOLEAN],
         channel' \in [open : BOOLEAN, joined : BOOLEAN], children' \in [Enrolling!Ids -> ChildRecords],
         channel' # channel => Enrolling!Conversation \in tx[s].held,
         \A e \in Enrolling!Ids : children'[e].member = "revoked" => children'[e].token # "live",
         \A e \in Enrolling!Ids : children'[e].member = "active" => children[e].member = "active",
         inviter'.active => inviter.active
  PROVE  EnrollmentInv' /\ Enrolling!EndedIsFinal
<1>1. Enrolling!ActivatedWhileAllowed' /\ Enrolling!PolicyGoverns'
  BY DEF EnrollmentInv, Enrolling!ActivatedWhileAllowed, Enrolling!PolicyGoverns
<1>2. AllWrit
  BY EnrollmentTypes DEF EnrollmentInv, AllWrit, Writ
<1>3. Enrolling!activeMembers' <= MaxTeam
  <2> DEFINE A == {e \in Enrolling!Ids : children[e].member = "active"}
             B == {e \in Enrolling!Ids : children'[e].member = "active"}
             i == IF inviter.active THEN 1 ELSE 0
             j == IF inviter'.active THEN 1 ELSE 0
  <2>1. Cardinality(Owners) + i + Cardinality(A) <= MaxTeam
    BY EnrollingSize DEF EnrollmentInv, Enrolling!OneAgent, Enrolling!activeMembers
  <2>2. B \subseteq A /\ A \subseteq Enrolling!Ids /\ j <= i /\ i \in 0..1 /\ j \in 0..1
    OBVIOUS
  <2>3. Enrolling!activeMembers' = Cardinality(Owners) + j + Cardinality(B)
    BY EnrollingSize DEF Enrolling!activeMembers
  <2>4. IsFiniteSet(Enrolling!Ids)
    BY IdsFinite
  <2> HIDE DEF A, B, i, j
  <2>5. IsFiniteSet(A) /\ IsFiniteSet(B)
    BY <2>2, <2>4, FS_Subset
  <2>6. Cardinality(B) <= Cardinality(A)
    BY <2>2, <2>5, FS_Subset
  <2>7. Cardinality(A) \in Nat /\ Cardinality(B) \in Nat /\ Cardinality(Owners) \in Nat
    BY <2>5, FS_CardinalityType, EnrollmentBounds
  <2> QED BY <2>1, <2>2, <2>3, <2>6, <2>7, EnrollmentBounds
<1>4. Enrolling!OneAgent'
  BY <1>3 DEF EnrollmentInv, Enrolling!OneAgent
<1>5. \A o \in Sessions \ {s} : LeavesAlone(tx[o])
  BY OthersKeep
<1> QED BY <1>1, <1>2, <1>4, <1>5, EnrollmentTypes, EnrollerCommits DEF EnrollmentInv

(* The commits.                                                            *)
LEMMA ExpiredWrites ==
  ASSUME EnrollmentInv, NEW d, d \subseteq Enrolling!Ids, \A e \in d : enrollments[e].status \in Enrolling!Open
  PROVE  /\ \A e \in d : /\ Enrolling!Expired(d)[e] \in EnrollmentRecords /\ Enrolling!Expired(d)[e].status = "expired"
                         /\ Enrolling!Expired(d)[e].reviewed = enrollments[e].reviewed
                         /\ Enrolling!ExpiredTrail(d)[e] = Append(trail[e], [from |-> enrollments[e].status, to |-> "expired"])
         /\ \A e \in Enrolling!Ids \ d : Enrolling!Expired(d)[e] = enrollments[e] /\ Enrolling!ExpiredTrail(d)[e] = trail[e]
<1>1. enrollments \in [Enrolling!Ids -> EnrollmentRecords]
  BY EnrollmentTypes DEF EnrollmentInv
<1>2. ASSUME NEW e \in d
      PROVE  /\ Enrolling!Expired(d)[e] \in EnrollmentRecords /\ Enrolling!Expired(d)[e].status = "expired"
             /\ Enrolling!Expired(d)[e].reviewed = enrollments[e].reviewed
  <2>1. Enrolling!Expired(d)[e] = [enrollments[e] EXCEPT !.status = "expired"] /\ enrollments[e] \in EnrollmentRecords
    BY <1>1 DEF Enrolling!Expired
  <2> QED BY <2>1 DEF EnrollmentRecords, Enrolling!Statuses
<1> QED BY <1>2 DEF Enrolling!Expired, Enrolling!ExpiredTrail

LEMMA CommitListKeeps ==
  ASSUME EnrollmentInv, NEW s \in Sessions, Enrolling!CommitList(s)
  PROVE  EnrollmentInv' /\ Enrolling!EndedIsFinal
<1> PICK d : d = tx[s].due
  OBVIOUS
<1>1. d \subseteq Enrolling!Ids /\ (\A e \in d : enrollments[e].status \in Enrolling!Open /\ Enrolling!Row(e) \in tx[s].held)
  BY EnrollerOf DEF EnrollerOK
<1>2. enrollments' = Enrolling!Expired(d) /\ trail' = Enrolling!ExpiredTrail(d) /\ Enrolling!Ends(s) /\ Enrolling!Counters
      /\ UNCHANGED policy /\ UNCHANGED owners /\ UNCHANGED inviter /\ UNCHANGED channel /\ UNCHANGED children
      /\ UNCHANGED granted /\ UNCHANGED redeemed
  BY DEF Enrolling!CommitList
<1>3. /\ \A e \in d : /\ enrollments'[e] \in EnrollmentRecords /\ enrollments'[e].status = "expired"
                      /\ enrollments'[e].reviewed = enrollments[e].reviewed
                      /\ trail'[e] = Append(trail[e], [from |-> enrollments[e].status, to |-> "expired"])
      /\ \A e \in Enrolling!Ids \ d : enrollments'[e] = enrollments[e] /\ trail'[e] = trail[e]
  BY <1>1, <1>2, ExpiredWrites
<1>4. AllWrit
  BY <1>1, <1>2, <1>3 DEF AllWrit, Writ, Enrolling!Expired, Enrolling!ExpiredTrail
<1>5. Enrolling!PolicyGoverns'
  BY <1>2, <1>3 DEF Enrolling!PolicyGoverns, EnrollmentInv
<1>6. policy' \in Enrolling!Modes
  BY <1>2, EnrollmentTypes DEF EnrollmentInv
<1>7. /\ \A e \in Enrolling!Ids : enrollments'[e] # enrollments[e] =>
              (Enrolling!Row(e) \in tx[s].held \/ Enrolling!mayLock(s, {Enrolling!Row(e)})) /\ enrollments[e].status # "none"
      /\ \A e \in Enrolling!Ids : enrollments'[e].status = "active" => enrollments[e].status = "active"
  BY <1>1, <1>3 DEF Enrolling!Open
<1> QED BY <1>2, <1>4, <1>5, <1>6, <1>7, EnrollerWrites

LEMMA CommitPolicyKeeps ==
  ASSUME EnrollmentInv, NEW s \in Sessions, Enrolling!CommitPolicy(s)
  PROVE  EnrollmentInv' /\ Enrolling!EndedIsFinal
<1> PICK t : t = tx[s]
  OBVIOUS
<1> PICK d : d = t.due
  OBVIOUS
<1> PICK from : from = IF t.arg = "automatic" THEN "pending_approval" ELSE "ready_to_redeem"
  OBVIOUS
<1> PICK to : to = IF t.arg = "automatic" THEN "ready_to_redeem" ELSE "pending_approval"
  OBVIOUS
<1> DEFINE turned == {e \in Enrolling!Ids \ d : enrollments[e].status = from /\ enrollments[e].reviewed = Nobody}
<1>1. d \subseteq Enrolling!Ids /\ (\A e \in d : enrollments[e].status \in Enrolling!Open /\ Enrolling!Row(e) \in tx[s].held)
  BY EnrollerOf DEF EnrollerOK
<1>2. t.kind = "policy" /\ t.arg \in Enrolling!Modes
  BY EnrollerOf DEF EnrollerOK, Enrolling!CommitPolicy, Enrolling!At
<1>3. Enrolling!Ends(s) /\ Enrolling!Counters /\ policy' = t.arg /\ UNCHANGED owners /\ UNCHANGED inviter /\ UNCHANGED channel
      /\ UNCHANGED children /\ UNCHANGED granted /\ UNCHANGED redeemed
  BY DEF Enrolling!CommitPolicy
<1>4. \/ policy = t.arg /\ enrollments' = Enrolling!Expired(d) /\ trail' = Enrolling!ExpiredTrail(d)
      \/ /\ Enrolling!mayLock(s, {Enrolling!Row(e) : e \in turned})
         /\ enrollments' = [e \in Enrolling!Ids |-> IF e \in turned THEN [enrollments[e] EXCEPT !.status = to]
                                                    ELSE Enrolling!Expired(d)[e]]
         /\ trail' = [e \in Enrolling!Ids |-> IF e \in turned THEN Append(trail[e], [from |-> from, to |-> to])
                                              ELSE Enrolling!ExpiredTrail(d)[e]]
  BY DEF Enrolling!CommitPolicy
<1>5. enrollments \in [Enrolling!Ids -> EnrollmentRecords] /\ Enrolling!PolicyGoverns
  BY EnrollmentTypes DEF EnrollmentInv
<1>6. CASE policy = t.arg /\ enrollments' = Enrolling!Expired(d) /\ trail' = Enrolling!ExpiredTrail(d)
  <2>1. /\ \A e \in d : /\ enrollments'[e] \in EnrollmentRecords /\ enrollments'[e].status = "expired"
                        /\ enrollments'[e].reviewed = enrollments[e].reviewed
                        /\ trail'[e] = Append(trail[e], [from |-> enrollments[e].status, to |-> "expired"])
        /\ \A e \in Enrolling!Ids \ d : enrollments'[e] = enrollments[e] /\ trail'[e] = trail[e]
    BY <1>1, <1>6, ExpiredWrites
  <2>2. AllWrit
    BY <1>1, <1>6, <2>1 DEF AllWrit, Writ, Enrolling!Expired, Enrolling!ExpiredTrail
  <2>3. Enrolling!PolicyGoverns'
    BY <1>3, <1>5, <1>6, <2>1, ZenonT(40) DEF Enrolling!PolicyGoverns
  <2>4. /\ \A e \in Enrolling!Ids : enrollments'[e] # enrollments[e] =>
                (Enrolling!Row(e) \in tx[s].held \/ Enrolling!mayLock(s, {Enrolling!Row(e)})) /\ enrollments[e].status # "none"
        /\ \A e \in Enrolling!Ids : enrollments'[e].status = "active" => enrollments[e].status = "active"
    BY <1>1, <2>1 DEF Enrolling!Open
  <2> QED BY <1>2, <1>3, <2>2, <2>3, <2>4, EnrollerWrites
<1>7. CASE /\ Enrolling!mayLock(s, {Enrolling!Row(e) : e \in turned})
           /\ enrollments' = [e \in Enrolling!Ids |-> IF e \in turned THEN [enrollments[e] EXCEPT !.status = to]
                                                      ELSE Enrolling!Expired(d)[e]]
           /\ trail' = [e \in Enrolling!Ids |-> IF e \in turned THEN Append(trail[e], [from |-> from, to |-> to])
                                                ELSE Enrolling!ExpiredTrail(d)[e]]
  <2>1. /\ \A e \in d : /\ enrollments'[e] \in EnrollmentRecords /\ enrollments'[e].status = "expired"
                        /\ enrollments'[e].reviewed = enrollments[e].reviewed
                        /\ trail'[e] = Append(trail[e], [from |-> enrollments[e].status, to |-> "expired"])
        /\ \A e \in Enrolling!Ids \ (d \cup turned) : enrollments'[e] = enrollments[e] /\ trail'[e] = trail[e]
    BY <1>1, <1>7, ExpiredWrites
  <2>2. from \in Enrolling!Open /\ to \in Enrolling!Open /\ to # "none" /\ to # "active" /\ to # "expired" /\ to \in Enrolling!Statuses
    BY DEF Enrolling!Open, Enrolling!Statuses
  <2>3. ASSUME NEW e \in turned
        PROVE  /\ enrollments'[e] \in EnrollmentRecords /\ enrollments'[e].status = to
               /\ enrollments'[e].reviewed = enrollments[e].reviewed /\ enrollments[e].status = from
               /\ trail'[e] = Append(trail[e], [from |-> from, to |-> to])
               /\ Enrolling!mayLock(s, {Enrolling!Row(e)}) /\ e \in Enrolling!Ids
    <3>1. enrollments'[e] = [enrollments[e] EXCEPT !.status = to] /\ enrollments[e] \in EnrollmentRecords
      BY <1>5, <1>7
    <3>2. enrollments'[e] \in EnrollmentRecords /\ enrollments'[e].status = to
          /\ enrollments'[e].reviewed = enrollments[e].reviewed
      BY <2>2, <3>1 DEF EnrollmentRecords
    <3>3. Enrolling!mayLock(s, {Enrolling!Row(e)})
      BY <1>7 DEF Enrolling!mayLock
    <3> QED BY <1>7, <3>2, <3>3
  <2>5. Enrolling!PolicyGoverns'
    <3> SUFFICES ASSUME NEW e \in Enrolling!Ids, enrollments'[e].reviewed = Nobody
                 PROVE  enrollments'[e].status # (IF policy' = "required" THEN "ready_to_redeem" ELSE "pending_approval")
      BY DEF Enrolling!PolicyGoverns
    <3>1. from = (IF policy' = "required" THEN "ready_to_redeem" ELSE "pending_approval") /\ to # from
      BY <1>2, <1>3 DEF Enrolling!Modes
    <3>2. CASE e \in turned
      BY <2>3, <3>1, <3>2
    <3>3. CASE e \in d
      BY <2>1, <3>3
    <3>4. CASE e \notin turned /\ e \notin d
      BY <2>1, <3>1, <3>4
    <3> QED BY <3>2, <3>3, <3>4
  <2> HIDE DEF turned
  <2>4. AllWrit
    <3>1. \A e \in Enrolling!Ids : Writ(e)
      BY <1>1, <2>1, <2>2, <2>3, ZenonT(40) DEF Writ
    <3> QED BY <1>7, <3>1 DEF AllWrit
  <2>6. /\ \A e \in Enrolling!Ids : enrollments'[e] # enrollments[e] =>
                (Enrolling!Row(e) \in tx[s].held \/ Enrolling!mayLock(s, {Enrolling!Row(e)})) /\ enrollments[e].status # "none"
        /\ \A e \in Enrolling!Ids : enrollments'[e].status = "active" => enrollments[e].status = "active"
    BY <1>1, <2>1, <2>2, <2>3 DEF Enrolling!Open
  <2> QED BY <1>2, <1>3, <2>4, <2>5, <2>6, EnrollerWrites
<1> QED BY <1>4, <1>6, <1>7

LEMMA CommitRequestKeeps ==
  ASSUME EnrollmentInv, NEW s \in Sessions, Enrolling!CommitRequest(s)
  PROVE  EnrollmentInv' /\ Enrolling!EndedIsFinal
<1> PICK t : t = tx[s]
  OBVIOUS
<1> PICK d : d = t.due
  OBVIOUS
<1> PICK st : st = IF policy = "automatic" THEN "ready_to_redeem" ELSE "pending_approval"
  OBVIOUS
<1> DEFINE row == [status |-> st, by |-> t.by, seats |-> t.arg = "seats", expires |-> t.at + 1,
                   reviewed |-> Nobody]
<1>1. d \subseteq Enrolling!Ids /\ (\A e \in d : enrollments[e].status \in Enrolling!Open /\ Enrolling!Row(e) \in tx[s].held)
  BY EnrollerOf DEF EnrollerOK
<1>2. t.kind = "request" /\ t.id \in Enrolling!Ids /\ enrollments[t.id].status = "none" /\ t.id \notin d
      /\ enrollments[t.id].reviewed = Nobody
  BY <1>1, EnrollerOf DEF EnrollerOK, Enrolling!CommitRequest, Enrolling!At, Enrolling!Open, EnrollmentInv
<1>3. Enrolling!Ends(s) /\ Enrolling!Counters /\ UNCHANGED policy /\ UNCHANGED owners /\ UNCHANGED inviter /\ UNCHANGED channel
      /\ UNCHANGED children /\ UNCHANGED granted /\ UNCHANGED redeemed
      /\ enrollments' = [Enrolling!Expired(d) EXCEPT ![t.id] = row]
      /\ trail' = Enrolling!Trail(t.id, "none", st, Enrolling!ExpiredTrail(d))
  BY DEF Enrolling!CommitRequest
<1>4. row \in EnrollmentRecords /\ row.status = st /\ row.reviewed = Nobody
  BY EnrollerOf, EnrollmentBounds DEF EnrollerRecords, EnrollmentRecords, Enrolling!Statuses
<1> HIDE DEF row
<1>5. /\ \A e \in d : /\ enrollments'[e] \in EnrollmentRecords /\ enrollments'[e].status = "expired"
                      /\ enrollments'[e].reviewed = enrollments[e].reviewed
                      /\ trail'[e] = Append(trail[e], [from |-> enrollments[e].status, to |-> "expired"])
      /\ \A e \in Enrolling!Ids \ (d \cup {t.id}) : enrollments'[e] = enrollments[e] /\ trail'[e] = trail[e]
      /\ enrollments'[t.id] = row /\ trail'[t.id] = Append(trail[t.id], [from |-> "none", to |-> st])
  <2>1. DOMAIN Enrolling!Expired(d) = Enrolling!Ids /\ DOMAIN Enrolling!ExpiredTrail(d) = Enrolling!Ids
    BY DEF Enrolling!Expired, Enrolling!ExpiredTrail
  <2>2. /\ \A e \in Enrolling!Ids \ {t.id} : enrollments'[e] = Enrolling!Expired(d)[e] /\ trail'[e] = Enrolling!ExpiredTrail(d)[e]
        /\ enrollments'[t.id] = row
        /\ trail'[t.id] = Append(Enrolling!ExpiredTrail(d)[t.id], [from |-> "none", to |-> st])
    BY <1>2, <1>3, <2>1 DEF Enrolling!Trail
  <2>3. /\ \A e \in d : /\ Enrolling!Expired(d)[e] \in EnrollmentRecords /\ Enrolling!Expired(d)[e].status = "expired"
                        /\ Enrolling!Expired(d)[e].reviewed = enrollments[e].reviewed
                        /\ Enrolling!ExpiredTrail(d)[e] = Append(trail[e], [from |-> enrollments[e].status, to |-> "expired"])
        /\ \A e \in Enrolling!Ids \ d : Enrolling!Expired(d)[e] = enrollments[e] /\ Enrolling!ExpiredTrail(d)[e] = trail[e]
    BY <1>1, ExpiredWrites
  <2>4. \A e \in d : e \in Enrolling!Ids \ {t.id}
    BY <1>1, <1>2
  <2>5. \A e \in d : /\ enrollments'[e] \in EnrollmentRecords /\ enrollments'[e].status = "expired"
                      /\ enrollments'[e].reviewed = enrollments[e].reviewed
                      /\ trail'[e] = Append(trail[e], [from |-> enrollments[e].status, to |-> "expired"])
    <3> SUFFICES ASSUME NEW e \in d
                 PROVE  /\ enrollments'[e] \in EnrollmentRecords /\ enrollments'[e].status = "expired"
                        /\ enrollments'[e].reviewed = enrollments[e].reviewed
                        /\ trail'[e] = Append(trail[e], [from |-> enrollments[e].status, to |-> "expired"])
      OBVIOUS
    <3>1. enrollments'[e] = Enrolling!Expired(d)[e] /\ trail'[e] = Enrolling!ExpiredTrail(d)[e]
      BY <2>2, <2>4
    <3> QED BY <2>3, <3>1
  <2>6. \A e \in Enrolling!Ids \ (d \cup {t.id}) : enrollments'[e] = enrollments[e] /\ trail'[e] = trail[e]
    BY <2>2, <2>3
  <2>7. Enrolling!ExpiredTrail(d)[t.id] = trail[t.id]
    BY <1>2, <2>3
  <2> QED BY <2>2, <2>5, <2>6, <2>7
<1>6. st \in Enrolling!Open /\ st # "active" /\ st # "none" /\ (policy \in Enrolling!Modes => st # (IF policy = "required" THEN "ready_to_redeem" ELSE "pending_approval"))
  BY SMTT(30) DEF Enrolling!Open, Enrolling!Modes
<1>7. AllWrit
  <2>1. \A e \in d : Writ(e)
    BY <1>1, <1>5 DEF Writ
  <2>2. Writ(t.id)
    BY <1>2, <1>4, <1>5, <1>6 DEF Writ
  <2>3. \A e \in Enrolling!Ids \ (d \cup {t.id}) : Writ(e)
    BY <1>5 DEF Writ
  <2>4. \A e \in Enrolling!Ids : Writ(e)
    BY <2>1, <2>2, <2>3
  <2> QED BY <1>3, <2>4 DEF AllWrit, Enrolling!Expired, Enrolling!ExpiredTrail, Enrolling!Trail
<1>8. policy \in Enrolling!Modes
  BY EnrollmentTypes DEF EnrollmentInv
<1>9. Enrolling!PolicyGoverns'
  <2> SUFFICES ASSUME NEW e \in Enrolling!Ids, enrollments'[e].reviewed = Nobody
               PROVE  enrollments'[e].status # (IF policy = "required" THEN "ready_to_redeem" ELSE "pending_approval")
    BY <1>3 DEF Enrolling!PolicyGoverns
  <2>1. CASE e = t.id
    BY <1>4, <1>5, <1>6, <1>8, <2>1
  <2>2. CASE e \in d
    BY <1>5, <2>2
  <2>3. CASE e \in Enrolling!Ids \ (d \cup {t.id})
    BY <1>5, <2>3 DEF EnrollmentInv, Enrolling!PolicyGoverns
  <2> QED BY <2>1, <2>2, <2>3
<1>10. /\ \A e \in Enrolling!Ids : enrollments'[e] # enrollments[e] =>
            \/ (Enrolling!Row(e) \in tx[s].held \/ Enrolling!mayLock(s, {Enrolling!Row(e)})) /\ enrollments[e].status # "none"
            \/ tx[s].kind = "request" /\ tx[s].id = e
       /\ \A e \in Enrolling!Ids : enrollments'[e].status = "active" => enrollments[e].status = "active"
  <2> SUFFICES ASSUME NEW e \in Enrolling!Ids
               PROVE  /\ enrollments'[e] # enrollments[e] =>
                           \/ (Enrolling!Row(e) \in tx[s].held \/ Enrolling!mayLock(s, {Enrolling!Row(e)})) /\ enrollments[e].status # "none"
                           \/ tx[s].kind = "request" /\ tx[s].id = e
                      /\ enrollments'[e].status = "active" => enrollments[e].status = "active"
    OBVIOUS
  <2>1. CASE e = t.id
    BY <1>2, <1>4, <1>5, <1>6, <2>1
  <2>2. CASE e \in d
    BY <1>1, <1>5, <2>2 DEF Enrolling!Open
  <2>3. CASE e \in Enrolling!Ids \ (d \cup {t.id})
    BY <1>5, <2>3
  <2> QED BY <2>1, <2>2, <2>3
<1> QED BY <1>3, <1>7, <1>8, <1>9, <1>10, EnrollerWrites

LEMMA CommitOneKeeps ==
  ASSUME EnrollmentInv, NEW s \in Sessions, NEW e \in Enrolling!Ids, NEW st \in Enrolling!Statuses \ {"none", "active"},
         Enrolling!Ends(s), Enrolling!Counters, UNCHANGED policy, UNCHANGED owners, UNCHANGED inviter, UNCHANGED channel,
         UNCHANGED children, UNCHANGED granted, UNCHANGED redeemed,
         enrollments' = [enrollments EXCEPT ![e] = enrollments'[e]],
         enrollments'[e] \in EnrollmentRecords, enrollments'[e].status = st,
         trail' = [trail EXCEPT ![e] = Append(trail[e], [from |-> enrollments[e].status, to |-> st])],
         enrollments[e].status \in Enrolling!Open,
         enrollments'[e].reviewed = enrollments[e].reviewed \/ enrollments[e].reviewed = Nobody,
         enrollments'[e].reviewed = Nobody => st \notin Enrolling!Open,
         Enrolling!Row(e) \in tx[s].held \/ Enrolling!mayLock(s, {Enrolling!Row(e)})
  PROVE  EnrollmentInv' /\ Enrolling!EndedIsFinal
<1>1. enrollments \in [Enrolling!Ids -> EnrollmentRecords] /\ trail \in [Enrolling!Ids -> Seq(LinkRecords)] /\ policy \in Enrolling!Modes
  BY EnrollmentTypes DEF EnrollmentInv
<1>2. (\A f \in Enrolling!Ids \ {e} : enrollments'[f] = enrollments[f] /\ trail'[f] = trail[f])
      /\ trail'[e] = Append(trail[e], [from |-> enrollments[e].status, to |-> st])
      /\ DOMAIN enrollments' = Enrolling!Ids /\ DOMAIN trail' = Enrolling!Ids
  BY <1>1
<1>3. AllWrit
  <2>1. Writ(e)
    BY <1>2 DEF Writ
  <2>2. \A f \in Enrolling!Ids \ {e} : Writ(f)
    BY <1>2 DEF Writ
  <2>3. enrollments' = [f \in Enrolling!Ids |-> enrollments'[f]] /\ trail' = [f \in Enrolling!Ids |-> trail'[f]]
    BY <1>1
  <2> QED BY <2>1, <2>2, <2>3 DEF AllWrit
<1>4. Enrolling!PolicyGoverns'
  <2>1. Enrolling!PolicyGoverns
    BY DEF EnrollmentInv
  <2> QED BY <1>2, <2>1 DEF Enrolling!PolicyGoverns, Enrolling!Open
<1>5. /\ \A f \in Enrolling!Ids : enrollments'[f] # enrollments[f] =>
              (Enrolling!Row(f) \in tx[s].held \/ Enrolling!mayLock(s, {Enrolling!Row(f)})) /\ enrollments[f].status # "none"
      /\ \A f \in Enrolling!Ids : enrollments'[f].status = "active" => enrollments[f].status = "active"
  BY <1>2 DEF Enrolling!Open
<1> QED BY <1>1, <1>3, <1>4, <1>5, EnrollerWrites

LEMMA LockEnrollmentKeeps ==
  ASSUME EnrollmentInv, NEW s \in Sessions, Enrolling!LockEnrollment(s)
  PROVE  EnrollmentInv' /\ Enrolling!EndedIsFinal
<1> PICK t : t = tx[s]
  OBVIOUS
<1> PICK e : e = t.id
  OBVIOUS
<1> PICK H : H = {Enrolling!Row(e)}
  OBVIOUS
<1> PICK h : h = t.held \cup H
  OBVIOUS
<1> PICK p : p = IF t.kind = "redeem" THEN "seat" ELSE "commit"
  OBVIOUS
<1>1. t \in EnrollerRecords /\ EnrollerOK(t) /\ t.held \subseteq Enrolling!Rows
  BY EnrollerOf DEF EnrollerRecords
<1> DEFINE a == WithHeld(t, h)
           x == WithPc(a, p)
<1>2. /\ t.kind \in {"get", "review", "cancel", "redeem"} /\ Enrolling!mayLock(s, H)
      /\ UNCHANGED policy /\ UNCHANGED owners /\ UNCHANGED inviter /\ UNCHANGED channel /\ UNCHANGED children
      /\ UNCHANGED granted /\ UNCHANGED redeemed /\ Enrolling!Counters
  BY DEF Enrolling!LockEnrollment, Enrolling!At
<1>3. \/ Enrolling!Ends(s) /\ UNCHANGED enrollments /\ UNCHANGED trail
      \/ Enrolling!Ends(s) /\ e \in Enrolling!Due(t) /\ enrollments' = Enrolling!Expired({e}) /\ trail' = Enrolling!ExpiredTrail({e})
      \/ /\ UNCHANGED enrollments /\ UNCHANGED trail /\ enrollments[e].status # "none"
         /\ t.kind = "redeem" => enrollments[e].status = "ready_to_redeem"
         /\ Enrolling!Goes(s, x)
  BY DEF Enrolling!LockEnrollment, Enrolling!At, WithHeld, WithPc
<1>4. e \in Enrolling!Ids
  BY <1>1, <1>2 DEF EnrollerOK
<1>5. CASE UNCHANGED enrollments /\ UNCHANGED trail
  <2>1. Enrolling!Locking
    BY <1>2, <1>5 DEF Enrolling!Locking, Enrolling!Counters, Enrolling!Data
  <2>2. CASE Enrolling!Ends(s)
    BY <2>1, <2>2, EnrollerEnds
  <2>3. CASE /\ enrollments[e].status # "none"
             /\ t.kind = "redeem" => enrollments[e].status = "ready_to_redeem"
             /\ Enrolling!Goes(s, x)
    <3>1. h \subseteq Enrolling!Rows /\ p \in EnrollerPcs /\ p \in {"seat", "commit"} /\ (p = "commit" => t.kind # "redeem")
      BY <1>1, <1>4, RowsOf DEF EnrollerPcs
    <3>2. a \in EnrollerRecords /\ a.due = t.due /\ a.kind = t.kind /\ a.by = t.by /\ a.id = t.id /\ a.arg = t.arg
          /\ a.held = h /\ a.shared = t.shared
      BY <1>1, <3>1, WithHeldOK
    <3>3. x \in EnrollerRecords /\ x.due = t.due /\ x.kind = t.kind /\ x.by = t.by /\ x.id = t.id /\ x.arg = t.arg
          /\ x.held = h /\ x.shared = t.shared \cup {} /\ x.pc = p
      <4> HIDE DEF a
      <4> QED BY <3>1, <3>2, WithPcOK
    <3> HIDE DEF x
    <3>4. \A f \in Enrolling!Ids : Enrolling!Row(f) \in h => enrollments[f].status # "none"
      <4>1. \A f \in Enrolling!Ids : Enrolling!Row(f) \in h => f = e \/ Enrolling!Row(f) \in t.held
        BY <1>4, RowsApart
      <4>2. \A f \in Enrolling!Ids : Enrolling!Row(f) \in t.held => enrollments[f].status # "none"
        BY <1>1 DEF EnrollerOK
      <4> QED BY <2>3, <4>1, <4>2
    <3>5. Enrolling!Row(e) \in h
      OBVIOUS
    <3>6. EnrollerOK(x)
      BY <1>1, <1>2, <2>3, <3>1, <3>3, <3>4, <3>5 DEF EnrollerOK
    <3> QED BY <1>2, <2>1, <2>3, <3>3, <3>6, NoRows, EnrollerMoves
  <2>4. CASE Enrolling!Ends(s) /\ e \in Enrolling!Due(t) /\ enrollments' = Enrolling!Expired({e}) /\ trail' = Enrolling!ExpiredTrail({e})
    BY <2>1, <2>4, EnrollerEnds, SMTT(30)
  <2> QED BY <1>3, <2>2, <2>3, <2>4
<1>6. CASE Enrolling!Ends(s) /\ e \in Enrolling!Due(t) /\ enrollments' = Enrolling!Expired({e}) /\ trail' = Enrolling!ExpiredTrail({e})
  <2>1. enrollments[e].status \in Enrolling!Open
    BY <1>6 DEF Enrolling!Due
  <2>2. /\ enrollments'[e] \in EnrollmentRecords /\ enrollments'[e].status = "expired"
        /\ enrollments'[e].reviewed = enrollments[e].reviewed
        /\ trail'[e] = Append(trail[e], [from |-> enrollments[e].status, to |-> "expired"])
        /\ \A f \in Enrolling!Ids \ {e} : enrollments'[f] = enrollments[f] /\ trail'[f] = trail[f]
    BY <1>4, <1>6, <2>1, ExpiredWrites, ZenonT(40)
  <2>3. /\ enrollments \in [Enrolling!Ids -> EnrollmentRecords] /\ trail \in [Enrolling!Ids -> Seq(LinkRecords)]
        /\ enrollments' = [f \in Enrolling!Ids |-> enrollments'[f]] /\ trail' = [f \in Enrolling!Ids |-> trail'[f]]
    BY <1>6, EnrollmentTypes DEF EnrollmentInv, Enrolling!Expired, Enrolling!ExpiredTrail
  <2>4. /\ enrollments' = [enrollments EXCEPT ![e] = enrollments'[e]]
        /\ trail' = [trail EXCEPT ![e] = Append(trail[e], [from |-> enrollments[e].status, to |-> "expired"])]
    BY <1>4, <2>2, <2>3
  <2>5. "expired" \in Enrolling!Statuses \ {"none", "active"} /\ "expired" \notin Enrolling!Open
    BY DEF Enrolling!Statuses, Enrolling!Open
  <2> QED BY <1>2, <1>4, <1>6, <2>1, <2>2, <2>4, <2>5, CommitOneKeeps
<1> QED BY <1>3, <1>5, <1>6

LEMMA CommitReviewKeeps ==
  ASSUME EnrollmentInv, NEW s \in Sessions, Enrolling!CommitReview(s)
  PROVE  EnrollmentInv' /\ Enrolling!EndedIsFinal
<1> PICK t : t = tx[s]
  OBVIOUS
<1> PICK e : e = t.id
  OBVIOUS
<1> PICK st : st = IF t.arg = "approve" THEN "ready_to_redeem" ELSE "rejected"
  OBVIOUS
<1>1. t \in EnrollerRecords /\ EnrollerOK(t) /\ t.kind = "review" /\ t.pc = "commit"
  BY EnrollerOf DEF Enrolling!CommitReview, Enrolling!At
<1>2. e \in Enrolling!Ids /\ Enrolling!Row(e) \in t.held /\ t.by \in Owners /\ t.by # Nobody
  BY <1>1, EnrollmentBounds DEF EnrollerOK
<1>3. \/ Enrolling!Refused(s)
      \/ /\ enrollments[e].status \in Enrolling!Open /\ enrollments[e].reviewed = Nobody
         /\ Enrolling!Writes(s, e, st, [enrollments EXCEPT ![e].reviewed = t.by])
  BY SMTT(30) DEF Enrolling!CommitReview
<1>4. CASE /\ enrollments[e].status \in Enrolling!Open /\ enrollments[e].reviewed = Nobody
           /\ Enrolling!Writes(s, e, st, [enrollments EXCEPT ![e].reviewed = t.by])
  <2>1. enrollments \in [Enrolling!Ids -> EnrollmentRecords] /\ trail \in [Enrolling!Ids -> Seq(LinkRecords)]
    BY EnrollmentTypes DEF EnrollmentInv
  <2>2. st \in Enrolling!Statuses \ {"none", "active"} /\ st \in Enrolling!Statuses
    BY DEF Enrolling!Statuses
  <2> DEFINE en == [enrollments EXCEPT ![e].reviewed = t.by]
  <2>3. en \in [Enrolling!Ids -> EnrollmentRecords] /\ en[e].reviewed = t.by /\ \A f \in Enrolling!Ids \ {e} : en[f] = enrollments[f]
    <3>1. en[e] = [enrollments[e] EXCEPT !.reviewed = t.by] /\ enrollments[e] \in EnrollmentRecords
      BY <1>2, <2>1
    <3>2. en[e] \in EnrollmentRecords /\ en[e].reviewed = t.by
      BY <1>2, <3>1 DEF EnrollmentRecords
    <3> QED BY <1>2, <2>1, <3>2
  <2>4. Enrolling!Ends(s) /\ enrollments' = [en EXCEPT ![e].status = st]
        /\ trail' = [trail EXCEPT ![e] = Append(trail[e], [from |-> enrollments[e].status, to |-> st])]
        /\ Enrolling!Counters /\ UNCHANGED policy /\ UNCHANGED owners /\ UNCHANGED inviter /\ UNCHANGED channel
        /\ UNCHANGED children /\ UNCHANGED granted /\ UNCHANGED redeemed
    BY <1>4 DEF Enrolling!Writes, Enrolling!Moves, Enrolling!Trail
  <2> HIDE DEF en
  <2>5. enrollments'[e] \in EnrollmentRecords /\ enrollments'[e].status = st /\ enrollments'[e].reviewed = t.by
        /\ \A f \in Enrolling!Ids \ {e} : enrollments'[f] = enrollments[f]
    <3>1. enrollments'[e] = [en[e] EXCEPT !.status = st] /\ en[e] \in EnrollmentRecords
      BY <1>2, <2>3, <2>4
    <3>2. enrollments'[e] \in EnrollmentRecords /\ enrollments'[e].status = st /\ enrollments'[e].reviewed = t.by
      BY <2>2, <2>3, <3>1 DEF EnrollmentRecords
    <3> QED BY <1>2, <2>3, <2>4, <3>2
  <2>6. enrollments' = [enrollments EXCEPT ![e] = enrollments'[e]]
    BY <1>2, <2>1, <2>3, <2>4, <2>5, ZenonT(40)
  <2>7. enrollments'[e].reviewed # Nobody /\ enrollments[e].reviewed = Nobody
        /\ enrollments[e].status \in Enrolling!Open
    BY <1>2, <1>4, <2>5
  <2>9. enrollments'[e] \in EnrollmentRecords /\ enrollments'[e].status = st
    BY <2>5
  <2> QED BY <1>2, <2>2, <2>4, <2>6, <2>7, <2>9, CommitOneKeeps
<1> QED BY <1>3, <1>4, EnrollerEnds DEF Enrolling!Refused

LEMMA CommitCancelKeeps ==
  ASSUME EnrollmentInv, NEW s \in Sessions, Enrolling!CommitCancel(s)
  PROVE  EnrollmentInv' /\ Enrolling!EndedIsFinal
<1> PICK t : t = tx[s]
  OBVIOUS
<1> PICK e : e = t.id
  OBVIOUS
<1>1. t \in EnrollerRecords /\ EnrollerOK(t) /\ t.kind = "cancel" /\ t.pc = "commit"
  BY EnrollerOf DEF Enrolling!CommitCancel, Enrolling!At
<1>2. e \in Enrolling!Ids /\ Enrolling!Row(e) \in t.held
  BY <1>1 DEF EnrollerOK
<1>3. \/ Enrolling!Refused(s)
      \/ enrollments[e].status \in Enrolling!Open /\ Enrolling!Writes(s, e, "cancelled", enrollments)
  BY DEF Enrolling!CommitCancel
<1>4. CASE enrollments[e].status \in Enrolling!Open /\ Enrolling!Writes(s, e, "cancelled", enrollments)
  <2>1. enrollments \in [Enrolling!Ids -> EnrollmentRecords] /\ trail \in [Enrolling!Ids -> Seq(LinkRecords)]
    BY EnrollmentTypes DEF EnrollmentInv
  <2>2. "cancelled" \in Enrolling!Statuses \ {"none", "active"} /\ "cancelled" \in Enrolling!Statuses /\ "cancelled" \notin Enrolling!Open
    BY DEF Enrolling!Statuses, Enrolling!Open
  <2>4. Enrolling!Ends(s) /\ enrollments' = [enrollments EXCEPT ![e].status = "cancelled"]
        /\ trail' = [trail EXCEPT ![e] = Append(trail[e], [from |-> enrollments[e].status, to |-> "cancelled"])]
        /\ Enrolling!Counters /\ UNCHANGED policy /\ UNCHANGED owners /\ UNCHANGED inviter /\ UNCHANGED channel
        /\ UNCHANGED children /\ UNCHANGED granted /\ UNCHANGED redeemed
    BY <1>4 DEF Enrolling!Writes, Enrolling!Moves, Enrolling!Trail
  <2>5. enrollments'[e] \in EnrollmentRecords /\ enrollments'[e].status = "cancelled"
        /\ enrollments'[e].reviewed = enrollments[e].reviewed
    <3>1. enrollments'[e] = [enrollments[e] EXCEPT !.status = "cancelled"] /\ enrollments[e] \in EnrollmentRecords
      BY <1>2, <2>1, <2>4
    <3> QED BY <2>2, <3>1 DEF EnrollmentRecords
  <2>6. enrollments' = [enrollments EXCEPT ![e] = enrollments'[e]]
    BY <1>2, <2>1, <2>4
  <2> QED BY <1>2, <1>4, <2>2, <2>4, <2>5, <2>6, CommitOneKeeps
<1> QED BY <1>3, <1>4, EnrollerEnds DEF Enrolling!Refused

LEMMA CommitRedeemKeeps ==
  ASSUME EnrollmentInv, NEW s \in Sessions, Enrolling!CommitRedeem(s)
  PROVE  EnrollmentInv' /\ Enrolling!EndedIsFinal
<1> PICK t : t = tx[s]
  OBVIOUS
<1> PICK e : e = t.id
  OBVIOUS
<1>1. t \in EnrollerRecords /\ EnrollerOK(t) /\ t.kind = "redeem" /\ t.pc = "commit"
  BY EnrollerOf DEF Enrolling!CommitRedeem, Enrolling!At
<1>2. e \in Enrolling!Ids /\ Enrolling!Row(e) \in t.held /\ enrollments[e].status = "ready_to_redeem" /\ SeatStands(e)
  BY <1>1 DEF EnrollerOK
<1> PICK row : row = enrollments[e]
  OBVIOUS
<1> PICK child : child = [member |-> "active", token |-> "live", seated |-> row.seats]
  OBVIOUS
<1> DEFINE Allowed == (policy = "automatic" \/ row.reviewed # Nobody) /\ Enrolling!mayRequest(row.by) /\ Enrolling!activeMembers < MaxTeam
           Done == /\ Enrolling!Ends(s) /\ enrollments' = Enrolling!Moves(e, "active", enrollments)
                   /\ trail' = Enrolling!Trail(e, "ready_to_redeem", "active", trail)
                   /\ children' = [children EXCEPT ![e] = child]
                   /\ redeemed' = [redeemed EXCEPT ![e] = IF @ < 2 THEN @ + 1 ELSE @]
                   /\ granted' = granted \cup {[policy |-> policy = "automatic" \/ row.reviewed # Nobody,
                                                requester |-> Enrolling!mayRequest(row.by),
                                                room |-> Enrolling!activeMembers < MaxTeam, seats |-> SeatStands(e)]}
                   /\ UNCHANGED <<policy, owners, inviter, channel>> /\ Enrolling!Counters
<1>3. Enrolling!Refused(s) \/ (Allowed /\ Done)
  BY DEF Enrolling!CommitRedeem, SeatStands
<1>4. CASE Allowed /\ Done
  <2>1. enrollments \in [Enrolling!Ids -> EnrollmentRecords] /\ trail \in [Enrolling!Ids -> Seq(LinkRecords)]
        /\ children \in [Enrolling!Ids -> ChildRecords] /\ redeemed \in [Enrolling!Ids -> 0..2]
        /\ granted \subseteq [policy : BOOLEAN, requester : BOOLEAN, seats : BOOLEAN, room : BOOLEAN]
        /\ policy \in Enrolling!Modes /\ Enrolling!PolicyGoverns /\ Enrolling!ActivatedWhileAllowed /\ Enrolling!OneAgent
    BY EnrollmentTypes DEF EnrollmentInv
  <2>2. enrollments'[e] \in EnrollmentRecords /\ enrollments'[e].status = "active"
        /\ enrollments'[e].reviewed = enrollments[e].reviewed
        /\ (\A f \in Enrolling!Ids \ {e} : enrollments'[f] = enrollments[f])
    <3>1. enrollments'[e] = [enrollments[e] EXCEPT !.status = "active"] /\ enrollments[e] \in EnrollmentRecords
      BY <1>2, <1>4, <2>1 DEF Enrolling!Moves
    <3> QED BY <1>2, <1>4, <2>1, <3>1 DEF EnrollmentRecords, Enrolling!Statuses, Enrolling!Moves
  <2>3. trail'[e] = Append(trail[e], [from |-> enrollments[e].status, to |-> "active"])
        /\ \A f \in Enrolling!Ids \ {e} : trail'[f] = trail[f]
    BY <1>2, <1>4, <2>1 DEF Enrolling!Trail
  <2>4. AllWrit
    <3>1. Writ(e)
      BY <1>2, <2>2, <2>3 DEF Writ, Enrolling!Open
    <3>2. \A f \in Enrolling!Ids \ {e} : Writ(f)
      BY <2>2, <2>3 DEF Writ
    <3>3. enrollments' = [f \in Enrolling!Ids |-> enrollments'[f]] /\ trail' = [f \in Enrolling!Ids |-> trail'[f]]
      BY <1>4, <2>1 DEF Enrolling!Moves, Enrolling!Trail
    <3> QED BY <3>1, <3>2, <3>3 DEF AllWrit
  <2>5. Enrolling!PolicyGoverns'
    BY <1>4, <2>1, <2>2 DEF Enrolling!PolicyGoverns
  <2>6. Enrolling!ActivatedWhileAllowed' /\ granted' \subseteq [policy : BOOLEAN, requester : BOOLEAN, seats : BOOLEAN, room : BOOLEAN]
    <3> PICK p, q, r, u : p = (policy = "automatic" \/ row.reviewed # Nobody) /\ q = Enrolling!mayRequest(row.by)
                          /\ r = (Enrolling!activeMembers < MaxTeam) /\ u = SeatStands(e)
      OBVIOUS
    <3>1. p = TRUE /\ q = TRUE /\ r = TRUE /\ u = TRUE
      BY <1>2, <1>4, Zenon
    <3>2. granted' = granted \cup {[policy |-> p, requester |-> q, room |-> r, seats |-> u]}
      BY <1>4
    <3>3. granted' = granted \cup {[policy |-> TRUE, requester |-> TRUE, room |-> TRUE, seats |-> TRUE]}
      BY <3>1, <3>2
    <3>4. [policy |-> TRUE, requester |-> TRUE, room |-> TRUE, seats |-> TRUE]
            \in [policy : BOOLEAN, requester : BOOLEAN, seats : BOOLEAN, room : BOOLEAN]
      OBVIOUS
    <3> QED BY <2>1, <3>3, <3>4 DEF Enrolling!ActivatedWhileAllowed
  <2>7. child \in ChildRecords /\ child.member = "active" /\ child.token = "live"
    <3>1. row.seats \in BOOLEAN
      BY <1>2, <2>1 DEF EnrollmentRecords
    <3> QED BY <3>1 DEF ChildRecords
  <2>8. children' \in [Enrolling!Ids -> ChildRecords] /\ children'[e] = child /\ \A f \in Enrolling!Ids \ {e} : children'[f] = children[f]
    BY <1>2, <1>4, <2>1, <2>7
  <2>9. redeemed' \in [Enrolling!Ids -> 0..2] /\ redeemed'[e] = 1 /\ \A f \in Enrolling!Ids \ {e} : redeemed'[f] = redeemed[f]
    <3>1. redeemed[e] = 0
      <4>1. redeemed[e] \in 0..2 /\ redeemed[e] <= 1 /\ redeemed[e] # 1
        BY <1>2, <2>1 DEF Enrolling!OneAgent
      <4> QED BY <4>1
    <3>2. redeemed' = [redeemed EXCEPT ![e] = 1]
      BY <1>2, <1>4, <2>1, <3>1
    <3> QED BY <1>2, <2>1, <3>2
  <2>10. Enrolling!activeMembers' <= MaxTeam
    <3> DEFINE A == {f \in Enrolling!Ids : children[f].member = "active"}
               B == {f \in Enrolling!Ids : children'[f].member = "active"}
               i == IF inviter.active THEN 1 ELSE 0
    <3>1. Cardinality(Owners) + i + Cardinality(A) < MaxTeam
      BY <1>4, EnrollingSize DEF Enrolling!activeMembers
    <3>2. Enrolling!activeMembers' = Cardinality(Owners) + i + Cardinality(B)
      BY <1>4, EnrollingSize DEF Enrolling!activeMembers
    <3>3. B \subseteq A \cup {e} /\ A \subseteq Enrolling!Ids /\ i \in 0..1
      BY <2>8
    <3>4. IsFiniteSet(Enrolling!Ids)
      BY IdsFinite
    <3> HIDE DEF A, B, i
    <3>5. IsFiniteSet(A)
      BY <3>3, <3>4, FS_Subset
    <3> PICK C : C = A \cup {e}
      OBVIOUS
    <3>6. IsFiniteSet(C) /\ Cardinality(C) = IF e \in A THEN Cardinality(A) ELSE Cardinality(A) + 1
      BY <3>5, FS_AddElement, Zenon
    <3>7. IsFiniteSet(B) /\ Cardinality(B) <= Cardinality(C)
      BY <3>3, <3>6, FS_Subset
    <3>8. Cardinality(A) \in Nat /\ Cardinality(B) \in Nat /\ Cardinality(Owners) \in Nat
      BY <3>5, <3>7, FS_CardinalityType, EnrollmentBounds
    <3> QED BY <3>1, <3>2, <3>3, <3>6, <3>7, <3>8, EnrollmentBounds
  <2>11. Enrolling!OneAgent'
    <3>1. \A f \in Enrolling!Ids : redeemed'[f] <= 1 /\ (redeemed'[f] = 1 <=> enrollments'[f].status = "active")
      <4>1. redeemed'[e] = 1 /\ enrollments'[e].status = "active"
        BY <2>2, <2>9
      <4>2. \A f \in Enrolling!Ids \ {e} : redeemed'[f] <= 1 /\ (redeemed'[f] = 1 <=> enrollments'[f].status = "active")
        BY <2>1, <2>2, <2>9 DEF Enrolling!OneAgent
      <4> QED BY <4>1, <4>2
    <3>2. \A f \in Enrolling!Ids : children'[f].member = "revoked" => children'[f].token # "live"
      BY <2>1, <2>7, <2>8 DEF Enrolling!OneAgent
    <3> QED BY <2>10, <3>1, <3>2 DEF Enrolling!OneAgent
  <2>12. UNCHANGED policy /\ UNCHANGED owners /\ UNCHANGED inviter /\ UNCHANGED channel /\ Enrolling!Counters /\ Enrolling!Ends(s)
    BY <1>4
  <2>13. \A f \in Enrolling!Ids : enrollments'[f] # enrollments[f] => Enrolling!Row(f) \in tx[s].held /\ enrollments[f].status # "none"
    BY <1>2, <2>2
  <2>14. \A o \in Sessions \ {s} : LeavesAlone(tx[o])
    BY <2>12, <2>13, OthersKeep
  <2> QED BY <2>4, <2>5, <2>6, <2>8, <2>9, <2>11, <2>12, <2>14, EnrollmentTypes, EnrollerCommits DEF EnrollmentInv
<1> QED BY <1>3, <1>4, EnrollerEnds DEF Enrolling!Refused

LEMMA CommitDisableKeeps ==
  ASSUME EnrollmentInv, NEW s \in Sessions, Enrolling!CommitDisable(s)
  PROVE  EnrollmentInv' /\ Enrolling!EndedIsFinal
<1> PICK e : e = tx[s].id
  OBVIOUS
<1>1. /\ enrollments \in [Enrolling!Ids -> EnrollmentRecords] /\ owners \subseteq Owners
      /\ inviter \in [active : BOOLEAN, token : BOOLEAN] /\ channel \in [open : BOOLEAN, joined : BOOLEAN]
      /\ children \in [Enrolling!Ids -> ChildRecords] /\ Enrolling!OneAgent
  BY EnrollmentTypes DEF EnrollmentInv
<1>2. e \in {0} \cup Enrolling!Ids /\ 0 \notin Enrolling!Ids
  BY EnrollerOf DEF EnrollerRecords, Enrolling!Ids
<1>3. \/ Enrolling!Refused(s)
      \/ /\ Enrolling!Ends(s) /\ Enrolling!Counters /\ UNCHANGED policy /\ UNCHANGED owners /\ UNCHANGED channel
         /\ UNCHANGED enrollments /\ UNCHANGED trail /\ UNCHANGED granted /\ UNCHANGED redeemed
         /\ \/ e = 0 /\ inviter' = [active |-> FALSE, token |-> FALSE] /\ UNCHANGED children
            \/ /\ e # 0 /\ UNCHANGED inviter
               /\ children' = [children EXCEPT ![e].member = "revoked", ![e].token = "revoked"]
  BY DEF Enrolling!CommitDisable
<1>4. ASSUME Enrolling!Ends(s), Enrolling!Counters, UNCHANGED policy, UNCHANGED owners, UNCHANGED channel,
             UNCHANGED enrollments, UNCHANGED trail, UNCHANGED granted, UNCHANGED redeemed,
             e = 0, inviter' = [active |-> FALSE, token |-> FALSE], UNCHANGED children
      PROVE  EnrollmentInv' /\ Enrolling!EndedIsFinal
  <2>1. inviter' \in [active : BOOLEAN, token : BOOLEAN] /\ ~inviter'.active
    BY <1>4, SMTT(30)
  <2> QED BY <1>1, <1>4, <2>1, EnrollerChanges DEF Enrolling!OneAgent
<1>5. ASSUME Enrolling!Ends(s), Enrolling!Counters, UNCHANGED policy, UNCHANGED owners, UNCHANGED channel,
             UNCHANGED enrollments, UNCHANGED trail, UNCHANGED granted, UNCHANGED redeemed,
             e # 0, UNCHANGED inviter, children' = [children EXCEPT ![e].member = "revoked", ![e].token = "revoked"]
      PROVE  EnrollmentInv' /\ Enrolling!EndedIsFinal
  <2> DEFINE mid == [children EXCEPT ![e].member = "revoked"]
  <2>1. children' = [mid EXCEPT ![e].token = "revoked"]
    BY <1>5
  <2>2. mid \in [Enrolling!Ids -> ChildRecords] /\ mid[e].member = "revoked" /\ \A f \in Enrolling!Ids \ {e} : mid[f] = children[f]
    <3>1. mid[e] = [children[e] EXCEPT !.member = "revoked"] /\ children[e] \in ChildRecords
      BY <1>1, <1>2, <1>5
    <3>2. mid[e] \in ChildRecords /\ mid[e].member = "revoked"
      BY <3>1 DEF ChildRecords
    <3> QED BY <1>1, <1>2, <1>5, <3>2
  <2> HIDE DEF mid
  <2>3. children'[e] \in ChildRecords /\ children'[e].member = "revoked" /\ children'[e].token = "revoked"
    <3>1. children'[e] = [mid[e] EXCEPT !.token = "revoked"] /\ mid[e] \in ChildRecords
      BY <1>2, <1>5, <2>1, <2>2
    <3> QED BY <2>2, <3>1 DEF ChildRecords
  <2>4. children' \in [Enrolling!Ids -> ChildRecords] /\ \A f \in Enrolling!Ids \ {e} : children'[f] = children[f]
    BY <1>2, <1>5, <2>1, <2>2, <2>3
  <2>5. /\ \A f \in Enrolling!Ids : children'[f].member = "revoked" => children'[f].token # "live"
        /\ \A f \in Enrolling!Ids : children'[f].member = "active" => children[f].member = "active"
    BY <1>1, <2>3, <2>4 DEF Enrolling!OneAgent
  <2> QED BY <1>1, <1>5, <2>4, <2>5, EnrollerChanges
<1> QED BY <1>3, <1>4, <1>5, EnrollerEnds DEF Enrolling!Refused

LEMMA CommitTokenKeeps ==
  ASSUME EnrollmentInv, NEW s \in Sessions, Enrolling!CommitToken(s)
  PROVE  EnrollmentInv' /\ Enrolling!EndedIsFinal
<1> PICK t : t = tx[s]
  OBVIOUS
<1> PICK e : e = t.id
  OBVIOUS
<1> PICK v : v = IF t.kind = "token" THEN "live" ELSE "revoked"
  OBVIOUS
<1>1. /\ enrollments \in [Enrolling!Ids -> EnrollmentRecords] /\ owners \subseteq Owners
      /\ inviter \in [active : BOOLEAN, token : BOOLEAN] /\ channel \in [open : BOOLEAN, joined : BOOLEAN]
      /\ children \in [Enrolling!Ids -> ChildRecords] /\ Enrolling!OneAgent
  BY EnrollmentTypes DEF EnrollmentInv
<1>2. e \in {0} \cup Enrolling!Ids /\ 0 \notin Enrolling!Ids
  BY EnrollerOf DEF EnrollerRecords, Enrolling!Ids
<1>3. \/ Enrolling!Refused(s)
      \/ /\ Enrolling!Ends(s) /\ Enrolling!Counters /\ UNCHANGED policy /\ UNCHANGED owners /\ UNCHANGED channel
         /\ UNCHANGED enrollments /\ UNCHANGED trail /\ UNCHANGED granted /\ UNCHANGED redeemed
         /\ \/ e = 0 /\ inviter' = [inviter EXCEPT !.token = t.kind = "token" /\ @] /\ UNCHANGED children
            \/ /\ e # 0 /\ UNCHANGED inviter /\ (t.kind = "token" => children[e].member = "active")
               /\ children' = [children EXCEPT ![e].token = v]
  BY DEF Enrolling!CommitToken, Enrolling!agentActive
<1>4. ASSUME Enrolling!Ends(s), Enrolling!Counters, UNCHANGED policy, UNCHANGED owners, UNCHANGED channel,
             UNCHANGED enrollments, UNCHANGED trail, UNCHANGED granted, UNCHANGED redeemed,
             e = 0, inviter' = [inviter EXCEPT !.token = t.kind = "token" /\ @], UNCHANGED children
      PROVE  EnrollmentInv' /\ Enrolling!EndedIsFinal
  <2> PICK w \in BOOLEAN : w = (t.kind = "token" /\ inviter.token)
    OBVIOUS
  <2>1. inviter' = [inviter EXCEPT !.token = w]
    BY <1>4
  <2>2. inviter' \in [active : BOOLEAN, token : BOOLEAN] /\ inviter'.active = inviter.active
    BY <1>1, <2>1
  <2> QED BY <1>1, <1>4, <2>2, EnrollerChanges DEF Enrolling!OneAgent
<1>5. ASSUME Enrolling!Ends(s), Enrolling!Counters, UNCHANGED policy, UNCHANGED owners, UNCHANGED channel,
             UNCHANGED enrollments, UNCHANGED trail, UNCHANGED granted, UNCHANGED redeemed,
             e # 0, UNCHANGED inviter, t.kind = "token" => children[e].member = "active",
             children' = [children EXCEPT ![e].token = v]
      PROVE  EnrollmentInv' /\ Enrolling!EndedIsFinal
  <2>3. children'[e] \in ChildRecords /\ children'[e].member = children[e].member /\ children'[e].token = v
    <3>1. children'[e] = [children[e] EXCEPT !.token = v] /\ children[e] \in ChildRecords
      BY <1>1, <1>2, <1>5
    <3> QED BY <3>1 DEF ChildRecords
  <2>4. children' \in [Enrolling!Ids -> ChildRecords] /\ \A f \in Enrolling!Ids \ {e} : children'[f] = children[f]
    BY <1>1, <1>2, <1>5, <2>3
  <2>5. /\ \A f \in Enrolling!Ids : children'[f].member = "revoked" => children'[f].token # "live"
        /\ \A f \in Enrolling!Ids : children'[f].member = "active" => children[f].member = "active"
    BY <1>1, <1>5, <2>3, <2>4 DEF Enrolling!OneAgent
  <2> QED BY <1>1, <1>5, <2>4, <2>5, EnrollerChanges
<1> QED BY <1>3, <1>4, <1>5, EnrollerEnds DEF Enrolling!Refused

LEMMA CommitOtherKeeps ==
  ASSUME EnrollmentInv, NEW s \in Sessions, Enrolling!CommitOther(s)
  PROVE  EnrollmentInv' /\ Enrolling!EndedIsFinal
<1> PICK t : t = tx[s]
  OBVIOUS
<1>1. /\ enrollments \in [Enrolling!Ids -> EnrollmentRecords] /\ owners \subseteq Owners
      /\ inviter \in [active : BOOLEAN, token : BOOLEAN] /\ channel \in [open : BOOLEAN, joined : BOOLEAN]
      /\ children \in [Enrolling!Ids -> ChildRecords] /\ Enrolling!OneAgent
  BY EnrollmentTypes DEF EnrollmentInv
<1>2. EnrollerOK(t) /\ t.kind \in {"demote", "leave", "archive"} /\ t.pc = "commit"
  BY EnrollerOf DEF Enrolling!CommitOther, Enrolling!At
<1>3. /\ Enrolling!Ends(s) /\ Enrolling!Counters /\ UNCHANGED policy /\ UNCHANGED inviter /\ UNCHANGED children
      /\ UNCHANGED enrollments /\ UNCHANGED trail /\ UNCHANGED granted /\ UNCHANGED redeemed
      /\ owners' \subseteq owners
      /\ \/ t.kind = "leave" /\ channel' = [channel EXCEPT !.joined = FALSE]
         \/ t.kind = "archive" /\ channel' = [channel EXCEPT !.open = FALSE]
         \/ channel' = channel
  BY <1>2 DEF Enrolling!CommitOther
<1>4. channel' \in [open : BOOLEAN, joined : BOOLEAN]
  BY <1>1, <1>3
<1>5. channel' # channel => Enrolling!Conversation \in tx[s].held
  BY <1>2, <1>3 DEF EnrollerOK
<1> QED BY <1>1, <1>3, <1>4, <1>5, EnrollerChanges DEF Enrolling!OneAgent

LEMMA EnrollmentDayPassesKeeps ==
  ASSUME EnrollmentInv, Enrolling!DayPasses
  PROVE  EnrollmentInv' /\ Enrolling!EndedIsFinal
<1>1. UNCHANGED policy /\ UNCHANGED owners /\ UNCHANGED inviter /\ UNCHANGED channel /\ UNCHANGED enrollments
      /\ UNCHANGED trail /\ UNCHANGED children /\ UNCHANGED granted /\ UNCHANGED redeemed /\ UNCHANGED tx
      /\ UNCHANGED aborted /\ UNCHANGED started
  BY DEF Enrolling!DayPasses, Enrolling!Data
<1>2. today' \in 0..MaxDays
  BY EnrollmentTypes, EnrollmentBounds DEF EnrollmentInv, Enrolling!DayPasses
<1>3. Enrolling!TypeOK'
  BY <1>1, <1>2, EnrollmentTypes, EnrollmentTypesHold DEF EnrollmentInv
<1>4. Enrollers'
  <2>1. \A s \in Sessions : EnrollerOK(tx[s])'
    BY <1>1 DEF EnrollmentInv, Enrollers, EnrollerOK, SeatStands
  <2> QED BY <1>1, <2>1 DEF EnrollmentInv, Enrollers, EnrollersApart
<1>5. Chained' /\ Enrolling!PolicyGoverns' /\ Enrolling!ActivatedWhileAllowed' /\ Enrolling!OneAgent' /\ Enrolling!EndedIsFinal
      /\ \A e \in Enrolling!Ids : enrollments'[e].status = "none" => enrollments'[e].reviewed = Nobody
  BY <1>1, EnrollingSize DEF EnrollmentInv, Chained, Enrolling!PolicyGoverns, Enrolling!ActivatedWhileAllowed,
                             Enrolling!OneAgent, Enrolling!activeMembers, Enrolling!EndedIsFinal
<1> QED BY <1>3, <1>4, <1>5 DEF EnrollmentInv

LEMMA EnrollmentStep ==
  ASSUME EnrollmentInv, [Enrolling!Next]_EnrollingVars
  PROVE  EnrollmentInv' /\ Enrolling!EndedIsFinal
<1>1. CASE Enrolling!Next
  <2>1. ASSUME NEW s \in Sessions, Enrolling!Asks(s) \/ Enrolling!Steps(s) PROVE EnrollmentInv' /\ Enrolling!EndedIsFinal
    BY <2>1, AsksKeep, RequireRequesterKeeps, EnrollmentExpireKeeps, ScopeKeeps, EnrLockWorkspaceKeeps,
       CommitPolicyKeeps,
       CommitRequestKeeps, CommitListKeeps, LockEnrollmentKeeps, CommitReviewKeeps, CommitCancelKeeps,
       SeatKeeps, CommitRedeemKeeps, EnrLockTargetKeeps, CommitDisableKeeps, CommitTokenKeeps,
       CommitOtherKeeps, EnrAbortsKeeps DEF Enrolling!Steps
  <2> QED BY <1>1, <2>1, EnrollmentDayPassesKeeps DEF Enrolling!Next
<1>2. CASE UNCHANGED EnrollingVars
  <2>1. UNCHANGED policy /\ UNCHANGED owners /\ UNCHANGED inviter /\ UNCHANGED channel /\ UNCHANGED enrollments
        /\ UNCHANGED trail /\ UNCHANGED children /\ UNCHANGED granted /\ UNCHANGED redeemed /\ UNCHANGED tx
        /\ UNCHANGED aborted /\ UNCHANGED started /\ UNCHANGED today
    BY <1>2 DEF EnrollingVars
  <2>2. Enrolling!TypeOK'
    BY <2>1, EnrollmentTypes, EnrollmentTypesHold DEF EnrollmentInv
  <2>3. Enrollers'
    <3>1. \A s \in Sessions : EnrollerOK(tx[s])'
      BY <2>1 DEF EnrollmentInv, Enrollers, EnrollerOK, SeatStands
    <3> QED BY <2>1, <3>1 DEF EnrollmentInv, Enrollers, EnrollersApart
  <2>4. Chained' /\ Enrolling!PolicyGoverns' /\ Enrolling!ActivatedWhileAllowed' /\ Enrolling!OneAgent' /\ Enrolling!EndedIsFinal
        /\ \A e \in Enrolling!Ids : enrollments'[e].status = "none" => enrollments'[e].reviewed = Nobody
    BY <2>1, EnrollingSize DEF EnrollmentInv, Chained, Enrolling!PolicyGoverns, Enrolling!ActivatedWhileAllowed,
                               Enrolling!OneAgent, Enrolling!activeMembers, Enrolling!EndedIsFinal
  <2> QED BY <2>2, <2>3, <2>4 DEF EnrollmentInv
<1> QED BY <1>1, <1>2

LEMMA TrailsAreChains == EnrollmentInv => Enrolling!AuditChains
BY DEF EnrollmentInv, Chained, Chain, Enrolling!AuditChains

HookKinds == Hooks!Channels \cup Hooks!Commands \cup {"none", "post", "archive"}
HookPcs == {"none", "channel", "hook", "capacity", "find", "revoke", "commit", "workspace", "bot", "auth",
            "resolve", "member", "credential"}
WorkRecords ==
  [kind : HookKinds, pc : HookPcs, cred : {0} \cup Hooks!Credentials, found : SUBSET Hooks!Credentials, active : BOOLEAN,
   held : SUBSET Hooks!Rows, shared : SUBSET Hooks!Credentials]
CredentialRecords == [status : {"none", "live", "revoked"}, expires : 0..MaxTime + TTL, writes : BOOLEAN]
PostRecords == [current : BOOLEAN, live : BOOLEAN, silenced : BOOLEAN, open : BOOLEAN]

(* A transaction that issues a credential.                                 *)
Issuing(w) == w.kind \in {"enable", "rotate", "cli_rotate"} /\ w.pc = "commit"
Issued(c) == credentials[c].status # "none"
(* What a transaction may rely on where it is.                             *)
HookWorkOK(w) ==
  /\ w.pc = "hook" => w.kind \in Hooks!Channels
  /\ w.pc = "capacity" => w.kind = "enable"
  /\ w.pc \in {"find", "revoke"} => w.kind \in Hooks!Channels \cup {"cli_rotate", "cli_revoke"}
  /\ w.pc = "bot" => w.kind \in Hooks!Commands \ {"cli_create"}
  /\ w.pc \in {"resolve", "member", "credential"} => w.kind = "post"
  /\ w.found # {} => w.pc \in {"revoke", "commit"} /\ w.kind \in Hooks!Channels \cup {"cli_rotate", "cli_revoke"}
  /\ w.shared # {} => w.kind = "post" /\ w.pc = "commit"
  /\ \A c \in w.found : Issued(c)
  /\ w.kind \in Hooks!Channels /\ w.pc \in {"hook", "capacity", "find", "revoke", "commit"} => "conversation" \in w.held
  /\ w.kind \in Hooks!Channels /\ w.pc \in {"capacity", "find", "revoke", "commit"} => "hook" \in w.held
  /\ w.kind = "archive" /\ w.pc = "commit" => "conversation" \in w.held
  /\ w.kind = "post" /\ w.pc \in {"member", "credential", "commit"} => "conversation" \in w.held
  /\ w.kind = "post" => w.cred \in Hooks!Credentials /\ Issued(w.cred)
  /\ w.kind = "post" /\ w.pc = "commit" =>
       /\ w.shared = {w.cred} /\ hook.current = w.cred /\ ~hook.disabled /\ Hooks!Live(w.cred) /\ ~archived
  /\ Issuing(w) => w.cred \in Hooks!Credentials /\ ~Issued(w.cred)
  /\ w.kind # "post" /\ ~Issuing(w) => w.cred = 0
  /\ w.kind \in Hooks!Channels /\ w.pc \in {"revoke", "commit"} /\ hook.current # 0 /\ Hooks!Live(hook.current)
       => hook.current \in w.found
  /\ w.pc = "capacity" => bot # "active"
  /\ w.kind = "rotate" /\ w.pc \in {"find", "revoke", "commit"} => bot = "active"
  /\ w.kind = "enable" /\ w.pc \in {"find", "revoke", "commit"} =>
       bot = "active" \/ ("workspace" \in w.held /\ Hooks!Members < MaxSeats)
  /\ w.kind = "cli_create" /\ w.pc = "commit" => "workspace" \in w.held /\ Hooks!Members < MaxSeats
HookWorksApart(p, q) ==
  /\ p.held \cap q.held = {}
  /\ Issuing(p) => q.cred # p.cred
  /\ p.pc = "commit" => p.found \cap q.shared = {}
HookWorks ==
  /\ \A s \in Sessions : HookWorkOK(work[s])
  /\ \A s, o \in Sessions : s # o => HookWorksApart(work[s], work[o])

SilencedAreRevoked == \A c \in silenced : credentials[c].status = "revoked"
HookInv == Hooks!TypeOK /\ HookWorks /\ SilencedAreRevoked /\ Hooks!PostsAreCurrent /\ Hooks!WebhookHolds

HookTyped ==
  /\ time \in 0..MaxTime /\ bot \in {"none", "active", "revoked"} /\ manages \in BOOLEAN /\ archived \in BOOLEAN
  /\ hook \in [current : {0} \cup Hooks!Credentials, disabled : BOOLEAN]
  /\ credentials \in [Hooks!Credentials -> CredentialRecords]
  /\ others \in 0..MaxSeats /\ starts \in 0..MaxStarts
  /\ work \in [Sessions -> WorkRecords]
  /\ posts \subseteq PostRecords
  /\ silenced \subseteq Hooks!Credentials /\ replaced \in BOOLEAN /\ attempts \in [Hooks!Credentials -> 0..WindowPosts + 1]

LEMMA HookTypes == Hooks!TypeOK <=> HookTyped
BY DEF Hooks!TypeOK, HookTyped, CredentialRecords, PostRecords, WorkRecords, HookKinds, HookPcs

LEMMA HookTypesNext == HookTyped' => Hooks!TypeOK'
BY DEF Hooks!TypeOK, HookTyped, CredentialRecords, PostRecords, WorkRecords, HookKinds, HookPcs

(* A transaction moves on, with rows it locked.                            *)
Onward(w, p, rows) == [w EXCEPT !.pc = p, !.held = @ \cup rows]
WithFound(w, p, f) == [w EXCEPT !.pc = p, !.found = f]
WithCred(w, c) == [w EXCEPT !.cred = c]
WithPost(w, p, c) == [w EXCEPT !.pc = p, !.shared = c]

LEMMA OnwardOK ==
  ASSUME NEW w \in WorkRecords, NEW p \in HookPcs, NEW rows, rows \subseteq Hooks!Rows
  PROVE  /\ Onward(w, p, rows) \in WorkRecords /\ Onward(w, p, rows).pc = p
         /\ Onward(w, p, rows).kind = w.kind /\ Onward(w, p, rows).cred = w.cred
         /\ Onward(w, p, rows).found = w.found /\ Onward(w, p, rows).shared = w.shared
         /\ Onward(w, p, rows).held = w.held \cup rows
<1> DEFINE a == [w EXCEPT !.pc = p]
<1>1. a \in WorkRecords /\ a.pc = p /\ a.kind = w.kind /\ a.cred = w.cred /\ a.found = w.found
      /\ a.shared = w.shared /\ a.held = w.held
  BY DEF WorkRecords
<1> DEFINE b == [a EXCEPT !.held = a.held \cup rows]
<1>2. Onward(w, p, rows) = b
  BY <1>1 DEF Onward
<1> HIDE DEF a
<1> PICK h : h = a.held \cup rows
  OBVIOUS
<1>3. h \subseteq Hooks!Rows
  BY <1>1 DEF WorkRecords
<1>4. b = [a EXCEPT !.held = h]
  OBVIOUS
<1>5. b \in WorkRecords /\ b.pc = p /\ b.kind = w.kind /\ b.cred = w.cred /\ b.found = w.found
      /\ b.shared = w.shared /\ b.held = h
  <2> HIDE DEF b
  <2> QED BY <1>1, <1>3, <1>4 DEF WorkRecords
<1> HIDE DEF b
<1> QED BY <1>1, <1>2, <1>5

LEMMA OnwardAlone ==
  ASSUME NEW w \in WorkRecords, NEW p \in HookPcs
  PROVE  /\ Onward(w, p, {}) \in WorkRecords /\ Onward(w, p, {}).pc = p
         /\ Onward(w, p, {}).kind = w.kind /\ Onward(w, p, {}).cred = w.cred
         /\ Onward(w, p, {}).found = w.found /\ Onward(w, p, {}).shared = w.shared
         /\ Onward(w, p, {}).held = w.held
<1> DEFINE a == [w EXCEPT !.pc = p]
<1>1. a \in WorkRecords /\ a.pc = p /\ a.kind = w.kind /\ a.cred = w.cred /\ a.found = w.found
      /\ a.shared = w.shared /\ a.held = w.held
  BY DEF WorkRecords
<1> DEFINE b == [a EXCEPT !.held = a.held \cup {}]
<1>2. Onward(w, p, {}) = b
  BY <1>1 DEF Onward
<1> HIDE DEF a
<1> PICK h : h = a.held
  OBVIOUS
<1>3. a.held \cup {} = h
  OBVIOUS
<1>4. b = [a EXCEPT !.held = h]
  BY <1>3
<1>5. b \in WorkRecords /\ b.pc = p /\ b.kind = w.kind /\ b.cred = w.cred /\ b.found = w.found
      /\ b.shared = w.shared /\ b.held = h
  <2> HIDE DEF b
  <2> QED BY <1>1, <1>4 DEF WorkRecords
<1> HIDE DEF b
<1> QED BY <1>1, <1>2, <1>5

LEMMA WithFoundOK ==
  ASSUME NEW w \in WorkRecords, NEW p \in HookPcs, NEW f, f \subseteq Hooks!Credentials
  PROVE  /\ WithFound(w, p, f) \in WorkRecords /\ WithFound(w, p, f).pc = p
         /\ WithFound(w, p, f).kind = w.kind /\ WithFound(w, p, f).cred = w.cred
         /\ WithFound(w, p, f).found = f /\ WithFound(w, p, f).shared = w.shared
         /\ WithFound(w, p, f).held = w.held
<1> DEFINE a == [w EXCEPT !.pc = p]
<1>1. a \in WorkRecords /\ a.pc = p /\ a.kind = w.kind /\ a.cred = w.cred /\ a.found = w.found
      /\ a.shared = w.shared /\ a.held = w.held
  BY DEF WorkRecords
<1> DEFINE b == [a EXCEPT !.found = f]
<1>2. WithFound(w, p, f) = b
  BY DEF WithFound
<1> HIDE DEF a
<1>3. b \in WorkRecords /\ b.pc = p /\ b.kind = w.kind /\ b.cred = w.cred /\ b.found = f
      /\ b.shared = w.shared /\ b.held = w.held
  BY <1>1 DEF WorkRecords
<1> HIDE DEF b
<1> QED BY <1>2, <1>3

LEMMA WithPostOK ==
  ASSUME NEW w \in WorkRecords, NEW p \in HookPcs, NEW f, f \subseteq Hooks!Credentials
  PROVE  /\ WithPost(w, p, f) \in WorkRecords /\ WithPost(w, p, f).pc = p
         /\ WithPost(w, p, f).kind = w.kind /\ WithPost(w, p, f).cred = w.cred
         /\ WithPost(w, p, f).found = w.found /\ WithPost(w, p, f).shared = f
         /\ WithPost(w, p, f).held = w.held
<1> DEFINE a == [w EXCEPT !.pc = p]
<1>1. a \in WorkRecords /\ a.pc = p /\ a.kind = w.kind /\ a.cred = w.cred /\ a.found = w.found
      /\ a.shared = w.shared /\ a.held = w.held
  BY DEF WorkRecords
<1> DEFINE b == [a EXCEPT !.shared = f]
<1>2. WithPost(w, p, f) = b
  BY DEF WithPost
<1> HIDE DEF a
<1>3. b \in WorkRecords /\ b.pc = p /\ b.kind = w.kind /\ b.cred = w.cred /\ b.found = w.found
      /\ b.shared = f /\ b.held = w.held
  BY <1>1 DEF WorkRecords
<1> HIDE DEF b
<1> QED BY <1>2, <1>3

LEMMA WithCredOK ==
  ASSUME NEW w \in WorkRecords, NEW c \in {0} \cup Hooks!Credentials
  PROVE  /\ WithCred(w, c) \in WorkRecords /\ WithCred(w, c).cred = c
         /\ WithCred(w, c).kind = w.kind /\ WithCred(w, c).pc = w.pc
         /\ WithCred(w, c).found = w.found /\ WithCred(w, c).shared = w.shared
         /\ WithCred(w, c).held = w.held
BY DEF WithCred, WorkRecords

LEMMA NoHookWork ==
  /\ Hooks!NoWork \in WorkRecords /\ HookWorkOK(Hooks!NoWork) /\ HookWorkOK(Hooks!NoWork)'
  /\ Hooks!NoWork.held = {} /\ Hooks!NoWork.shared = {} /\ Hooks!NoWork.found = {} /\ Hooks!NoWork.cred = 0
  /\ Hooks!NoWork.kind = "none" /\ Hooks!NoWork.pc = "none"
<1>1. Hooks!NoWork \in WorkRecords
  BY DEF Hooks!NoWork, WorkRecords, HookKinds, HookPcs
<1> QED BY <1>1 DEF Hooks!NoWork, HookWorkOK, Issuing, Hooks!Channels, Hooks!Commands

LEMMA HookInit == Hooks!Init => HookInv
<1> SUFFICES ASSUME Hooks!Init PROVE HookInv
  OBVIOUS
<1> USE WebhookBounds
<1>1. HookTyped
  <2>1. work \in [Sessions -> WorkRecords]
    BY NoHookWork DEF Hooks!Init
  <2>2. credentials \in [Hooks!Credentials -> CredentialRecords]
    BY DEF Hooks!Init, CredentialRecords
  <2>3. attempts \in [Hooks!Credentials -> 0..WindowPosts + 1]
    BY DEF Hooks!Init
  <2>5. hook \in [current : {0} \cup Hooks!Credentials, disabled : BOOLEAN]
    BY DEF Hooks!Init
  <2>4. /\ time \in 0..MaxTime /\ others \in 0..MaxSeats /\ starts \in 0..MaxStarts
    BY DEF Hooks!Init
  <2>6. /\ bot \in {"none", "active", "revoked"} /\ manages \in BOOLEAN /\ archived \in BOOLEAN
        /\ posts = {} /\ silenced = {} /\ replaced \in BOOLEAN
    BY DEF Hooks!Init
  <2> QED BY <2>1, <2>2, <2>3, <2>4, <2>5, <2>6 DEF HookTyped
<1>2. HookWorks
  BY NoHookWork DEF Hooks!Init, HookWorks, HookWorksApart, Issuing
<1>3. SilencedAreRevoked /\ Hooks!PostsAreCurrent
  BY DEF Hooks!Init, SilencedAreRevoked, Hooks!PostsAreCurrent
<1>4. Hooks!WebhookHolds
  BY DEF Hooks!Init, Hooks!WebhookHolds, Hooks!Members
<1> QED BY <1>1, <1>2, <1>3, <1>4, HookTypes DEF HookInv

-----------------------------------------------------------------------------
(* What a step of one transaction leaves to the others.                    *)
Spared(t) ==
  /\ "conversation" \in t.held => hook' = hook /\ archived' = archived
  /\ "hook" \in t.held => hook' = hook /\ bot' = bot
  /\ "workspace" \in t.held => Hooks!Members' <= Hooks!Members
  /\ \A c \in Hooks!Credentials : Issued(c) => Issued(c)' /\ (Hooks!Live(c)' => Hooks!Live(c))
  /\ Issuing(t) => (Issued(t.cred)' <=> Issued(t.cred))
  /\ \A c \in t.shared : Hooks!Live(c) => Hooks!Live(c)'

LEMMA HookWorkStays ==
  ASSUME HookInv, NEW t \in WorkRecords, HookWorkOK(t), Spared(t), Hooks!Members \in Nat, Hooks!Members' \in Nat
  PROVE  HookWorkOK(t)'
<1>1. hook.current \in {0} \cup Hooks!Credentials /\ t.found \subseteq Hooks!Credentials
  BY HookTypes DEF HookInv, HookTyped, WorkRecords
<1>2. \A c \in t.found : Issued(c)'
  BY <1>1 DEF HookWorkOK, Spared
<1>3. t.kind = "post" => t.cred \in Hooks!Credentials /\ Issued(t.cred)'
  BY DEF HookWorkOK, Spared
<1>4. t.kind = "post" /\ t.pc = "commit" =>
        t.shared = {t.cred} /\ hook'.current = t.cred /\ ~hook'.disabled /\ Hooks!Live(t.cred)' /\ ~archived'
  BY DEF HookWorkOK, Spared
<1>5. Issuing(t) => t.cred \in Hooks!Credentials /\ ~Issued(t.cred)'
  BY DEF HookWorkOK, Spared
<1>6. t.kind \in Hooks!Channels /\ t.pc \in {"revoke", "commit"} /\ hook'.current # 0 /\ Hooks!Live(hook.current)'
        => hook'.current \in t.found
  <2> SUFFICES ASSUME t.kind \in Hooks!Channels, t.pc \in {"revoke", "commit"}, hook'.current # 0, Hooks!Live(hook.current)'
               PROVE  hook'.current \in t.found
    OBVIOUS
  <2>1. hook' = hook /\ "hook" \in t.held
    BY DEF HookWorkOK, Spared
  <2> PICK c : c = hook.current
    OBVIOUS
  <2>2. c # 0 /\ c \in Hooks!Credentials /\ Hooks!Live(c)'
    BY <1>1, <2>1 DEF Hooks!Live
  <2>3. Issued(c)
    BY <2>2 DEF HookInv, Hooks!WebhookHolds, Issued
  <2>4. Hooks!Live(c)
    BY <2>2, <2>3 DEF Spared
  <2> QED BY <2>1, <2>2, <2>4 DEF HookWorkOK
<1>7. t.pc = "capacity" => bot' # "active"
  BY DEF HookWorkOK, Spared, Hooks!Channels
<1>8. t.kind = "rotate" /\ t.pc \in {"find", "revoke", "commit"} => bot' = "active"
  BY DEF HookWorkOK, Spared, Hooks!Channels
<1>9. t.kind = "enable" /\ t.pc \in {"find", "revoke", "commit"} =>
        bot' = "active" \/ ("workspace" \in t.held /\ Hooks!Members' < MaxSeats)
  BY WebhookBounds DEF HookWorkOK, Spared, Hooks!Channels
<1>10. t.kind = "cli_create" /\ t.pc = "commit" => "workspace" \in t.held /\ Hooks!Members' < MaxSeats
  BY WebhookBounds DEF HookWorkOK, Spared
<1> QED BY <1>2, <1>3, <1>4, <1>5, <1>6, <1>7, <1>8, <1>9, <1>10 DEF HookWorkOK, Issuing

LEMMA HookFacts ==
  ASSUME HookInv
  PROVE  HookTyped /\ Hooks!Members \in Nat /\ Hooks!Members <= MaxSeats
         /\ \A s \in Sessions : /\ work[s] \in WorkRecords /\ HookWorkOK(work[s])
                                /\ \A o \in Sessions \ {s} : HookWorksApart(work[s], work[o])
                                                             /\ HookWorksApart(work[o], work[s])
<1>1. HookTyped
  BY HookTypes DEF HookInv
<1>2. Hooks!Members \in Nat
  BY <1>1 DEF HookTyped, Hooks!Members
<1> QED BY <1>1, <1>2 DEF HookInv, HookTyped, HookWorks, Hooks!WebhookHolds

LEMMA HookWorksStep ==
  ASSUME HookInv, NEW s \in Sessions, NEW x \in WorkRecords, Hooks!Goes(s, x), HookWorkOK(x)',
         \A o \in Sessions \ {s} : HookWorksApart(x, work[o]) /\ HookWorksApart(work[o], x),
         \A o \in Sessions \ {s} : Spared(work[o]), Hooks!Members' \in Nat
  PROVE  HookWorks' /\ work' \in [Sessions -> WorkRecords]
<1>1. work \in [Sessions -> WorkRecords] /\ work' = [work EXCEPT ![s] = x]
  BY HookFacts DEF HookTyped, Hooks!Goes
<1>2. (\A o \in Sessions \ {s} : work'[o] = work[o]) /\ work'[s] = x
  BY <1>1
<1>3. ASSUME NEW o \in Sessions PROVE HookWorkOK(work[o])'
  <2>1. CASE o = s
    <3>1. PICK y : y = work'[o]
      OBVIOUS
    <3>2. HookWorkOK(y)'
      BY <3>1, <2>1, <1>2
    <3> QED BY <3>1, <3>2
  <2>2. CASE o # s
    <3>1. PICK y : y = work[o]
      OBVIOUS
    <3>2. HookWorkOK(y) /\ Spared(y) /\ y \in WorkRecords
      BY <3>1, <2>2, HookFacts
    <3>3. HookWorkOK(y)'
      BY <3>2, HookFacts, HookWorkStays
    <3>4. y = work'[o]
      BY <3>1, <1>2, <2>2
    <3> QED BY <3>3, <3>4
  <2> QED BY <2>1, <2>2
<1>4. \A a, b \in Sessions : a # b => HookWorksApart(work[a], work[b])'
  <2> SUFFICES ASSUME NEW a \in Sessions, NEW b \in Sessions, a # b PROVE HookWorksApart(work'[a], work'[b])
    BY DEF HookWorksApart, Issuing
  <2>1. CASE a = s
    BY <1>2, <2>1
  <2>2. CASE b = s
    BY <1>2, <2>2
  <2>3. CASE a # s /\ b # s
    BY <1>2, <2>3, HookFacts
  <2> QED BY <2>1, <2>2, <2>3
<1> QED BY <1>1, <1>3, <1>4 DEF HookWorks

(* A statement that only takes locks, reads or counts an attempt.          *)
LEMMA HookWaits ==
  ASSUME HookInv, NEW s \in Sessions, NEW x \in WorkRecords, Hooks!Goes(s, x), HookWorkOK(x),
         \A o \in Sessions \ {s} : HookWorksApart(x, work[o]) /\ HookWorksApart(work[o], x),
         UNCHANGED bot, UNCHANGED hook, UNCHANGED credentials, UNCHANGED others, UNCHANGED manages,
         UNCHANGED archived, UNCHANGED posts, UNCHANGED silenced, UNCHANGED replaced, UNCHANGED time,
         starts' \in 0..MaxStarts, attempts' \in [Hooks!Credentials -> 0..WindowPosts + 1]
  PROVE  HookInv'
<1>1. Hooks!Members' = Hooks!Members /\ Hooks!Members \in Nat
  BY HookFacts DEF Hooks!Members
<1>2. \A t : Spared(t)
  BY <1>1 DEF Spared, Issued, Hooks!Live
<1>3. HookWorkOK(x)'
  BY <1>1, <1>2, HookWorkStays
<1>4. HookWorks' /\ work' \in [Sessions -> WorkRecords]
  BY <1>1, <1>2, <1>3, HookWorksStep
<1>5. HookTyped'
  BY <1>4, HookFacts DEF HookTyped
<1>6. SilencedAreRevoked' /\ Hooks!PostsAreCurrent' /\ Hooks!WebhookHolds'
  BY DEF HookInv, SilencedAreRevoked, Hooks!PostsAreCurrent, Hooks!WebhookHolds, Hooks!Members
<1> QED BY <1>4, <1>5, <1>6, HookTypesNext DEF HookInv

LEMMA HookEnds ==
  ASSUME HookInv, NEW s \in Sessions, Hooks!Ends(s),
         UNCHANGED bot, UNCHANGED hook, UNCHANGED credentials, UNCHANGED others, UNCHANGED manages,
         UNCHANGED archived, UNCHANGED posts, UNCHANGED silenced, UNCHANGED replaced, UNCHANGED time,
         starts' \in 0..MaxStarts, attempts' \in [Hooks!Credentials -> 0..WindowPosts + 1]
  PROVE  HookInv'
<1>1. \A o \in Sessions \ {s} : HookWorksApart(Hooks!NoWork, work[o]) /\ HookWorksApart(work[o], Hooks!NoWork)
  <2> SUFFICES ASSUME NEW o \in Sessions \ {s}
               PROVE  HookWorksApart(Hooks!NoWork, work[o]) /\ HookWorksApart(work[o], Hooks!NoWork)
    OBVIOUS
  <2>1. Issuing(work[o]) => work[o].cred # 0
    <3>1. HookWorkOK(work[o]) /\ 0 \notin Hooks!Credentials
      BY HookFacts DEF Hooks!Credentials
    <3> QED BY <3>1 DEF HookWorkOK
  <2> QED BY <2>1, NoHookWork DEF HookWorksApart, Issuing
<1> QED BY <1>1, NoHookWork, HookWaits DEF Hooks!Ends

LEMMA OnlyIs ==
  ASSUME HookInv, Hooks!Only
  PROVE  /\ UNCHANGED bot /\ UNCHANGED hook /\ UNCHANGED credentials /\ UNCHANGED others /\ UNCHANGED manages
         /\ UNCHANGED archived /\ UNCHANGED posts /\ UNCHANGED silenced /\ UNCHANGED replaced /\ UNCHANGED time
         /\ starts' \in 0..MaxStarts /\ attempts' \in [Hooks!Credentials -> 0..WindowPosts + 1]
BY HookFacts DEF Hooks!Only, Hooks!Data, HookTyped

(* It goes on, with rows nobody else has.                                  *)
LEMMA HookGoesOn ==
  ASSUME HookInv, NEW s \in Sessions, NEW p \in HookPcs, NEW rows, rows \subseteq Hooks!Rows,
         Hooks!Moves(s, p, rows), Hooks!Takes(s, rows),
         p = "commit" => work[s].found = {} /\ work[s].kind \notin {"enable", "rotate", "cli_rotate"},
         ~Issuing(work[s]),
         \A x \in WorkRecords :
           /\ x.kind = work[s].kind /\ x.pc = p /\ x.cred = work[s].cred /\ x.found = work[s].found
           /\ x.shared = work[s].shared /\ x.held = work[s].held \cup rows
           => HookWorkOK(x),
         UNCHANGED bot, UNCHANGED hook, UNCHANGED credentials, UNCHANGED others, UNCHANGED manages,
         UNCHANGED archived, UNCHANGED posts, UNCHANGED silenced, UNCHANGED replaced, UNCHANGED time,
         starts' \in 0..MaxStarts, attempts' \in [Hooks!Credentials -> 0..WindowPosts + 1]
  PROVE  HookInv'
<1> PICK w : w = work[s]
  OBVIOUS
<1> DEFINE x == Onward(w, p, rows)
<1>1. Hooks!Goes(s, x)
  BY DEF Hooks!Moves, Onward
<1>2. x \in WorkRecords /\ x.kind = w.kind /\ x.pc = p /\ x.cred = w.cred /\ x.found = w.found
      /\ x.shared = w.shared /\ x.held = w.held \cup rows
  BY HookFacts, OnwardOK
<1> HIDE DEF x
<1>3. HookWorkOK(x)
  BY <1>2
<1>4. ASSUME NEW o \in Sessions \ {s} PROVE HookWorksApart(x, work[o]) /\ HookWorksApart(work[o], x)
  <2> PICK u : u = work[o]
    OBVIOUS
  <2>1. HookWorksApart(w, u) /\ HookWorksApart(u, w)
    BY HookFacts
  <2>2. u.held \cap rows = {}
    BY DEF Hooks!Takes
  <2>3. x.held \cap u.held = {}
    BY <1>2, <2>1, <2>2 DEF HookWorksApart
  <2>4. ~Issuing(x)
    BY <1>2 DEF Issuing
  <2>5. x.pc = "commit" => x.found = {}
    BY <1>2
  <2> QED BY <1>2, <2>1, <2>3, <2>4, <2>5 DEF HookWorksApart
<1> QED BY <1>1, <1>2, <1>3, <1>4, HookWaits

LEMMA HookGoesAlone ==
  ASSUME HookInv, NEW s \in Sessions, NEW p \in HookPcs, p # "commit", Hooks!Moves(s, p, {}),
         work[s].found = {}, ~Issuing(work[s]),
         \A x \in WorkRecords :
           /\ x.kind = work[s].kind /\ x.pc = p /\ x.cred = work[s].cred /\ x.found = work[s].found
           /\ x.shared = work[s].shared /\ x.held = work[s].held
           => HookWorkOK(x),
         UNCHANGED bot, UNCHANGED hook, UNCHANGED credentials, UNCHANGED others, UNCHANGED manages,
         UNCHANGED archived, UNCHANGED posts, UNCHANGED silenced, UNCHANGED replaced, UNCHANGED time,
         starts' \in 0..MaxStarts, attempts' \in [Hooks!Credentials -> 0..WindowPosts + 1]
  PROVE  HookInv'
<1> PICK w : w = work[s]
  OBVIOUS
<1> DEFINE x == Onward(w, p, {})
<1>1. Hooks!Goes(s, x)
  BY DEF Hooks!Moves, Onward
<1>2. w \in WorkRecords
  BY HookFacts
<1>3. x \in WorkRecords /\ x.kind = w.kind /\ x.pc = p /\ x.cred = w.cred /\ x.found = w.found
      /\ x.shared = w.shared /\ x.held = w.held
  BY <1>2, OnwardAlone
<1> HIDE DEF x
<1>5. HookWorkOK(x)
  BY <1>3
<1>6. ASSUME NEW o \in Sessions \ {s} PROVE HookWorksApart(x, work[o]) /\ HookWorksApart(work[o], x)
  <2> PICK u : u = work[o]
    OBVIOUS
  <2>1. HookWorksApart(w, u) /\ HookWorksApart(u, w)
    BY HookFacts
  <2>2. ~Issuing(x) /\ x.pc # "commit"
    BY <1>3 DEF Issuing
  <2> QED BY <1>3, <2>1, <2>2 DEF HookWorksApart
<1> QED BY <1>1, <1>3, <1>5, <1>6, HookWaits

-----------------------------------------------------------------------------
(* The statements that take locks.                                         *)
LEMMA HookBegins ==
  ASSUME HookInv, NEW s \in Sessions, NEW k \in HookKinds, NEW p \in HookPcs, NEW c \in {0} \cup Hooks!Credentials,
         Hooks!Starts(s, k, p, c), p \in {"channel", "workspace", "auth"},
         IF k = "post" THEN c \in Hooks!Credentials /\ Issued(c) ELSE c = 0
  PROVE  HookInv'
<1> DEFINE a == [Hooks!NoWork EXCEPT !.kind = k]
           b == [a EXCEPT !.pc = p]
           x == [b EXCEPT !.cred = c]
<1>1. Hooks!Goes(s, x)
  BY DEF Hooks!Starts
<1>2. a \in WorkRecords /\ a.kind = k /\ a.held = {} /\ a.found = {} /\ a.shared = {}
  BY NoHookWork DEF WorkRecords
<1> HIDE DEF a
<1>3. b \in WorkRecords /\ b.kind = k /\ b.pc = p /\ b.held = {} /\ b.found = {} /\ b.shared = {}
  BY <1>2 DEF WorkRecords
<1> HIDE DEF b
<1>4. x \in WorkRecords /\ x.kind = k /\ x.pc = p /\ x.cred = c /\ x.held = {} /\ x.found = {} /\ x.shared = {}
  BY <1>3 DEF WorkRecords
<1> HIDE DEF x
<1>5. HookWorkOK(x)
  BY <1>4 DEF HookWorkOK, Issuing
<1>6. ASSUME NEW o \in Sessions \ {s} PROVE HookWorksApart(x, work[o]) /\ HookWorksApart(work[o], x)
  <2>1. Issuing(work[o]) => work[o].cred # c
    <3>1. HookWorkOK(work[o]) /\ 0 \notin Hooks!Credentials
      BY HookFacts DEF Hooks!Credentials
    <3> QED BY <3>1 DEF HookWorkOK
  <2> QED BY <1>4, <2>1 DEF HookWorksApart, Issuing
<1>7. /\ UNCHANGED bot /\ UNCHANGED hook /\ UNCHANGED credentials /\ UNCHANGED others /\ UNCHANGED manages
      /\ UNCHANGED archived /\ UNCHANGED posts /\ UNCHANGED silenced /\ UNCHANGED replaced /\ UNCHANGED time
      /\ starts' \in 0..MaxStarts /\ attempts' \in [Hooks!Credentials -> 0..WindowPosts + 1]
  BY WebhookBounds, HookFacts DEF Hooks!Starts, Hooks!Data, HookTyped
<1> QED BY <1>1, <1>4, <1>5, <1>6, <1>7, HookWaits

LEMMA HookAsksKeep ==
  ASSUME HookInv, NEW s \in Sessions
  PROVE  /\ \A k \in Hooks!Channels \cup {"archive"} : Hooks!ChannelRequest(s, k) => HookInv'
         /\ \A k \in Hooks!Commands : Hooks!Command(s, k) => HookInv'
         /\ \A c \in Hooks!Credentials : Hooks!IncomingPost(s, c) => HookInv'
<1>1. ASSUME NEW k \in Hooks!Channels \cup {"archive"}, Hooks!ChannelRequest(s, k) PROVE HookInv'
  <2>1. k \in HookKinds /\ "channel" \in HookPcs /\ k # "post" /\ 0 \in {0} \cup Hooks!Credentials
    BY DEF HookKinds, HookPcs, Hooks!Channels
  <2> QED BY <1>1, <2>1, HookBegins DEF Hooks!ChannelRequest
<1>2. ASSUME NEW k \in Hooks!Commands, Hooks!Command(s, k) PROVE HookInv'
  <2>1. k \in HookKinds /\ "workspace" \in HookPcs /\ k # "post" /\ 0 \in {0} \cup Hooks!Credentials
    BY DEF HookKinds, HookPcs, Hooks!Commands
  <2> QED BY <1>2, <2>1, HookBegins DEF Hooks!Command
<1>3. ASSUME NEW c \in Hooks!Credentials, Hooks!IncomingPost(s, c) PROVE HookInv'
  <2>1. "post" \in HookKinds /\ "auth" \in HookPcs /\ c \in {0} \cup Hooks!Credentials /\ Issued(c)
    BY <1>3 DEF HookKinds, HookPcs, Hooks!IncomingPost, Issued
  <2> QED BY <1>3, <2>1, HookBegins DEF Hooks!IncomingPost
<1> QED BY <1>1, <1>2, <1>3

LEMMA HookRows ==
  /\ {"conversation"} \subseteq Hooks!Rows /\ {"hook"} \subseteq Hooks!Rows /\ {"workspace"} \subseteq Hooks!Rows
  /\ {"bot"} \subseteq Hooks!Rows /\ {} \subseteq Hooks!Rows /\ \A s \in Sessions : Hooks!Takes(s, {})
  /\ "hook" \in HookPcs /\ "commit" \in HookPcs /\ "capacity" \in HookPcs /\ "find" \in HookPcs
  /\ "bot" \in HookPcs /\ "resolve" \in HookPcs /\ "channel" \in HookPcs /\ "member" \in HookPcs
  /\ "credential" \in HookPcs /\ "revoke" \in HookPcs
BY DEF Hooks!Rows, Hooks!Takes, HookPcs

LEMMA RequireManageableKeeps ==
  ASSUME HookInv, NEW s \in Sessions, Hooks!requireManageableWebhookChannel(s)
  PROVE  HookInv'
<1> PICK w : w = work[s]
  OBVIOUS
<1> PICK p : p = IF w.kind = "archive" THEN "commit" ELSE "hook"
  OBVIOUS
<1> PICK rows : rows = {"conversation"}
  OBVIOUS
<1>1. w.kind \in Hooks!Channels \cup {"archive"} /\ w.pc = "channel" /\ Hooks!Takes(s, rows) /\ Hooks!Only
      /\ (Hooks!Ends(s) \/ Hooks!Moves(s, p, rows))
  BY DEF Hooks!requireManageableWebhookChannel
<1>2. HookWorkOK(w) /\ w \in WorkRecords
  BY HookFacts
<1>3. p \in HookPcs /\ rows \subseteq Hooks!Rows
  BY HookRows
<1>4. \A x \in WorkRecords :
        /\ x.kind = w.kind /\ x.pc = p /\ x.cred = w.cred /\ x.found = w.found
        /\ x.shared = w.shared /\ x.held = w.held \cup rows
        => HookWorkOK(x)
  BY <1>1, <1>2 DEF HookWorkOK, Issuing, Hooks!Channels
<1>5. w.found = {} /\ ~Issuing(w) /\ (p = "commit" => w.kind \notin {"enable", "rotate", "cli_rotate"})
  BY <1>1, <1>2 DEF HookWorkOK, Issuing
<1> QED BY <1>1, <1>3, <1>4, <1>5, OnlyIs, HookEnds, HookGoesOn

LEMMA ChannelWebhookKeeps ==
  ASSUME HookInv, NEW s \in Sessions, Hooks!channelWebhook(s)
  PROVE  HookInv'
<1> PICK w : w = work[s]
  OBVIOUS
<1> PICK p : p = IF w.kind = "enable" /\ bot # "active" THEN "capacity" ELSE "find"
  OBVIOUS
<1> PICK rows : rows = {"hook"}
  OBVIOUS
<1>1. w.pc = "hook" /\ Hooks!Takes(s, rows) /\ Hooks!Only
      /\ (Hooks!Ends(s) \/ (Hooks!Moves(s, p, rows) /\ (w.kind = "rotate" => bot = "active")))
  BY DEF Hooks!channelWebhook, Hooks!CredentialActive
<1>2. HookWorkOK(w) /\ w \in WorkRecords
  BY HookFacts
<1>3. p \in HookPcs /\ rows \subseteq Hooks!Rows
  BY HookRows
<1>4. (w.kind = "rotate" => bot = "active") => \A x \in WorkRecords :
        /\ x.kind = w.kind /\ x.pc = p /\ x.cred = w.cred /\ x.found = w.found
        /\ x.shared = w.shared /\ x.held = w.held \cup rows
        => HookWorkOK(x)
  BY <1>1, <1>2 DEF HookWorkOK, Issuing, Hooks!Channels
<1>5. w.found = {} /\ ~Issuing(w) /\ p # "commit"
  BY <1>1, <1>2 DEF HookWorkOK, Issuing
<1> QED BY <1>1, <1>3, <1>4, <1>5, OnlyIs, HookEnds, HookGoesOn

LEMMA RequireMemberCapacityKeeps ==
  ASSUME HookInv, NEW s \in Sessions, Hooks!requireMemberCapacity(s)
  PROVE  HookInv'
<1> PICK w : w = work[s]
  OBVIOUS
<1> PICK p : p = "find"
  OBVIOUS
<1> PICK rows : rows = {"workspace"}
  OBVIOUS
<1>1. w.pc = "capacity" /\ Hooks!Takes(s, rows) /\ Hooks!Only
      /\ (Hooks!Ends(s) \/ (Hooks!Moves(s, p, rows) /\ ~(Hooks!Members >= MaxSeats)))
  BY DEF Hooks!requireMemberCapacity
<1>2. HookWorkOK(w) /\ w \in WorkRecords
  BY HookFacts
<1>3. p \in HookPcs /\ rows \subseteq Hooks!Rows
  BY HookRows
<1>4. ~(Hooks!Members >= MaxSeats) => Hooks!Members < MaxSeats
  BY HookFacts, WebhookBounds
<1>5. ~(Hooks!Members >= MaxSeats) => \A x \in WorkRecords :
        /\ x.kind = w.kind /\ x.pc = p /\ x.cred = w.cred /\ x.found = w.found
        /\ x.shared = w.shared /\ x.held = w.held \cup rows
        => HookWorkOK(x)
  BY <1>1, <1>2, <1>4 DEF HookWorkOK, Issuing, Hooks!Channels
<1>6. w.found = {} /\ ~Issuing(w) /\ p # "commit"
  BY <1>1, <1>2 DEF HookWorkOK, Issuing
<1> QED BY <1>1, <1>3, <1>5, <1>6, OnlyIs, HookEnds, HookGoesOn

LEMMA CommandOwnerKeeps ==
  ASSUME HookInv, NEW s \in Sessions, Hooks!requireOwner(s)
  PROVE  HookInv'
<1> PICK w : w = work[s]
  OBVIOUS
<1> PICK p : p = IF w.kind = "cli_create" THEN "commit" ELSE "bot"
  OBVIOUS
<1> PICK rows : rows = {"workspace"}
  OBVIOUS
<1>1. w.kind \in Hooks!Commands /\ w.pc = "workspace" /\ Hooks!Takes(s, rows) /\ Hooks!Only
      /\ (Hooks!Ends(s) \/ (Hooks!Moves(s, p, rows) /\ (w.kind = "cli_create" => ~(Hooks!Members >= MaxSeats))))
  BY DEF Hooks!requireOwner
<1>2. HookWorkOK(w) /\ w \in WorkRecords
  BY HookFacts
<1>3. p \in HookPcs /\ rows \subseteq Hooks!Rows
  BY HookRows
<1>4. ~(Hooks!Members >= MaxSeats) => Hooks!Members < MaxSeats
  BY HookFacts, WebhookBounds
<1>5. (w.kind = "cli_create" => ~(Hooks!Members >= MaxSeats)) => \A x \in WorkRecords :
        /\ x.kind = w.kind /\ x.pc = p /\ x.cred = w.cred /\ x.found = w.found
        /\ x.shared = w.shared /\ x.held = w.held \cup rows
        => HookWorkOK(x)
  BY <1>1, <1>2, <1>4 DEF HookWorkOK, Issuing, Hooks!Channels, Hooks!Commands
<1>6. w.found = {} /\ ~Issuing(w) /\ (p = "commit" => w.kind \notin {"enable", "rotate", "cli_rotate"})
  BY <1>1, <1>2 DEF HookWorkOK, Issuing
<1> QED BY <1>1, <1>3, <1>5, <1>6, OnlyIs, HookEnds, HookGoesOn

LEMMA RequireBotKeeps ==
  ASSUME HookInv, NEW s \in Sessions, Hooks!requireBot(s)
  PROVE  HookInv'
<1> PICK w : w = work[s]
  OBVIOUS
<1> PICK p : p = IF w.kind = "cli_grant" THEN "commit" ELSE "find"
  OBVIOUS
<1> PICK rows : rows = {"bot"}
  OBVIOUS
<1>1. w.pc = "bot" /\ Hooks!Takes(s, rows) /\ Hooks!Only /\ (Hooks!Ends(s) \/ Hooks!Moves(s, p, rows))
  BY DEF Hooks!requireBot
<1>2. HookWorkOK(w) /\ w \in WorkRecords
  BY HookFacts
<1>3. p \in HookPcs /\ rows \subseteq Hooks!Rows
  BY HookRows
<1>4. w.kind \in {"cli_rotate", "cli_revoke", "cli_grant"}
  BY <1>1, <1>2 DEF HookWorkOK, Hooks!Commands
<1>5. \A x \in WorkRecords :
        /\ x.kind = w.kind /\ x.pc = p /\ x.cred = w.cred /\ x.found = w.found
        /\ x.shared = w.shared /\ x.held = w.held \cup rows
        => HookWorkOK(x)
  BY <1>1, <1>2, <1>4 DEF HookWorkOK, Issuing, Hooks!Channels, Hooks!Commands
<1>6. w.found = {} /\ ~Issuing(w) /\ (p = "commit" => w.kind \notin {"enable", "rotate", "cli_rotate"})
  BY <1>1, <1>2 DEF HookWorkOK, Issuing
<1> QED BY <1>1, <1>3, <1>5, <1>6, OnlyIs, HookEnds, HookGoesOn

LEMMA HookAuthenticateKeeps ==
  ASSUME HookInv, NEW s \in Sessions, Hooks!authenticate(s)
  PROVE  HookInv'
<1> PICK w : w = work[s]
  OBVIOUS
<1> PICK p : p = "resolve"
  OBVIOUS
<1>1. w.kind = "post" /\ w.pc = "auth" /\ Hooks!Only /\ (Hooks!Ends(s) \/ Hooks!Moves(s, p, {}))
  BY DEF Hooks!authenticate
<1>2. HookWorkOK(w) /\ w \in WorkRecords
  BY HookFacts
<1>3. p \in HookPcs
  BY HookRows
<1>5. \A x \in WorkRecords :
        /\ x.kind = w.kind /\ x.pc = p /\ x.cred = w.cred /\ x.found = w.found
        /\ x.shared = w.shared /\ x.held = w.held
        => HookWorkOK(x)
  BY <1>1, <1>2 DEF HookWorkOK, Issuing, Hooks!Channels
<1>6. w.found = {} /\ ~Issuing(w) /\ p # "commit"
  BY <1>1, <1>2 DEF HookWorkOK, Issuing
<1>7. CASE Hooks!Ends(s)
  BY <1>1, <1>7, OnlyIs, HookEnds
<1>8. CASE Hooks!Moves(s, p, {})
  BY <1>1, <1>3, <1>5, <1>6, <1>8, OnlyIs, HookGoesAlone
<1> QED BY <1>1, <1>7, <1>8

LEMMA AuthenticateChannelWebhookKeeps ==
  ASSUME HookInv, NEW s \in Sessions, Hooks!authenticateChannelWebhook(s)
  PROVE  HookInv'
<1> PICK w : w = work[s]
  OBVIOUS
<1> PICK p : p = "channel"
  OBVIOUS
<1>1. w.pc = "resolve" /\ (Hooks!Ends(s) \/ Hooks!Moves(s, p, {}))
  BY DEF Hooks!authenticateChannelWebhook
<1>2. HookWorkOK(w) /\ w \in WorkRecords
  BY HookFacts
<1>3. p \in HookPcs /\ w.kind = "post"
  BY <1>1, <1>2, HookRows DEF HookWorkOK
<1>4. /\ UNCHANGED bot /\ UNCHANGED hook /\ UNCHANGED credentials /\ UNCHANGED others /\ UNCHANGED manages
      /\ UNCHANGED archived /\ UNCHANGED posts /\ UNCHANGED silenced /\ UNCHANGED replaced /\ UNCHANGED time
      /\ starts' \in 0..MaxStarts
  BY HookFacts DEF Hooks!authenticateChannelWebhook, HookTyped
<1>5. attempts' \in [Hooks!Credentials -> 0..WindowPosts + 1]
  <2>1. attempts \in [Hooks!Credentials -> 0..WindowPosts + 1] /\ w.cred \in Hooks!Credentials
    BY <1>2, <1>3, HookFacts DEF HookTyped, HookWorkOK
  <2> PICK c : c = w.cred
    OBVIOUS
  <2>2. \/ attempts' = attempts
        \/ attempts' = [attempts EXCEPT ![c] = IF @ <= WindowPosts THEN @ + 1 ELSE @]
    BY DEF Hooks!authenticateChannelWebhook
  <2>3. attempts[c] \in 0..WindowPosts + 1
    BY <2>1
  <2>4. (IF attempts[c] <= WindowPosts THEN attempts[c] + 1 ELSE attempts[c]) \in 0..WindowPosts + 1
    BY <2>3, WebhookBounds
  <2> QED BY <2>1, <2>2, <2>4
<1>6. \A x \in WorkRecords :
        /\ x.kind = w.kind /\ x.pc = p /\ x.cred = w.cred /\ x.found = w.found
        /\ x.shared = w.shared /\ x.held = w.held
        => HookWorkOK(x)
  BY <1>1, <1>2, <1>3 DEF HookWorkOK, Issuing, Hooks!Channels
<1>7. w.found = {} /\ ~Issuing(w) /\ p # "commit"
  BY <1>1, <1>2 DEF HookWorkOK, Issuing
<1>8. CASE Hooks!Ends(s)
  BY <1>4, <1>5, <1>8, HookEnds
<1>9. CASE Hooks!Moves(s, p, {})
  BY <1>3, <1>4, <1>5, <1>6, <1>7, <1>9, HookGoesAlone
<1> QED BY <1>1, <1>8, <1>9

LEMMA HookLockConversationKeeps ==
  ASSUME HookInv, NEW s \in Sessions, Hooks!LockConversation(s)
  PROVE  HookInv'
<1> PICK w : w = work[s]
  OBVIOUS
<1> PICK p : p = "member"
  OBVIOUS
<1> PICK rows : rows = {"conversation"}
  OBVIOUS
<1>1. w.kind = "post" /\ w.pc = "channel" /\ Hooks!Takes(s, rows) /\ Hooks!Only /\ Hooks!Moves(s, p, rows)
  BY DEF Hooks!LockConversation
<1>2. HookWorkOK(w) /\ w \in WorkRecords
  BY HookFacts
<1>3. p \in HookPcs /\ rows \subseteq Hooks!Rows
  BY HookRows
<1>5. \A x \in WorkRecords :
        /\ x.kind = w.kind /\ x.pc = p /\ x.cred = w.cred /\ x.found = w.found
        /\ x.shared = w.shared /\ x.held = w.held \cup rows
        => HookWorkOK(x)
  BY <1>1, <1>2 DEF HookWorkOK, Issuing, Hooks!Channels
<1>6. w.found = {} /\ ~Issuing(w) /\ p # "commit"
  BY <1>1, <1>2 DEF HookWorkOK, Issuing
<1> QED BY <1>1, <1>3, <1>5, <1>6, OnlyIs, HookGoesOn

LEMMA ShareMembershipKeeps ==
  ASSUME HookInv, NEW s \in Sessions, Hooks!ShareMembership(s)
  PROVE  HookInv'
<1> PICK w : w = work[s]
  OBVIOUS
<1> PICK p : p = "credential"
  OBVIOUS
<1>1. w.pc = "member" /\ Hooks!Only /\ (Hooks!Ends(s) \/ Hooks!Moves(s, p, {}))
  BY DEF Hooks!ShareMembership
<1>2. HookWorkOK(w) /\ w \in WorkRecords
  BY HookFacts
<1>3. p \in HookPcs
  BY HookRows
<1>5. \A x \in WorkRecords :
        /\ x.kind = w.kind /\ x.pc = p /\ x.cred = w.cred /\ x.found = w.found
        /\ x.shared = w.shared /\ x.held = w.held
        => HookWorkOK(x)
  BY <1>1, <1>2 DEF HookWorkOK, Issuing, Hooks!Channels
<1>6. w.found = {} /\ ~Issuing(w) /\ p # "commit"
  BY <1>1, <1>2 DEF HookWorkOK, Issuing
<1>7. CASE Hooks!Ends(s)
  BY <1>1, <1>7, OnlyIs, HookEnds
<1>8. CASE Hooks!Moves(s, p, {})
  BY <1>1, <1>3, <1>5, <1>6, <1>8, OnlyIs, HookGoesAlone
<1> QED BY <1>1, <1>7, <1>8

-----------------------------------------------------------------------------
(* The statements that read credentials.                                   *)
LEMMA FindCredentialsKeeps ==
  ASSUME HookInv, NEW s \in Sessions, Hooks!FindCredentials(s)
  PROVE  HookInv'
<1> PICK w : w = work[s]
  OBVIOUS
<1> PICK alive : alive = {c \in Hooks!Credentials : Hooks!Live(c)}
  OBVIOUS
<1> DEFINE x == WithFound(w, "revoke", alive)
<1>1. w.pc = "find" /\ Hooks!Only /\ Hooks!Goes(s, x)
  BY DEF Hooks!FindCredentials, WithFound
<1>2. HookWorkOK(w) /\ w \in WorkRecords /\ alive \subseteq Hooks!Credentials
  BY HookFacts
<1>3. x \in WorkRecords /\ x.kind = w.kind /\ x.pc = "revoke" /\ x.cred = w.cred /\ x.found = alive
      /\ x.shared = w.shared /\ x.held = w.held
  <2> HIDE DEF x
  <2>1. "revoke" \in HookPcs
    BY HookRows
  <2> QED BY <1>2, <2>1, WithFoundOK DEF x
<1> HIDE DEF x
<1>4. hook.current \in {0} \cup Hooks!Credentials
  BY HookFacts DEF HookTyped
<1>5. (\A c \in alive : Issued(c)) /\ (hook.current # 0 /\ Hooks!Live(hook.current) => hook.current \in alive)
  BY <1>4 DEF Issued, Hooks!Live
<1>6. w.shared = {} /\ w.kind # "post" /\ w.kind # "archive"
  BY <1>1, <1>2 DEF HookWorkOK, Hooks!Channels
<1>7. HookWorkOK(x)
  <2> HIDE DEF Hooks!Channels, Hooks!Commands
  <2> QED BY <1>1, <1>2, <1>3, <1>5, <1>6 DEF HookWorkOK, Issuing
<1>8. ASSUME NEW o \in Sessions \ {s} PROVE HookWorksApart(x, work[o]) /\ HookWorksApart(work[o], x)
  <2> PICK u : u = work[o]
    OBVIOUS
  <2>1. HookWorksApart(w, u) /\ HookWorksApart(u, w)
    BY HookFacts
  <2>2. ~Issuing(x) /\ x.pc # "commit"
    BY <1>3 DEF Issuing
  <2> QED BY <1>3, <1>6, <2>1, <2>2 DEF HookWorksApart
<1> QED BY <1>1, <1>3, <1>7, <1>8, OnlyIs, HookWaits

LEMMA RevokeBotCredentialsKeeps ==
  ASSUME HookInv, NEW s \in Sessions, Hooks!revokeBotCredentials(s)
  PROVE  HookInv'
<1> PICK w : w = work[s]
  OBVIOUS
<1> PICK alive : alive = {f \in w.found : Hooks!Live(f)}
  OBVIOUS
<1> DEFINE issues == w.kind \in {"enable", "rotate", "cli_rotate"}
           a == WithFound(w, "commit", alive)
<1>1. w.pc = "revoke" /\ Hooks!Only /\ \A c \in w.found : Hooks!RowFree(s, c)
  BY DEF Hooks!revokeBotCredentials
<1>2. HookWorkOK(w) /\ w \in WorkRecords /\ alive \subseteq Hooks!Credentials /\ alive \subseteq w.found
  <2>1. HookWorkOK(w) /\ w \in WorkRecords
    BY HookFacts
  <2> QED BY <2>1 DEF WorkRecords
<1>3. \/ issues /\ \E c \in Hooks!Unissued : Hooks!Goes(s, WithCred(a, c))
      \/ ~issues /\ Hooks!Goes(s, a)
  <2>1. \A c : [w EXCEPT !.pc = "commit", !.found = {f \in @ : Hooks!Live(f)}, !.cred = c]
              = [w EXCEPT !.pc = "commit", !.found = {f \in w.found : Hooks!Live(f)}, !.cred = c]
    BY <1>2 DEF WorkRecords
  <2>2. [w EXCEPT !.pc = "commit", !.found = {f \in @ : Hooks!Live(f)}]
        = [w EXCEPT !.pc = "commit", !.found = {f \in w.found : Hooks!Live(f)}]
    BY <1>2 DEF WorkRecords
  <2> QED BY <2>1, <2>2 DEF Hooks!revokeBotCredentials, WithFound, WithCred
<1>4. a \in WorkRecords /\ a.kind = w.kind /\ a.pc = "commit" /\ a.cred = w.cred /\ a.found = alive
      /\ a.shared = w.shared /\ a.held = w.held
  <2> HIDE DEF a
  <2>1. "commit" \in HookPcs
    BY HookRows
  <2> QED BY <1>2, <2>1, WithFoundOK DEF a
<1> HIDE DEF a
<1>5. PICK x \in WorkRecords :
        /\ Hooks!Goes(s, x) /\ x.kind = w.kind /\ x.pc = "commit" /\ x.found = alive
        /\ x.shared = w.shared /\ x.held = w.held
        /\ IF issues THEN x.cred \in Hooks!Unissued ELSE x.cred = w.cred
  <2>1. CASE issues
    <3>1. PICK c \in Hooks!Unissued : Hooks!Goes(s, WithCred(a, c))
      BY <1>3, <2>1
    <3>2. c \in {0} \cup Hooks!Credentials
      BY DEF Hooks!Unissued
    <3> QED BY <1>4, <2>1, <3>1, <3>2, WithCredOK
  <2>2. CASE ~issues
    BY <1>3, <1>4, <2>2
  <2> QED BY <2>1, <2>2
<1>6. w.shared = {} /\ w.kind \in Hooks!Channels \cup {"cli_rotate", "cli_revoke"} /\ ~Issuing(w) /\ w.cred = 0
  BY <1>1, <1>2 DEF HookWorkOK, Hooks!Channels, Issuing
<1>7. issues => x.cred \in Hooks!Credentials /\ ~Issued(x.cred)
  BY <1>5 DEF Hooks!Unissued, Issued
<1>8. HookWorkOK(x)
  <2>1. w.kind # "post" /\ w.kind # "archive" /\ w.kind # "cli_create"
    BY <1>6 DEF Hooks!Channels
  <2>2. w.kind \in Hooks!Channels /\ hook.current # 0 /\ Hooks!Live(hook.current) => hook.current \in alive
    BY <1>1, <1>2 DEF HookWorkOK
  <2>3. Issuing(x) <=> issues
    BY <1>5 DEF Issuing
  <2> HIDE DEF issues
  <2>4. issues \/ ~issues
    OBVIOUS
  <2>5. \A c \in alive : Issued(c)
    BY <1>2 DEF HookWorkOK
  <2>6. (w.kind \in Hooks!Channels => "conversation" \in w.held /\ "hook" \in w.held)
        /\ (w.kind = "rotate" => bot = "active")
        /\ (w.kind = "enable" => bot = "active" \/ ("workspace" \in w.held /\ Hooks!Members < MaxSeats))
    BY <1>1, <1>2 DEF HookWorkOK
  <2> QED BY <1>5, <1>6, <1>7, <2>1, <2>2, <2>3, <2>5, <2>6 DEF HookWorkOK
<1>9. ASSUME NEW o \in Sessions \ {s} PROVE HookWorksApart(x, work[o]) /\ HookWorksApart(work[o], x)
  <2> PICK u : u = work[o]
    OBVIOUS
  <2>1. HookWorksApart(w, u) /\ HookWorksApart(u, w) /\ HookWorkOK(u)
    BY HookFacts
  <2>2. x.found \cap u.shared = {}
    BY <1>1, <1>2, <1>5 DEF Hooks!RowFree
  <2>3. issues => u.cred # x.cred
    BY <1>5 DEF Hooks!Unissued
  <2>4. Issuing(x) <=> issues
    BY <1>5 DEF Issuing
  <2>5. Issuing(u) => x.cred # u.cred
    <3>1. Issuing(u) => u.cred # 0
      BY <2>1 DEF HookWorkOK, Hooks!Credentials
    <3> QED BY <1>5, <1>6, <2>3, <3>1
  <2> HIDE DEF issues
  <2> QED BY <1>5, <1>6, <2>1, <2>2, <2>3, <2>4, <2>5 DEF HookWorksApart
<1> QED BY <1>1, <1>5, <1>8, <1>9, OnlyIs, HookWaits

LEMMA ShareCredentialKeeps ==
  ASSUME HookInv, NEW s \in Sessions, Hooks!ShareCredential(s)
  PROVE  HookInv'
<1> PICK w : w = work[s]
  OBVIOUS
<1> PICK f : f = {w.cred}
  OBVIOUS
<1> DEFINE x == WithPost(w, "commit", f)
           current_ == Hooks!Live(w.cred) /\ hook.current = w.cred /\ ~hook.disabled /\ ~archived
<1>1. w.pc = "credential" /\ Hooks!Only /\ Hooks!Readable(s, w.cred) /\ (Hooks!Ends(s) \/ (current_ /\ Hooks!Goes(s, x)))
  BY DEF Hooks!ShareCredential, WithPost, Hooks!Valid
<1>2. HookWorkOK(w) /\ w \in WorkRecords
  BY HookFacts
<1>3. w.kind = "post" /\ w.cred \in Hooks!Credentials /\ Issued(w.cred) /\ w.found = {} /\ "conversation" \in w.held
  BY <1>1, <1>2 DEF HookWorkOK
<1>4. CASE Hooks!Ends(s)
  BY <1>1, <1>4, OnlyIs, HookEnds
<1>5. CASE current_ /\ Hooks!Goes(s, x)
  <2>1. x \in WorkRecords /\ x.kind = w.kind /\ x.pc = "commit" /\ x.cred = w.cred /\ x.found = w.found
        /\ x.shared = f /\ x.held = w.held
    <3> HIDE DEF x
    <3>1. "commit" \in HookPcs /\ f \subseteq Hooks!Credentials
      BY <1>3, HookRows
    <3> QED BY <1>2, <3>1, WithPostOK DEF x
  <2> HIDE DEF x
  <2>2. HookWorkOK(x)
    BY <1>3, <1>5, <2>1 DEF HookWorkOK, Issuing, Hooks!Channels, Hooks!Commands
  <2>3. ASSUME NEW o \in Sessions \ {s} PROVE HookWorksApart(x, work[o]) /\ HookWorksApart(work[o], x)
    <3> PICK u : u = work[o]
      OBVIOUS
    <3>1. HookWorksApart(w, u) /\ HookWorksApart(u, w)
      BY HookFacts
    <3>2. u.pc = "commit" => u.found \cap x.shared = {}
      BY <1>1, <2>1 DEF Hooks!Readable, Hooks!Revoking
    <3>3. ~Issuing(x)
      BY <1>3, <2>1 DEF Issuing
    <3> QED BY <1>3, <2>1, <3>1, <3>2, <3>3 DEF HookWorksApart
  <2> QED BY <1>1, <1>5, <2>1, <2>2, <2>3, OnlyIs, HookWaits
<1> QED BY <1>1, <1>4, <1>5

-----------------------------------------------------------------------------
(* The commits.                                                            *)
LEMMA HookLeaves ==
  ASSUME HookInv, NEW s \in Sessions, Hooks!Ends(s), \A o \in Sessions \ {s} : Spared(work[o]), Hooks!Members' \in Nat
  PROVE  HookWorks' /\ work' \in [Sessions -> WorkRecords]
<1>1. \A o \in Sessions \ {s} : HookWorksApart(Hooks!NoWork, work[o]) /\ HookWorksApart(work[o], Hooks!NoWork)
  <2> SUFFICES ASSUME NEW o \in Sessions \ {s}
               PROVE  HookWorksApart(Hooks!NoWork, work[o]) /\ HookWorksApart(work[o], Hooks!NoWork)
    OBVIOUS
  <2>1. Issuing(work[o]) => work[o].cred # 0
    <3>1. HookWorkOK(work[o]) /\ 0 \notin Hooks!Credentials
      BY HookFacts DEF Hooks!Credentials
    <3> QED BY <3>1 DEF HookWorkOK
  <2> QED BY <2>1, NoHookWork DEF HookWorksApart, Issuing
<1> QED BY <1>1, NoHookWork, HookWorksStep DEF Hooks!Ends

LEMMA HookInserts ==
  ASSUME HookInv, NEW w \in WorkRecords, HookWorkOK(w), w.pc = "commit", w.kind \in Hooks!Channels \cup Hooks!Commands,
         NEW writes \in BOOLEAN, credentials' = Hooks!insertCredential(w, writes)
  PROVE  /\ credentials' \in [Hooks!Credentials -> CredentialRecords]
         /\ \A c \in Hooks!Credentials : Issued(c) =>
              /\ c # w.cred /\ Issued(c)' /\ (Hooks!Live(c)' => Hooks!Live(c)) /\ credentials'[c].writes = credentials[c].writes
              /\ credentials[c].status = "revoked" => credentials'[c].status = "revoked"
         /\ \A c \in w.found : credentials'[c].status = "revoked"
         /\ \A c \in Hooks!Credentials \ w.found : Hooks!Live(c) => Hooks!Live(c)'
         /\ \A c \in Hooks!Credentials : c # w.cred => (Issued(c)' <=> Issued(c))
         /\ w.cred \in Hooks!Credentials => credentials'[w.cred].status = "live" /\ credentials'[w.cred].writes = writes
<1>1. /\ credentials \in [Hooks!Credentials -> CredentialRecords] /\ time \in 0..MaxTime
      /\ w.found \subseteq Hooks!Credentials /\ w.cred \in {0} \cup Hooks!Credentials
  BY HookFacts DEF HookTyped, WorkRecords
<1>2. w.kind # "post" /\ 0 \notin Hooks!Credentials
  BY DEF Hooks!Channels, Hooks!Commands, Hooks!Credentials
<1>3. w.cred \in Hooks!Credentials => ~Issued(w.cred)
  BY <1>1, <1>2 DEF HookWorkOK
<1>4. \A c \in w.found : Issued(c) /\ c \in Hooks!Credentials /\ c # w.cred
  BY <1>1, <1>3 DEF HookWorkOK
<1>5. [status |-> "live", expires |-> time + TTL, writes |-> writes] \in CredentialRecords
  BY <1>1, WebhookBounds DEF CredentialRecords
<1>6. \A c \in Hooks!Credentials : [credentials[c] EXCEPT !.status = "revoked"] \in CredentialRecords
  BY <1>1 DEF CredentialRecords
<1> DEFINE new == [status |-> "live", expires |-> time + TTL, writes |-> writes]
           cut(c) == [credentials[c] EXCEPT !.status = "revoked"]
<1>7. \A c \in Hooks!Credentials : credentials'[c] = IF c = w.cred THEN new ELSE IF c \in w.found THEN cut(c)
                                                       ELSE credentials[c]
  BY DEF Hooks!insertCredential
<1>8. new.status = "live" /\ new.writes = writes
      /\ \A c \in Hooks!Credentials : cut(c).status = "revoked" /\ cut(c).writes = credentials[c].writes
  BY <1>1 DEF CredentialRecords
<1>9. credentials' \in [Hooks!Credentials -> CredentialRecords]
  BY <1>1, <1>5, <1>6 DEF Hooks!insertCredential
<1> HIDE DEF new, cut
<1>10. \A c \in Hooks!Credentials : Issued(c) =>
              /\ c # w.cred /\ Issued(c)' /\ (Hooks!Live(c)' => Hooks!Live(c)) /\ credentials'[c].writes = credentials[c].writes
              /\ credentials[c].status = "revoked" => credentials'[c].status = "revoked"
  BY <1>3, <1>7, <1>8 DEF Issued, Hooks!Live
<1>11. \A c \in w.found : credentials'[c].status = "revoked"
  BY <1>4, <1>7, <1>8
<1>12. \A c \in Hooks!Credentials \ w.found : Hooks!Live(c) => Hooks!Live(c)'
  BY <1>7, <1>8 DEF Hooks!Live
<1>13. \A c \in Hooks!Credentials : c # w.cred => (Issued(c)' <=> Issued(c))
  BY <1>4, <1>7, <1>8 DEF Issued
<1> QED BY <1>7, <1>8, <1>9, <1>10, <1>11, <1>12, <1>13

LEMMA CommitChannelKeeps ==
  ASSUME HookInv, NEW s \in Sessions, Hooks!CommitChannel(s)
  PROVE  HookInv'
<1> PICK w : w = work[s]
  OBVIOUS
<1>1. w.kind \in Hooks!Channels /\ w.pc = "commit" /\ Hooks!Ends(s)
      /\ bot' = (IF w.kind = "disable" THEN "revoked" ELSE "active")
      /\ hook' = [current |-> w.cred, disabled |-> w.kind = "disable"]
      /\ credentials' = Hooks!insertCredential(w, TRUE)
      /\ silenced' = silenced \cup w.found
                     \cup (IF hook.current # 0 /\ hook.current # w.cred THEN {hook.current} ELSE {})
      /\ replaced' = (replaced \/ (w.kind = "rotate" /\ Hooks!Leaves(w)))
      /\ UNCHANGED others /\ UNCHANGED manages /\ UNCHANGED archived /\ UNCHANGED posts /\ UNCHANGED attempts
      /\ UNCHANGED time /\ UNCHANGED starts
  BY DEF Hooks!CommitChannel
<1>2. HookWorkOK(w) /\ w \in WorkRecords /\ w.found \subseteq Hooks!Credentials /\ w.cred \in {0} \cup Hooks!Credentials
  <2>1. HookWorkOK(w) /\ w \in WorkRecords
    BY HookFacts
  <2> QED BY <2>1 DEF WorkRecords
<1>3. /\ "conversation" \in w.held /\ "hook" \in w.held
      /\ (w.kind = "rotate" => bot = "active")
      /\ (w.kind = "enable" => bot = "active" \/ ("workspace" \in w.held /\ Hooks!Members < MaxSeats))
      /\ (w.kind = "disable" => w.cred = 0)
      /\ (w.kind # "disable" => w.cred \in Hooks!Credentials)
      /\ (hook.current # 0 /\ Hooks!Live(hook.current) => hook.current \in w.found)
  BY <1>1, <1>2 DEF HookWorkOK, Issuing, Hooks!Channels
<1>4. w.kind \in Hooks!Channels \cup Hooks!Commands /\ TRUE \in BOOLEAN
  BY <1>1
<1>5. /\ credentials' \in [Hooks!Credentials -> CredentialRecords]
      /\ \A c \in Hooks!Credentials : Issued(c) =>
           /\ c # w.cred /\ Issued(c)' /\ (Hooks!Live(c)' => Hooks!Live(c)) /\ credentials'[c].writes = credentials[c].writes
           /\ credentials[c].status = "revoked" => credentials'[c].status = "revoked"
      /\ \A c \in w.found : credentials'[c].status = "revoked"
      /\ \A c \in Hooks!Credentials \ w.found : Hooks!Live(c) => Hooks!Live(c)'
      /\ \A c \in Hooks!Credentials : c # w.cred => (Issued(c)' <=> Issued(c))
      /\ w.cred \in Hooks!Credentials => credentials'[w.cred].status = "live" /\ credentials'[w.cred].writes = TRUE
  BY <1>1, <1>2, <1>4, HookInserts
<1>6. /\ HookTyped /\ others \in Nat /\ Hooks!Members = others + (IF bot = "active" THEN 1 ELSE 0)
      /\ Hooks!Members <= MaxSeats
      /\ Hooks!Members' = others + (IF w.kind = "disable" THEN 0 ELSE 1)
  BY <1>1, HookFacts DEF Hooks!Members, HookTyped
<1>7. Hooks!Members' \in Nat /\ Hooks!Members' <= MaxSeats
      /\ (Hooks!Members' <= Hooks!Members \/ "workspace" \in w.held)
  BY <1>1, <1>3, <1>6, WebhookBounds DEF Hooks!Channels
<1>8. ASSUME NEW o \in Sessions \ {s} PROVE Spared(work[o])
  <2> PICK u : u = work[o]
    OBVIOUS
  <2>1. HookWorksApart(w, u) /\ HookWorkOK(u) /\ u \in WorkRecords
    BY HookFacts
  <2>2. "conversation" \notin u.held /\ "hook" \notin u.held /\ ("workspace" \in w.held => "workspace" \notin u.held)
        /\ w.found \cap u.shared = {} /\ u.shared \subseteq Hooks!Credentials
    BY <1>1, <1>3, <2>1 DEF HookWorksApart, WorkRecords
  <2>3. Issuing(u) => (Issued(u.cred)' <=> Issued(u.cred))
    <3>1. Issuing(w) => u.cred # w.cred
      BY <2>1 DEF HookWorksApart
    <3>2. Issuing(u) => u.cred \in Hooks!Credentials /\ u.cred # 0
      BY <2>1 DEF HookWorkOK, Hooks!Credentials
    <3>3. ~Issuing(w) => w.cred = 0
      BY <1>1, <1>3 DEF Issuing, Hooks!Channels
    <3> QED BY <1>5, <3>1, <3>2, <3>3
  <2>4. \A c \in u.shared : Hooks!Live(c) => Hooks!Live(c)'
    BY <1>5, <2>2
  <2>5. Spared(u)
    BY <1>5, <1>7, <2>2, <2>3, <2>4 DEF Spared
  <2> QED BY <2>5
<1>9. HookWorks' /\ work' \in [Sessions -> WorkRecords]
  BY <1>1, <1>7, <1>8, HookLeaves
<1>10. hook.current \in {0} \cup Hooks!Credentials /\ (hook.current # 0 => Issued(hook.current))
  BY <1>6 DEF HookTyped, HookInv, Hooks!WebhookHolds, Issued
<1>11. HookTyped'
  <2>1. hook' \in [current : {0} \cup Hooks!Credentials, disabled : BOOLEAN]
    BY <1>1, <1>2
  <2>2. silenced' \subseteq Hooks!Credentials
    BY <1>1, <1>2, <1>6, <1>10 DEF HookTyped
  <2>3. replaced' \in BOOLEAN /\ bot' \in {"none", "active", "revoked"}
    BY <1>1, <1>6 DEF HookTyped, Hooks!Leaves
  <2> QED BY <1>1, <1>5, <1>6, <1>9, <2>1, <2>2, <2>3 DEF HookTyped
<1>12. SilencedAreRevoked'
  <2> SUFFICES ASSUME NEW c \in silenced' PROVE credentials'[c].status = "revoked"
    BY DEF SilencedAreRevoked
  <2>1. CASE c \in silenced
    <3>1. credentials[c].status = "revoked" /\ c \in Hooks!Credentials
      BY <1>6, <2>1 DEF HookInv, SilencedAreRevoked, HookTyped
    <3> QED BY <1>5, <3>1 DEF Issued
  <2>2. CASE c \in w.found
    BY <1>5, <2>2
  <2>3. CASE c = hook.current /\ c # 0 /\ c \notin w.found
    <3>1. c \in Hooks!Credentials /\ Issued(c) /\ ~Hooks!Live(c)
      BY <1>3, <1>10, <2>3
    <3>2. credentials[c].status \in {"none", "live", "revoked"}
      BY <1>6, <3>1 DEF HookTyped, CredentialRecords
    <3> QED BY <1>5, <3>1, <3>2 DEF Issued, Hooks!Live
  <2> QED BY <1>1, <2>1, <2>2, <2>3
<1>13. Hooks!WebhookHolds'
  <2>1. hook'.disabled = (w.kind = "disable") /\ hook'.current = w.cred
    BY <1>1
  <2>2. hook'.current # 0 => w.kind # "disable"
    BY <1>3, <2>1
  <2> QED BY <1>1, <1>3, <1>5, <1>7, <2>1, <2>2 DEF Hooks!WebhookHolds
<1>14. Hooks!PostsAreCurrent'
  BY <1>1 DEF HookInv, Hooks!PostsAreCurrent
<1> QED BY <1>9, <1>11, <1>12, <1>13, <1>14, HookTypesNext DEF HookInv

LEMMA CommitCommandKeeps ==
  ASSUME HookInv, NEW s \in Sessions, Hooks!CommitCommand(s)
  PROVE  HookInv'
<1> PICK w : w = work[s]
  OBVIOUS
<1>1. PICK writes \in BOOLEAN :
      /\ w.kind \in Hooks!Commands /\ w.pc = "commit" /\ Hooks!Ends(s)
      /\ others' = (IF w.kind = "cli_create" THEN others + 1 ELSE others)
      /\ credentials' = Hooks!insertCredential(w, writes)
      /\ silenced' = silenced \cup w.found
      /\ replaced' = (replaced \/ (w.kind = "cli_rotate" /\ Hooks!Leaves(w)))
      /\ UNCHANGED bot /\ UNCHANGED hook /\ UNCHANGED manages /\ UNCHANGED archived /\ UNCHANGED posts
      /\ UNCHANGED attempts /\ UNCHANGED time /\ UNCHANGED starts
  BY DEF Hooks!CommitCommand
<1>2. HookWorkOK(w) /\ w \in WorkRecords /\ w.found \subseteq Hooks!Credentials /\ w.cred \in {0} \cup Hooks!Credentials
  <2>1. HookWorkOK(w) /\ w \in WorkRecords
    BY HookFacts
  <2> QED BY <2>1 DEF WorkRecords
<1>3. w.kind = "cli_create" => "workspace" \in w.held /\ Hooks!Members < MaxSeats
  BY <1>1, <1>2 DEF HookWorkOK
<1>4. w.kind \in Hooks!Channels \cup Hooks!Commands
  BY <1>1
<1>5. /\ credentials' \in [Hooks!Credentials -> CredentialRecords]
      /\ \A c \in Hooks!Credentials : Issued(c) =>
           /\ c # w.cred /\ Issued(c)' /\ (Hooks!Live(c)' => Hooks!Live(c)) /\ credentials'[c].writes = credentials[c].writes
           /\ credentials[c].status = "revoked" => credentials'[c].status = "revoked"
      /\ \A c \in w.found : credentials'[c].status = "revoked"
      /\ \A c \in Hooks!Credentials \ w.found : Hooks!Live(c) => Hooks!Live(c)'
      /\ \A c \in Hooks!Credentials : c # w.cred => (Issued(c)' <=> Issued(c))
      /\ w.cred \in Hooks!Credentials => credentials'[w.cred].status = "live" /\ credentials'[w.cred].writes = writes
  BY <1>1, <1>2, <1>4, HookInserts
<1>6. /\ HookTyped /\ others \in Nat /\ Hooks!Members = others + (IF bot = "active" THEN 1 ELSE 0)
      /\ Hooks!Members <= MaxSeats
      /\ Hooks!Members' = (IF w.kind = "cli_create" THEN Hooks!Members + 1 ELSE Hooks!Members)
  BY <1>1, HookFacts DEF Hooks!Members, HookTyped
<1>7. Hooks!Members' \in Nat /\ Hooks!Members' <= MaxSeats /\ others' \in 0..MaxSeats
      /\ (Hooks!Members' <= Hooks!Members \/ "workspace" \in w.held)
  BY <1>1, <1>3, <1>6, WebhookBounds DEF HookTyped
<1>8. ASSUME NEW o \in Sessions \ {s} PROVE Spared(work[o])
  <2> PICK u : u = work[o]
    OBVIOUS
  <2>1. HookWorksApart(w, u) /\ HookWorkOK(u) /\ u \in WorkRecords
    BY HookFacts
  <2>2. ("workspace" \in w.held => "workspace" \notin u.held)
        /\ w.found \cap u.shared = {} /\ u.shared \subseteq Hooks!Credentials
    BY <1>1, <2>1 DEF HookWorksApart, WorkRecords
  <2>3. Issuing(u) => (Issued(u.cred)' <=> Issued(u.cred))
    <3>1. Issuing(w) => u.cred # w.cred
      BY <2>1 DEF HookWorksApart
    <3>2. Issuing(u) => u.cred \in Hooks!Credentials /\ u.cred # 0
      BY <2>1 DEF HookWorkOK, Hooks!Credentials
    <3>3. ~Issuing(w) => w.cred = 0
      BY <1>1, <1>2 DEF HookWorkOK, Hooks!Commands
    <3> QED BY <1>5, <3>1, <3>2, <3>3
  <2>4. \A c \in u.shared : Hooks!Live(c) => Hooks!Live(c)'
    BY <1>5, <2>2
  <2>5. Spared(u)
    BY <1>1, <1>5, <1>7, <2>2, <2>3, <2>4 DEF Spared
  <2> QED BY <2>5
<1>9. HookWorks' /\ work' \in [Sessions -> WorkRecords]
  BY <1>1, <1>7, <1>8, HookLeaves
<1>10. hook.current \in {0} \cup Hooks!Credentials /\ (hook.current # 0 => Issued(hook.current))
  BY <1>6 DEF HookTyped, HookInv, Hooks!WebhookHolds, Issued
<1>11. HookTyped'
  <2>1. silenced' \subseteq Hooks!Credentials
    BY <1>1, <1>2, <1>6 DEF HookTyped
  <2>2. replaced' \in BOOLEAN
    BY <1>1, <1>6 DEF HookTyped, Hooks!Leaves
  <2> QED BY <1>1, <1>5, <1>6, <1>7, <1>9, <2>1, <2>2 DEF HookTyped
<1>12. SilencedAreRevoked'
  <2> SUFFICES ASSUME NEW c \in silenced' PROVE credentials'[c].status = "revoked"
    BY DEF SilencedAreRevoked
  <2>1. CASE c \in silenced
    <3>1. credentials[c].status = "revoked" /\ c \in Hooks!Credentials
      BY <1>6, <2>1 DEF HookInv, SilencedAreRevoked, HookTyped
    <3> QED BY <1>5, <3>1 DEF Issued
  <2>2. CASE c \in w.found
    BY <1>5, <2>2
  <2> QED BY <1>1, <2>1, <2>2
<1>13. Hooks!WebhookHolds'
  BY <1>1, <1>5, <1>7, <1>10 DEF HookInv, Hooks!WebhookHolds, Issued
<1>14. Hooks!PostsAreCurrent'
  BY <1>1 DEF HookInv, Hooks!PostsAreCurrent
<1> QED BY <1>9, <1>11, <1>12, <1>13, <1>14, HookTypesNext DEF HookInv

LEMMA CommitArchiveKeeps ==
  ASSUME HookInv, NEW s \in Sessions, Hooks!CommitArchive(s)
  PROVE  HookInv'
<1> PICK w : w = work[s]
  OBVIOUS
<1>1. w.kind = "archive" /\ w.pc = "commit" /\ Hooks!Ends(s) /\ archived' = TRUE
      /\ UNCHANGED bot /\ UNCHANGED hook /\ UNCHANGED credentials /\ UNCHANGED others /\ UNCHANGED manages
      /\ UNCHANGED posts /\ UNCHANGED silenced /\ UNCHANGED replaced /\ UNCHANGED attempts /\ UNCHANGED time
      /\ UNCHANGED starts
  BY DEF Hooks!CommitArchive
<1>2. "conversation" \in w.held
  BY <1>1, HookFacts DEF HookWorkOK
<1>3. HookTyped /\ Hooks!Members' = Hooks!Members /\ Hooks!Members \in Nat
  BY <1>1, HookFacts DEF Hooks!Members
<1>4. ASSUME NEW o \in Sessions \ {s} PROVE Spared(work[o])
  <2> PICK u : u = work[o]
    OBVIOUS
  <2>1. HookWorksApart(w, u)
    BY HookFacts
  <2>2. "conversation" \notin u.held
    BY <1>2, <2>1 DEF HookWorksApart
  <2>3. credentials' = credentials /\ hook' = hook /\ bot' = bot /\ Hooks!Members' <= Hooks!Members
    BY <1>1, <1>3
  <2>4. /\ \A c : (Issued(c)' <=> Issued(c)) /\ (Hooks!Live(c)' <=> Hooks!Live(c))
    BY <2>3 DEF Issued, Hooks!Live
  <2>5. Spared(u)
    BY <2>2, <2>3, <2>4 DEF Spared
  <2> QED BY <2>5
<1>5. HookWorks' /\ work' \in [Sessions -> WorkRecords]
  BY <1>1, <1>3, <1>4, HookLeaves
<1>6. HookTyped'
  BY <1>1, <1>3, <1>5 DEF HookTyped
<1>7. SilencedAreRevoked' /\ Hooks!PostsAreCurrent' /\ Hooks!WebhookHolds'
  BY <1>1 DEF HookInv, SilencedAreRevoked, Hooks!PostsAreCurrent, Hooks!WebhookHolds, Hooks!Members
<1> QED BY <1>5, <1>6, <1>7, HookTypesNext DEF HookInv

LEMMA CommitPostKeeps ==
  ASSUME HookInv, NEW s \in Sessions, Hooks!CommitPost(s)
  PROVE  HookInv'
<1> PICK w : w = work[s]
  OBVIOUS
<1> PICK a : a = (hook.current = w.cred /\ ~hook.disabled)
  OBVIOUS
<1> PICK b : b = Hooks!Live(w.cred)
  OBVIOUS
<1> PICK c : c = (w.cred \in silenced)
  OBVIOUS
<1> PICK d : d = ~archived
  OBVIOUS
<1> PICK post : post = [current |-> a, live |-> b, silenced |-> c, open |-> d]
  OBVIOUS
<1>1. w.kind = "post" /\ w.pc = "commit" /\ Hooks!Ends(s) /\ posts' = posts \cup {post}
      /\ UNCHANGED bot /\ UNCHANGED hook /\ UNCHANGED credentials /\ UNCHANGED others /\ UNCHANGED manages
      /\ UNCHANGED archived /\ UNCHANGED silenced /\ UNCHANGED replaced /\ UNCHANGED attempts /\ UNCHANGED time
      /\ UNCHANGED starts
  BY DEF Hooks!CommitPost
<1>2. hook.current = w.cred /\ ~hook.disabled /\ Hooks!Live(w.cred) /\ ~archived
  BY <1>1, HookFacts DEF HookWorkOK
<1>3. w.cred \notin silenced
  BY <1>2 DEF HookInv, SilencedAreRevoked, Hooks!Live
<1>4. a = TRUE /\ b = TRUE /\ c = FALSE /\ d = TRUE
  <2>1. b = TRUE
    BY <1>2 DEF Hooks!Live
  <2>2. a = TRUE
    BY <1>2
  <2>3. c = FALSE
    <3>1. (w.cred \in silenced) = FALSE
      BY <1>3
    <3> QED BY <3>1
  <2>4. d = TRUE
    BY <1>2, Zenon
  <2> QED BY <2>1, <2>2, <2>3, <2>4
<1>5. post \in PostRecords /\ post.current /\ post.live /\ post.open /\ ~post.silenced
  BY <1>4 DEF PostRecords
<1>6. HookTyped /\ Hooks!Members' = Hooks!Members /\ Hooks!Members \in Nat
  BY <1>1, HookFacts DEF Hooks!Members
<1>7. ASSUME NEW o \in Sessions \ {s} PROVE Spared(work[o])
  <2> PICK u : u = work[o]
    OBVIOUS
  <2>1. credentials' = credentials /\ hook' = hook /\ bot' = bot /\ archived' = archived /\ Hooks!Members' <= Hooks!Members
    BY <1>1, <1>6
  <2>2. /\ \A k : (Issued(k)' <=> Issued(k)) /\ (Hooks!Live(k)' <=> Hooks!Live(k))
    BY <2>1 DEF Issued, Hooks!Live
  <2>3. Spared(u)
    BY <2>1, <2>2 DEF Spared
  <2> QED BY <2>3
<1>8. HookWorks' /\ work' \in [Sessions -> WorkRecords]
  BY <1>1, <1>6, <1>7, HookLeaves
<1>9. HookTyped'
  BY <1>1, <1>5, <1>6, <1>8 DEF HookTyped
<1>10. Hooks!PostsAreCurrent'
  BY <1>1, <1>5 DEF HookInv, Hooks!PostsAreCurrent
<1>11. SilencedAreRevoked' /\ Hooks!WebhookHolds'
  BY <1>1 DEF HookInv, SilencedAreRevoked, Hooks!WebhookHolds, Hooks!Members
<1> QED BY <1>8, <1>9, <1>10, <1>11, HookTypesNext DEF HookInv

(* What no transaction does: the manager leaves, the time passes.          *)
LEMMA HookAlone ==
  ASSUME HookInv, UNCHANGED work, UNCHANGED bot, UNCHANGED hook, UNCHANGED credentials, UNCHANGED others,
         UNCHANGED archived, UNCHANGED posts, UNCHANGED silenced, UNCHANGED replaced, UNCHANGED starts,
         manages' \in BOOLEAN, time' \in 0..MaxTime, attempts' \in [Hooks!Credentials -> 0..WindowPosts + 1]
  PROVE  HookInv'
<1>1. HookTyped /\ Hooks!Members' = Hooks!Members /\ Hooks!Members \in Nat
  BY HookFacts DEF Hooks!Members
<1>2. ASSUME NEW o \in Sessions PROVE HookWorkOK(work[o])'
  <2> PICK u : u = work[o]
    OBVIOUS
  <2>1. HookWorkOK(u) /\ u \in WorkRecords
    BY HookFacts
  <2>2. Spared(u)
    BY <1>1 DEF Spared, Issued, Hooks!Live
  <2>3. HookWorkOK(u)'
    BY <1>1, <2>1, <2>2, HookWorkStays
  <2>4. u = work'[o]
    OBVIOUS
  <2> QED BY <2>3, <2>4
<1>3. HookWorks'
  BY <1>2 DEF HookInv, HookWorks, HookWorksApart, Issuing
<1>4. HookTyped'
  BY <1>1 DEF HookTyped
<1>5. SilencedAreRevoked' /\ Hooks!PostsAreCurrent' /\ Hooks!WebhookHolds'
  BY DEF HookInv, SilencedAreRevoked, Hooks!PostsAreCurrent, Hooks!WebhookHolds, Hooks!Members
<1> QED BY <1>3, <1>4, <1>5, HookTypesNext DEF HookInv

LEMMA HookAloneKeeps ==
  ASSUME HookInv
  PROVE  (Hooks!ManagerLeaves => HookInv') /\ (Hooks!TimePasses => HookInv') /\ (UNCHANGED HooksVars => HookInv')
<1>1. HookTyped
  BY HookFacts
<1>2. ASSUME Hooks!ManagerLeaves PROVE HookInv'
  BY <1>1, <1>2, HookAlone DEF Hooks!ManagerLeaves, HookTyped
<1>3. ASSUME Hooks!TimePasses PROVE HookInv'
  <2>1. time' \in 0..MaxTime
    BY <1>1, <1>3, WebhookBounds DEF Hooks!TimePasses, HookTyped
  <2>2. attempts' \in [Hooks!Credentials -> 0..WindowPosts + 1]
    BY <1>3, WebhookBounds DEF Hooks!TimePasses
  <2> QED BY <1>1, <1>3, <2>1, <2>2, HookAlone DEF Hooks!TimePasses, HookTyped
<1>4. ASSUME UNCHANGED HooksVars PROVE HookInv'
  BY <1>1, <1>4, HookAlone DEF HooksVars, HookTyped
<1> QED BY <1>2, <1>3, <1>4

LEMMA HookGivesUp ==
  ASSUME HookInv, NEW s \in Sessions
  PROVE  (Hooks!Aborted(s) => HookInv') /\ (Hooks!PostFails(s) => HookInv')
BY OnlyIs, HookEnds DEF Hooks!Aborted, Hooks!PostFails

(* Every step keeps the invariant.                                         *)
LEMMA HookStep ==
  ASSUME HookInv, [Hooks!Next]_HooksVars
  PROVE  HookInv'
<1>1. ASSUME NEW s \in Sessions,
             \/ \E k \in Hooks!Channels \cup {"archive"} : Hooks!ChannelRequest(s, k)
             \/ \E k \in Hooks!Commands : Hooks!Command(s, k)
             \/ \E c \in Hooks!Credentials : Hooks!IncomingPost(s, c)
             \/ Hooks!requireManageableWebhookChannel(s) \/ Hooks!channelWebhook(s) \/ Hooks!requireMemberCapacity(s) \/ Hooks!requireOwner(s)
             \/ Hooks!requireBot(s) \/ Hooks!FindCredentials(s) \/ Hooks!revokeBotCredentials(s) \/ Hooks!CommitChannel(s) \/ Hooks!CommitCommand(s)
             \/ Hooks!CommitArchive(s) \/ Hooks!authenticate(s) \/ Hooks!authenticateChannelWebhook(s) \/ Hooks!LockConversation(s)
             \/ Hooks!ShareMembership(s) \/ Hooks!ShareCredential(s) \/ Hooks!CommitPost(s) \/ Hooks!Aborted(s) \/ Hooks!PostFails(s)
      PROVE  HookInv'
  BY <1>1, HookAsksKeep, RequireManageableKeeps, ChannelWebhookKeeps, RequireMemberCapacityKeeps, CommandOwnerKeeps,
     RequireBotKeeps, FindCredentialsKeeps, RevokeBotCredentialsKeeps, CommitChannelKeeps, CommitCommandKeeps,
     CommitArchiveKeeps, HookAuthenticateKeeps, AuthenticateChannelWebhookKeeps, HookLockConversationKeeps,
     ShareMembershipKeeps, ShareCredentialKeeps, CommitPostKeeps, HookGivesUp
<1>2. (\E s \in Sessions :
             \/ \E k \in Hooks!Channels \cup {"archive"} : Hooks!ChannelRequest(s, k)
             \/ \E k \in Hooks!Commands : Hooks!Command(s, k)
             \/ \E c \in Hooks!Credentials : Hooks!IncomingPost(s, c)
             \/ Hooks!requireManageableWebhookChannel(s) \/ Hooks!channelWebhook(s) \/ Hooks!requireMemberCapacity(s) \/ Hooks!requireOwner(s)
             \/ Hooks!requireBot(s) \/ Hooks!FindCredentials(s) \/ Hooks!revokeBotCredentials(s) \/ Hooks!CommitChannel(s) \/ Hooks!CommitCommand(s)
             \/ Hooks!CommitArchive(s) \/ Hooks!authenticate(s) \/ Hooks!authenticateChannelWebhook(s) \/ Hooks!LockConversation(s)
             \/ Hooks!ShareMembership(s) \/ Hooks!ShareCredential(s) \/ Hooks!CommitPost(s) \/ Hooks!Aborted(s) \/ Hooks!PostFails(s))
      \/ Hooks!ManagerLeaves \/ Hooks!TimePasses \/ UNCHANGED HooksVars
  BY DEF Hooks!Next
<1> QED BY <1>1, <1>2, HookAloneKeeps

LEMMA HookSafe == HookInv => Hooks!TypeOK /\ Hooks!PostsAreCurrent /\ Hooks!WebhookHolds
BY DEF HookInv

(* What one process has open where it is.                                  *)
Opening == {"app", "jobs", "listen", "serving", "closing"}
(* A hub that was started and has no client has lost it; so has one that ended clean. *)
ListenerOK(p) == (phase[p] \in Opening /\ ~hub[p] => faults # 0) /\ (code[p] = "clean" => faults # 0)
ProcessOK(p) ==
  /\ (phase[p] \notin {"store", "ended"} => pool[p] \/ closing[p] \in {"hub", "exit"}) /\ (phase[p] = "ended" => ~pool[p])
  /\ (hub[p] => phase[p] \in Opening)
  /\ (lock = p => phase[p] \in {"check", "apply"})
  /\ (phase[p] # "closing" => closing[p] = "none")
  /\ (closing[p] \in {"pool", "hub", "exit"} => timers[p] = {}) /\ (closing[p] \in {"hub", "exit"} => ~pool[p] /\ ~hub[p])
  /\ (timers[p] # {} => phase[p] \in {"listen", "serving", "closing"})
  /\ \A j \in Jobs : running[p][j] <= runs + 1
  /\ \A j \in SingleFlight : running[p][j] <= 1 /\ (running[p][j] = 1 => guard[p])
  /\ (phase[p] = "ended" => \A j \in Jobs : running[p][j] = 0)
  /\ seen[p] \subseteq Process!NamesOf(recorded)
  /\ (phase[p] \in {"seed", "hub", "app", "jobs", "listen", "serving"}
        => Process!NamesOf(Process!Shipped(p)) \subseteq Process!NamesOf(recorded))
  /\ ListenerOK(p)
RecordOK ==
  /\ Process!NamesOf(recorded) \subseteq Process!AllNames
  /\ \A n \in Process!AllNames : executed[n] <= 1 /\ (executed[n] = 1 <=> n \in Process!NamesOf(recorded))
  /\ \A a, b \in recorded : a.name = b.name => a = b
ProcessInv == Process!TypeOK /\ RecordOK /\ runs <= MaxRuns - 1 /\ \A p \in Processes : ProcessOK(p)

ProcessTyped ==
  /\ phase \in [Processes -> Process!Phases] /\ pool \in [Processes -> BOOLEAN] /\ hub \in [Processes -> BOOLEAN]
  /\ ready \in [Processes -> {"starting", "ready", "draining"}] /\ timers \in [Processes -> SUBSET Jobs]
  /\ running \in [Processes -> [Jobs -> Nat]] /\ guard \in [Processes -> BOOLEAN]
  /\ closing \in [Processes -> {"none", "timers", "pool", "hub", "exit"}] /\ armed \in [Processes -> BOOLEAN]
  /\ code \in [Processes -> {"none", "clean", "failed", "killed"}]
  /\ lock \in Processes \cup {Process!Free} /\ seen \in [Processes -> SUBSET Process!AllNames]
  /\ executed \in [Process!AllNames -> 0..2] /\ runs \in 0..MaxRuns - 1 /\ faults \in 0..MaxFaults

(* What a step leaves to another process.                                  *)
Undisturbed(q) ==
  /\ phase'[q] = phase[q] /\ pool'[q] = pool[q] /\ hub'[q] = hub[q] /\ closing'[q] = closing[q]
  /\ timers'[q] = timers[q] /\ running'[q] = running[q] /\ guard'[q] = guard[q] /\ seen'[q] = seen[q]
  /\ (lock' = q => lock = q) /\ code'[q] = code[q] /\ (faults # 0 => faults' # 0)

LEMMA ProcessKept ==
  ASSUME ProcessInv, NEW p \in Processes, \A q \in Processes \ {p} : Undisturbed(q), ProcessOK(p)', RecordOK',
         ProcessTyped', runs \in Nat, runs' \in {runs, runs + 1}, Process!NamesOf(recorded) \subseteq Process!NamesOf(recorded')
  PROVE  ProcessInv'
<1>1. ASSUME NEW q \in Processes PROVE ProcessOK(q)'
  <2>1. CASE q = p
    BY <2>1
  <2>2. CASE q # p
    <3>1. Undisturbed(q) /\ ProcessOK(q)
      BY <2>2 DEF ProcessInv
    <3>2. \A j \in Jobs : running'[q][j] <= runs' + 1
      <4>1. \A j \in Jobs : running[q][j] \in Int
        BY DEF ProcessInv, Process!TypeOK
      <4> QED BY <3>1, <4>1 DEF Undisturbed, ProcessOK
    <3>3. \A j \in SingleFlight : running'[q][j] <= 1 /\ (running'[q][j] = 1 => guard'[q])
      BY <3>1 DEF Undisturbed, ProcessOK
    <3>4. seen'[q] \subseteq Process!NamesOf(recorded') /\ Process!NamesOf(Process!Shipped(q))' = Process!NamesOf(Process!Shipped(q))
      BY <3>1 DEF Undisturbed, ProcessOK, Process!Shipped, Process!NamesOf
    <3>5. phase'[q] \in {"seed", "hub", "app", "jobs", "listen", "serving"}
            => Process!NamesOf(Process!Shipped(q))' \subseteq Process!NamesOf(recorded')
      BY <3>1, <3>4 DEF Undisturbed, ProcessOK
    <3>6. phase'[q] = "ended" => \A j \in Jobs : running'[q][j] = 0
      BY <3>1 DEF Undisturbed, ProcessOK
    <3>7. ListenerOK(q)'
      BY <3>1 DEF Undisturbed, ProcessOK, ListenerOK
    <3> QED BY <3>1, <3>2, <3>3, <3>4, <3>5, <3>6, <3>7 DEF Undisturbed, ProcessOK
  <2> QED BY <2>1, <2>2
<1>2. \A q \in Processes : running'[q] \in [Jobs -> 0..MaxRuns]
  <2> SUFFICES ASSUME NEW q \in Processes PROVE running'[q] \in [Jobs -> 0..MaxRuns]
    OBVIOUS
  <2>1. running'[q] \in [Jobs -> Nat] /\ (\A j \in Jobs : running'[q][j] <= runs' + 1) /\ runs' \in 0..MaxRuns - 1
    BY <1>1 DEF ProcessTyped, ProcessOK
  <2> QED BY <2>1, ProcessBounds
<1>3. Process!TypeOK'
  BY <1>2, ProcessBounds DEF ProcessTyped, Process!TypeOK
<1> QED BY <1>1, <1>3, ProcessBounds DEF ProcessInv, ProcessTyped

LEMMA ProcessTypes ==
  ASSUME ProcessInv
  PROVE  ProcessTyped /\ runs \in Nat /\ RecordOK /\ \A p \in Processes : ProcessOK(p)
BY ProcessBounds DEF ProcessInv, Process!TypeOK, ProcessTyped

LEMMA ProcessInit == Process!Init => ProcessInv
<1> SUFFICES ASSUME Process!Init PROVE ProcessInv
  OBVIOUS
<1> USE ProcessBounds
<1>1. Process!TypeOK /\ runs <= MaxRuns - 1
  BY DEF Process!Init, Process!TypeOK, Process!Phases
<1>2. RecordOK
  BY DEF Process!Init, RecordOK, Process!AllNames
<1>3. \A p \in Processes : ProcessOK(p)
  BY DEF Process!Init, ProcessOK, ListenerOK, Opening
<1> QED BY <1>1, <1>2, <1>3 DEF ProcessInv

(* The record and the jobs stay.                                           *)
LEMMA QuietKeeps ==
  ASSUME ProcessInv, NEW p \in Processes, \A q \in Processes \ {p} : Undisturbed(q), ProcessOK(p)', ProcessTyped',
         UNCHANGED recorded, UNCHANGED executed, UNCHANGED runs
  PROVE  ProcessInv'
<1>1. RecordOK'
  BY ProcessTypes DEF RecordOK
<1> QED BY <1>1, ProcessTypes, ProcessKept

(* The process runs on its way up, with what it has open.                  *)
LEMMA StartFailsKeeps ==
  ASSUME ProcessInv, NEW p \in Processes, Process!StartFails(p)
  PROVE  ProcessInv' /\ Process!DrainIsFinal
<1> USE ProcessTypes
<1>1. \A q \in Processes \ {p} : Undisturbed(q)
  <2>1. faults # 0 => faults' # 0
    BY ProcessBounds DEF Process!StartFails, ProcessTyped, Process!Fault
  <2> QED BY <2>1, ProcessBounds DEF Process!StartFails, Undisturbed, Process!Reaches, ProcessTyped
<1>2. ProcessTyped'
  <2>1. phase' \in [Processes -> Process!Phases]
    BY DEF Process!StartFails, Process!Reaches, ProcessTyped, Process!Phases
  <2>2. running' \in [Processes -> [Jobs -> Nat]]
    BY DEF Process!StartFails, ProcessTyped
  <2>3. faults' \in 0..MaxFaults
    BY ProcessBounds DEF Process!StartFails, ProcessTyped, Process!Fault
  <2> QED BY <2>1, <2>2, <2>3 DEF Process!StartFails, ProcessTyped
<1>3. ProcessOK(p)'
  <2>1. phase'[p] = "ended" /\ ~pool'[p] /\ ~hub'[p] /\ lock' # p /\ timers'[p] = {} /\ closing'[p] = "none"
    BY ProcessBounds DEF Process!StartFails, Process!Reaches, ProcessTyped, ProcessOK
  <2>2. \A j \in Jobs : running'[p][j] = 0
    BY DEF Process!StartFails, ProcessTyped
  <2>3. seen'[p] \subseteq Process!NamesOf(recorded') /\ runs' \in Nat
    BY DEF Process!StartFails, ProcessOK
  <2>4. code'[p] = "failed"
    BY DEF Process!StartFails, ProcessTyped
  <2> QED BY <2>1, <2>2, <2>3, <2>4, ProcessBounds DEF ProcessOK, ListenerOK, Opening
<1>4. Process!DrainIsFinal
  BY DEF Process!StartFails, Process!DrainIsFinal
<1> QED BY <1>1, <1>2, <1>3, <1>4, QuietKeeps DEF Process!StartFails

LEMMA PrepareKeeps ==
  ASSUME ProcessInv, NEW p \in Processes, Process!Prepare(p)
  PROVE  ProcessInv' /\ Process!DrainIsFinal
<1> USE ProcessTypes, ProcessBounds DEF Process!Prepare, Process!Serving, Process!Database, Process!Background,
                                        Process!Reaches
<1>1. \A q \in Processes \ {p} : Undisturbed(q)
  BY DEF Undisturbed, ProcessTyped
<1>2. ProcessTyped'
  BY DEF ProcessTyped, Process!Phases
<1>3. ProcessOK(p)'
  <2>1. \A j \in Jobs : running'[p][j] <= runs' + 1
    BY DEF ProcessTyped, ProcessOK
  <2>2. \A j \in SingleFlight : running'[p][j] <= 1 /\ (running'[p][j] = 1 => guard'[p])
    BY DEF ProcessTyped, ProcessOK
  <2>3. /\ (phase'[p] \notin {"store", "ended"} => pool'[p] \/ closing'[p] \in {"hub", "exit"}) /\ (phase'[p] = "ended" => ~pool'[p])
        /\ (hub'[p] => phase'[p] \in Opening)
        /\ (lock' = p => phase'[p] \in {"check", "apply"})
        /\ (phase'[p] # "closing" => closing'[p] = "none")
    BY DEF ProcessTyped, ProcessOK, Opening
  <2>4. /\ (closing'[p] \in {"pool", "hub", "exit"} => timers'[p] = {}) /\ (closing'[p] \in {"hub", "exit"} => ~pool'[p] /\ ~hub'[p])
        /\ (timers'[p] # {} => phase'[p] \in {"listen", "serving", "closing"})
    BY DEF ProcessTyped, ProcessOK
  <2>5. seen'[p] \subseteq Process!NamesOf(recorded')
    BY DEF ProcessTyped, ProcessOK
  <2>6. phase'[p] \in {"seed", "hub", "app", "jobs", "listen", "serving"}
           => Process!NamesOf(Process!Shipped(p))' \subseteq Process!NamesOf(recorded')
    BY DEF ProcessTyped, ProcessOK, Process!NamesOf, Process!Shipped
  <2>7. phase'[p] = "ended" => \A j \in Jobs : running'[p][j] = 0
    BY DEF ProcessTyped, ProcessOK
  <2>8. ListenerOK(p)'
    BY DEF ProcessTyped, ProcessOK, ListenerOK, Opening
  <2> QED BY <2>1, <2>2, <2>3, <2>4, <2>5, <2>6, <2>7, <2>8 DEF ProcessOK
<1>4. Process!DrainIsFinal
  BY DEF Process!DrainIsFinal, ProcessTyped
<1> QED BY <1>1, <1>2, <1>3, <1>4, QuietKeeps

LEMMA AcquireLockKeeps ==
  ASSUME ProcessInv, NEW p \in Processes, Process!AcquireLock(p)
  PROVE  ProcessInv' /\ Process!DrainIsFinal
<1> USE ProcessTypes, ProcessBounds DEF Process!AcquireLock, Process!Serving, Process!Database,
                                        Process!Background, Process!Reaches
<1>1. \A q \in Processes \ {p} : Undisturbed(q)
  BY DEF Undisturbed, ProcessTyped
<1>2. ProcessTyped'
  BY DEF ProcessTyped, Process!Phases
<1>3. ProcessOK(p)'
  <2>1. \A j \in Jobs : running'[p][j] <= runs' + 1
    BY DEF ProcessTyped, ProcessOK
  <2>2. \A j \in SingleFlight : running'[p][j] <= 1 /\ (running'[p][j] = 1 => guard'[p])
    BY DEF ProcessTyped, ProcessOK
  <2>3. /\ (phase'[p] \notin {"store", "ended"} => pool'[p] \/ closing'[p] \in {"hub", "exit"}) /\ (phase'[p] = "ended" => ~pool'[p])
        /\ (hub'[p] => phase'[p] \in Opening)
        /\ (lock' = p => phase'[p] \in {"check", "apply"})
        /\ (phase'[p] # "closing" => closing'[p] = "none")
    BY DEF ProcessTyped, ProcessOK, Opening
  <2>4. /\ (closing'[p] \in {"pool", "hub", "exit"} => timers'[p] = {}) /\ (closing'[p] \in {"hub", "exit"} => ~pool'[p] /\ ~hub'[p])
        /\ (timers'[p] # {} => phase'[p] \in {"listen", "serving", "closing"})
    BY DEF ProcessTyped, ProcessOK
  <2>5. seen'[p] \subseteq Process!NamesOf(recorded')
    BY DEF ProcessTyped, ProcessOK
  <2>6. phase'[p] \in {"seed", "hub", "app", "jobs", "listen", "serving"}
           => Process!NamesOf(Process!Shipped(p))' \subseteq Process!NamesOf(recorded')
    BY DEF ProcessTyped, ProcessOK, Process!NamesOf, Process!Shipped
  <2>7. phase'[p] = "ended" => \A j \in Jobs : running'[p][j] = 0
    BY DEF ProcessTyped, ProcessOK
  <2>8. ListenerOK(p)'
    BY DEF ProcessTyped, ProcessOK, ListenerOK, Opening
  <2> QED BY <2>1, <2>2, <2>3, <2>4, <2>5, <2>6, <2>7, <2>8 DEF ProcessOK
<1>4. Process!DrainIsFinal
  BY DEF Process!DrainIsFinal, ProcessTyped
<1> QED BY <1>1, <1>2, <1>3, <1>4, QuietKeeps

LEMMA MigratedKeeps ==
  ASSUME ProcessInv, NEW p \in Processes, Process!Migrated(p)
  PROVE  ProcessInv' /\ Process!DrainIsFinal
<1> USE ProcessTypes, ProcessBounds DEF Process!Migrated, Process!Serving, Process!Database, Process!Background,
                                        Process!Reaches
<1>1. \A q \in Processes \ {p} : Undisturbed(q)
  BY DEF Undisturbed, ProcessTyped
<1>2. ProcessTyped'
  BY DEF ProcessTyped, Process!Phases
<1>3. ProcessOK(p)'
  <2>1. \A j \in Jobs : running'[p][j] <= runs' + 1
    BY DEF ProcessTyped, ProcessOK
  <2>2. \A j \in SingleFlight : running'[p][j] <= 1 /\ (running'[p][j] = 1 => guard'[p])
    BY DEF ProcessTyped, ProcessOK
  <2>3. /\ (phase'[p] \notin {"store", "ended"} => pool'[p] \/ closing'[p] \in {"hub", "exit"}) /\ (phase'[p] = "ended" => ~pool'[p])
        /\ (hub'[p] => phase'[p] \in Opening)
        /\ (lock' = p => phase'[p] \in {"check", "apply"})
        /\ (phase'[p] # "closing" => closing'[p] = "none")
    BY DEF ProcessTyped, ProcessOK, Opening
  <2>4. /\ (closing'[p] \in {"pool", "hub", "exit"} => timers'[p] = {}) /\ (closing'[p] \in {"hub", "exit"} => ~pool'[p] /\ ~hub'[p])
        /\ (timers'[p] # {} => phase'[p] \in {"listen", "serving", "closing"})
    BY DEF ProcessTyped, ProcessOK
  <2>5. seen'[p] \subseteq Process!NamesOf(recorded')
    BY DEF ProcessTyped, ProcessOK
  <2>6. phase'[p] \in {"seed", "hub", "app", "jobs", "listen", "serving"}
           => Process!NamesOf(Process!Shipped(p))' \subseteq Process!NamesOf(recorded')
    <3>1. Process!NamesOf(Process!Shipped(p)) \subseteq seen[p]
      BY DEF Process!Pending, Process!NamesOf, Process!Shipped
    <3>2. Process!NamesOf(Process!Shipped(p))' = Process!NamesOf(Process!Shipped(p)) /\ recorded' = recorded
      BY DEF Process!NamesOf, Process!Shipped
    <3> QED BY <3>1, <3>2 DEF ProcessOK
  <2>7. phase'[p] = "ended" => \A j \in Jobs : running'[p][j] = 0
    BY DEF ProcessTyped, ProcessOK
  <2>8. ListenerOK(p)'
    BY DEF ProcessTyped, ProcessOK, ListenerOK, Opening
  <2> QED BY <2>1, <2>2, <2>3, <2>4, <2>5, <2>6, <2>7, <2>8 DEF ProcessOK
<1>4. Process!DrainIsFinal
  BY DEF Process!DrainIsFinal, ProcessTyped
<1> QED BY <1>1, <1>2, <1>3, <1>4, QuietKeeps

LEMMA SeedOwnerKeeps ==
  ASSUME ProcessInv, NEW p \in Processes, Process!SeedOwner(p)
  PROVE  ProcessInv' /\ Process!DrainIsFinal
<1> USE ProcessTypes, ProcessBounds DEF Process!SeedOwner, Process!Serving, Process!Database,
                                        Process!Background, Process!Reaches
<1>1. \A q \in Processes \ {p} : Undisturbed(q)
  BY DEF Undisturbed, ProcessTyped
<1>2. ProcessTyped'
  BY DEF ProcessTyped, Process!Phases
<1>3. ProcessOK(p)'
  <2>1. \A j \in Jobs : running'[p][j] <= runs' + 1
    BY DEF ProcessTyped, ProcessOK
  <2>2. \A j \in SingleFlight : running'[p][j] <= 1 /\ (running'[p][j] = 1 => guard'[p])
    BY DEF ProcessTyped, ProcessOK
  <2>3. /\ (phase'[p] \notin {"store", "ended"} => pool'[p] \/ closing'[p] \in {"hub", "exit"}) /\ (phase'[p] = "ended" => ~pool'[p])
        /\ (hub'[p] => phase'[p] \in Opening)
        /\ (lock' = p => phase'[p] \in {"check", "apply"})
        /\ (phase'[p] # "closing" => closing'[p] = "none")
    BY DEF ProcessTyped, ProcessOK, Opening
  <2>4. /\ (closing'[p] \in {"pool", "hub", "exit"} => timers'[p] = {}) /\ (closing'[p] \in {"hub", "exit"} => ~pool'[p] /\ ~hub'[p])
        /\ (timers'[p] # {} => phase'[p] \in {"listen", "serving", "closing"})
    BY DEF ProcessTyped, ProcessOK
  <2>5. seen'[p] \subseteq Process!NamesOf(recorded')
    BY DEF ProcessTyped, ProcessOK
  <2>6. phase'[p] \in {"seed", "hub", "app", "jobs", "listen", "serving"}
           => Process!NamesOf(Process!Shipped(p))' \subseteq Process!NamesOf(recorded')
    BY DEF ProcessTyped, ProcessOK, Process!NamesOf, Process!Shipped
  <2>7. phase'[p] = "ended" => \A j \in Jobs : running'[p][j] = 0
    BY DEF ProcessTyped, ProcessOK
  <2>8. ListenerOK(p)'
    BY DEF ProcessTyped, ProcessOK, ListenerOK, Opening
  <2> QED BY <2>1, <2>2, <2>3, <2>4, <2>5, <2>6, <2>7, <2>8 DEF ProcessOK
<1>4. Process!DrainIsFinal
  BY DEF Process!DrainIsFinal, ProcessTyped
<1> QED BY <1>1, <1>2, <1>3, <1>4, QuietKeeps

LEMMA StartHubKeeps ==
  ASSUME ProcessInv, NEW p \in Processes, Process!StartHub(p)
  PROVE  ProcessInv' /\ Process!DrainIsFinal
<1> USE ProcessTypes, ProcessBounds DEF Process!StartHub, Process!Serving, Process!Database, Process!Background,
                                        Process!Reaches
<1>1. \A q \in Processes \ {p} : Undisturbed(q)
  BY DEF Undisturbed, ProcessTyped
<1>2. ProcessTyped'
  BY DEF ProcessTyped, Process!Phases
<1>3. ProcessOK(p)'
  <2>1. \A j \in Jobs : running'[p][j] <= runs' + 1
    BY DEF ProcessTyped, ProcessOK
  <2>2. \A j \in SingleFlight : running'[p][j] <= 1 /\ (running'[p][j] = 1 => guard'[p])
    BY DEF ProcessTyped, ProcessOK
  <2>3. /\ (phase'[p] \notin {"store", "ended"} => pool'[p] \/ closing'[p] \in {"hub", "exit"}) /\ (phase'[p] = "ended" => ~pool'[p])
        /\ (hub'[p] => phase'[p] \in Opening)
        /\ (lock' = p => phase'[p] \in {"check", "apply"})
        /\ (phase'[p] # "closing" => closing'[p] = "none")
    BY DEF ProcessTyped, ProcessOK, Opening
  <2>4. /\ (closing'[p] \in {"pool", "hub", "exit"} => timers'[p] = {}) /\ (closing'[p] \in {"hub", "exit"} => ~pool'[p] /\ ~hub'[p])
        /\ (timers'[p] # {} => phase'[p] \in {"listen", "serving", "closing"})
    BY DEF ProcessTyped, ProcessOK
  <2>5. seen'[p] \subseteq Process!NamesOf(recorded')
    BY DEF ProcessTyped, ProcessOK
  <2>6. phase'[p] \in {"seed", "hub", "app", "jobs", "listen", "serving"}
           => Process!NamesOf(Process!Shipped(p))' \subseteq Process!NamesOf(recorded')
    BY DEF ProcessTyped, ProcessOK, Process!NamesOf, Process!Shipped
  <2>7. phase'[p] = "ended" => \A j \in Jobs : running'[p][j] = 0
    BY DEF ProcessTyped, ProcessOK
  <2>8. ListenerOK(p)'
    BY DEF ProcessTyped, ProcessOK, ListenerOK, Opening
  <2> QED BY <2>1, <2>2, <2>3, <2>4, <2>5, <2>6, <2>7, <2>8 DEF ProcessOK
<1>4. Process!DrainIsFinal
  BY DEF Process!DrainIsFinal, ProcessTyped
<1> QED BY <1>1, <1>2, <1>3, <1>4, QuietKeeps

LEMMA BuildAppKeeps ==
  ASSUME ProcessInv, NEW p \in Processes, Process!BuildApp(p)
  PROVE  ProcessInv' /\ Process!DrainIsFinal
<1> USE ProcessTypes, ProcessBounds DEF Process!BuildApp, Process!MarkReady, Process!Serving, Process!Database,
                                        Process!Background, Process!Reaches
<1>1. \A q \in Processes \ {p} : Undisturbed(q)
  BY DEF Undisturbed, ProcessTyped
<1>2. ProcessTyped'
  BY DEF ProcessTyped, Process!Phases
<1>3. ProcessOK(p)'
  <2>1. \A j \in Jobs : running'[p][j] <= runs' + 1
    BY DEF ProcessTyped, ProcessOK
  <2>2. \A j \in SingleFlight : running'[p][j] <= 1 /\ (running'[p][j] = 1 => guard'[p])
    BY DEF ProcessTyped, ProcessOK
  <2>3. /\ (phase'[p] \notin {"store", "ended"} => pool'[p] \/ closing'[p] \in {"hub", "exit"}) /\ (phase'[p] = "ended" => ~pool'[p])
        /\ (hub'[p] => phase'[p] \in Opening)
        /\ (lock' = p => phase'[p] \in {"check", "apply"})
        /\ (phase'[p] # "closing" => closing'[p] = "none")
    BY DEF ProcessTyped, ProcessOK, Opening
  <2>4. /\ (closing'[p] \in {"pool", "hub", "exit"} => timers'[p] = {}) /\ (closing'[p] \in {"hub", "exit"} => ~pool'[p] /\ ~hub'[p])
        /\ (timers'[p] # {} => phase'[p] \in {"listen", "serving", "closing"})
    BY DEF ProcessTyped, ProcessOK
  <2>5. seen'[p] \subseteq Process!NamesOf(recorded')
    BY DEF ProcessTyped, ProcessOK
  <2>6. phase'[p] \in {"seed", "hub", "app", "jobs", "listen", "serving"}
           => Process!NamesOf(Process!Shipped(p))' \subseteq Process!NamesOf(recorded')
    BY DEF ProcessTyped, ProcessOK, Process!NamesOf, Process!Shipped
  <2>7. phase'[p] = "ended" => \A j \in Jobs : running'[p][j] = 0
    BY DEF ProcessTyped, ProcessOK
  <2>8. ListenerOK(p)'
    BY DEF ProcessTyped, ProcessOK, ListenerOK, Opening
  <2> QED BY <2>1, <2>2, <2>3, <2>4, <2>5, <2>6, <2>7, <2>8 DEF ProcessOK
<1>4. Process!DrainIsFinal
  BY DEF Process!DrainIsFinal, ProcessTyped
<1> QED BY <1>1, <1>2, <1>3, <1>4, QuietKeeps

LEMMA StartJobsKeeps ==
  ASSUME ProcessInv, NEW p \in Processes, Process!StartJobs(p)
  PROVE  ProcessInv' /\ Process!DrainIsFinal
<1> USE ProcessTypes, ProcessBounds DEF Process!StartJobs, Process!Serving, Process!Database,
                                        Process!Background, Process!Reaches
<1>1. \A q \in Processes \ {p} : Undisturbed(q)
  BY DEF Undisturbed, ProcessTyped
<1>2. ProcessTyped'
  BY DEF ProcessTyped, Process!Phases
<1>3. ProcessOK(p)'
  <2>1. \A j \in Jobs : running'[p][j] <= runs' + 1
    BY DEF ProcessTyped, ProcessOK
  <2>2. \A j \in SingleFlight : running'[p][j] <= 1 /\ (running'[p][j] = 1 => guard'[p])
    <3>1. \A j \in Jobs : running'[p][j] = IF j \in OnBoot THEN 1 ELSE 0
      BY DEF ProcessTyped
    <3>2. guard'[p] = (OnBoot \cap SingleFlight # {})
      BY DEF ProcessTyped
    <3>3. \A j \in SingleFlight : j \in OnBoot => guard'[p]
      BY <3>2
    <3> HIDE DEF Process!StartJobs
    <3> QED BY <3>1, <3>3
  <2>3. /\ (phase'[p] \notin {"store", "ended"} => pool'[p] \/ closing'[p] \in {"hub", "exit"}) /\ (phase'[p] = "ended" => ~pool'[p])
        /\ (hub'[p] => phase'[p] \in Opening)
        /\ (lock' = p => phase'[p] \in {"check", "apply"})
        /\ (phase'[p] # "closing" => closing'[p] = "none")
    BY DEF ProcessTyped, ProcessOK, Opening
  <2>4. /\ (closing'[p] \in {"pool", "hub", "exit"} => timers'[p] = {}) /\ (closing'[p] \in {"hub", "exit"} => ~pool'[p] /\ ~hub'[p])
        /\ (timers'[p] # {} => phase'[p] \in {"listen", "serving", "closing"})
    <3>1. phase'[p] = "listen" /\ closing'[p] = "none"
      BY DEF ProcessTyped, ProcessOK
    <3> HIDE DEF Process!StartJobs
    <3> QED BY <3>1
  <2>5. seen'[p] \subseteq Process!NamesOf(recorded')
    BY DEF ProcessTyped, ProcessOK
  <2>6. phase'[p] \in {"seed", "hub", "app", "jobs", "listen", "serving"}
           => Process!NamesOf(Process!Shipped(p))' \subseteq Process!NamesOf(recorded')
    BY DEF ProcessTyped, ProcessOK, Process!NamesOf, Process!Shipped
  <2>7. phase'[p] = "ended" => \A j \in Jobs : running'[p][j] = 0
    BY DEF ProcessTyped, ProcessOK
  <2>8. ListenerOK(p)'
    BY DEF ProcessTyped, ProcessOK, ListenerOK, Opening
  <2> QED BY <2>1, <2>2, <2>3, <2>4, <2>5, <2>6, <2>7, <2>8 DEF ProcessOK
<1>4. Process!DrainIsFinal
  BY DEF Process!DrainIsFinal, ProcessTyped
<1> QED BY <1>1, <1>2, <1>3, <1>4, QuietKeeps

LEMMA ListenKeeps ==
  ASSUME ProcessInv, NEW p \in Processes, Process!Listen(p)
  PROVE  ProcessInv' /\ Process!DrainIsFinal
<1> USE ProcessTypes, ProcessBounds DEF Process!Listen, Process!Serving, Process!Database, Process!Background,
                                        Process!Reaches
<1>1. \A q \in Processes \ {p} : Undisturbed(q)
  BY DEF Undisturbed, ProcessTyped
<1>2. ProcessTyped'
  BY DEF ProcessTyped, Process!Phases
<1>3. ProcessOK(p)'
  <2>1. \A j \in Jobs : running'[p][j] <= runs' + 1
    BY DEF ProcessTyped, ProcessOK
  <2>2. \A j \in SingleFlight : running'[p][j] <= 1 /\ (running'[p][j] = 1 => guard'[p])
    BY DEF ProcessTyped, ProcessOK
  <2>3. /\ (phase'[p] \notin {"store", "ended"} => pool'[p] \/ closing'[p] \in {"hub", "exit"}) /\ (phase'[p] = "ended" => ~pool'[p])
        /\ (hub'[p] => phase'[p] \in Opening)
        /\ (lock' = p => phase'[p] \in {"check", "apply"})
        /\ (phase'[p] # "closing" => closing'[p] = "none")
    BY DEF ProcessTyped, ProcessOK, Opening
  <2>4. /\ (closing'[p] \in {"pool", "hub", "exit"} => timers'[p] = {}) /\ (closing'[p] \in {"hub", "exit"} => ~pool'[p] /\ ~hub'[p])
        /\ (timers'[p] # {} => phase'[p] \in {"listen", "serving", "closing"})
    BY DEF ProcessTyped, ProcessOK
  <2>5. seen'[p] \subseteq Process!NamesOf(recorded')
    BY DEF ProcessTyped, ProcessOK
  <2>6. phase'[p] \in {"seed", "hub", "app", "jobs", "listen", "serving"}
           => Process!NamesOf(Process!Shipped(p))' \subseteq Process!NamesOf(recorded')
    BY DEF ProcessTyped, ProcessOK, Process!NamesOf, Process!Shipped
  <2>7. phase'[p] = "ended" => \A j \in Jobs : running'[p][j] = 0
    BY DEF ProcessTyped, ProcessOK
  <2>8. ListenerOK(p)'
    BY DEF ProcessTyped, ProcessOK, ListenerOK, Opening
  <2> QED BY <2>1, <2>2, <2>3, <2>4, <2>5, <2>6, <2>7, <2>8 DEF ProcessOK
<1>4. Process!DrainIsFinal
  BY DEF Process!DrainIsFinal, ProcessTyped
<1> QED BY <1>1, <1>2, <1>3, <1>4, QuietKeeps

LEMMA ListenFailsKeeps ==
  ASSUME ProcessInv, NEW p \in Processes, Process!ListenFails(p)
  PROVE  ProcessInv' /\ Process!DrainIsFinal
<1> USE ProcessTypes, ProcessBounds DEF Process!ListenFails, Process!Fault, Process!Serving, Process!Database,
                                        Process!Background, Process!Reaches
<1>1. \A q \in Processes \ {p} : Undisturbed(q)
  BY DEF Undisturbed, ProcessTyped
<1>2. ProcessTyped'
  BY DEF ProcessTyped, Process!Phases
<1>3. ProcessOK(p)'
  <2>1. \A j \in Jobs : running'[p][j] <= runs' + 1
    BY DEF ProcessTyped, ProcessOK
  <2>2. \A j \in SingleFlight : running'[p][j] <= 1 /\ (running'[p][j] = 1 => guard'[p])
    BY DEF ProcessTyped, ProcessOK
  <2>3. /\ (phase'[p] \notin {"store", "ended"} => pool'[p] \/ closing'[p] \in {"hub", "exit"}) /\ (phase'[p] = "ended" => ~pool'[p])
        /\ (hub'[p] => phase'[p] \in Opening)
        /\ (lock' = p => phase'[p] \in {"check", "apply"})
        /\ (phase'[p] # "closing" => closing'[p] = "none")
    <3>1. phase'[p] = "closing" /\ closing'[p] = "timers"
      BY DEF ProcessTyped
    <3>2. hub'[p] = hub[p] /\ pool'[p] = pool[p] /\ lock' = lock /\ phase[p] \in {"listen", "serving"}
      BY DEF ProcessTyped
    <3>3. pool[p] /\ (lock = p => phase[p] \in {"check", "apply"})
      BY DEF ProcessOK
    <3> QED BY <3>1, <3>2, <3>3 DEF Opening
  <2>4. /\ (closing'[p] \in {"pool", "hub", "exit"} => timers'[p] = {}) /\ (closing'[p] \in {"hub", "exit"} => ~pool'[p] /\ ~hub'[p])
        /\ (timers'[p] # {} => phase'[p] \in {"listen", "serving", "closing"})
    BY DEF ProcessTyped, ProcessOK
  <2>5. seen'[p] \subseteq Process!NamesOf(recorded')
    BY DEF ProcessTyped, ProcessOK
  <2>6. phase'[p] \in {"seed", "hub", "app", "jobs", "listen", "serving"}
           => Process!NamesOf(Process!Shipped(p))' \subseteq Process!NamesOf(recorded')
    BY DEF ProcessTyped, ProcessOK, Process!NamesOf, Process!Shipped
  <2>7. phase'[p] = "ended" => \A j \in Jobs : running'[p][j] = 0
    BY DEF ProcessTyped, ProcessOK
  <2>8. ListenerOK(p)'
    BY DEF ProcessTyped, ProcessOK, ListenerOK, Opening
  <2> QED BY <2>1, <2>2, <2>3, <2>4, <2>5, <2>6, <2>7, <2>8 DEF ProcessOK
<1>4. Process!DrainIsFinal
  BY DEF Process!DrainIsFinal, ProcessTyped
<1> QED BY <1>1, <1>2, <1>3, <1>4, QuietKeeps

LEMMA SignalKeeps ==
  ASSUME ProcessInv, NEW p \in Processes, Process!Signal(p)
  PROVE  ProcessInv' /\ Process!DrainIsFinal
<1> USE ProcessTypes, ProcessBounds DEF Process!Signal, Process!Serving, Process!Database, Process!Background,
                                        Process!Reaches
<1>1. \A q \in Processes \ {p} : Undisturbed(q)
  BY DEF Undisturbed, ProcessTyped
<1>2. ProcessTyped'
  BY DEF ProcessTyped, Process!Phases
<1>3. ProcessOK(p)'
  <2>1. \A j \in Jobs : running'[p][j] <= runs' + 1
    BY DEF ProcessTyped, ProcessOK
  <2>2. \A j \in SingleFlight : running'[p][j] <= 1 /\ (running'[p][j] = 1 => guard'[p])
    BY DEF ProcessTyped, ProcessOK
  <2>3. /\ (phase'[p] \notin {"store", "ended"} => pool'[p] \/ closing'[p] \in {"hub", "exit"}) /\ (phase'[p] = "ended" => ~pool'[p])
        /\ (hub'[p] => phase'[p] \in Opening)
        /\ (lock' = p => phase'[p] \in {"check", "apply"})
        /\ (phase'[p] # "closing" => closing'[p] = "none")
    <3>1. phase'[p] = "closing" /\ closing'[p] = "timers"
      BY DEF ProcessTyped
    <3>2. hub'[p] = hub[p] /\ pool'[p] = pool[p] /\ lock' = lock /\ phase[p] \in {"listen", "serving"}
      BY DEF ProcessTyped
    <3>3. pool[p] /\ (lock = p => phase[p] \in {"check", "apply"})
      BY DEF ProcessOK
    <3> QED BY <3>1, <3>2, <3>3 DEF Opening
  <2>4. /\ (closing'[p] \in {"pool", "hub", "exit"} => timers'[p] = {}) /\ (closing'[p] \in {"hub", "exit"} => ~pool'[p] /\ ~hub'[p])
        /\ (timers'[p] # {} => phase'[p] \in {"listen", "serving", "closing"})
    BY DEF ProcessTyped, ProcessOK
  <2>5. seen'[p] \subseteq Process!NamesOf(recorded')
    BY DEF ProcessTyped, ProcessOK
  <2>6. phase'[p] \in {"seed", "hub", "app", "jobs", "listen", "serving"}
           => Process!NamesOf(Process!Shipped(p))' \subseteq Process!NamesOf(recorded')
    BY DEF ProcessTyped, ProcessOK, Process!NamesOf, Process!Shipped
  <2>7. phase'[p] = "ended" => \A j \in Jobs : running'[p][j] = 0
    BY DEF ProcessTyped, ProcessOK
  <2>8. ListenerOK(p)'
    BY DEF ProcessTyped, ProcessOK, ListenerOK, Opening
  <2> QED BY <2>1, <2>2, <2>3, <2>4, <2>5, <2>6, <2>7, <2>8 DEF ProcessOK
<1>4. Process!DrainIsFinal
  BY DEF Process!DrainIsFinal, ProcessTyped
<1> QED BY <1>1, <1>2, <1>3, <1>4, QuietKeeps

LEMMA ExitsKeep ==
  ASSUME ProcessInv, NEW p \in Processes, Process!Deadline(p)
  PROVE  ProcessInv' /\ Process!DrainIsFinal
<1> USE ProcessTypes, ProcessBounds DEF Process!Deadline, Process!Exits, Process!Serving, Process!Database,
                                        Process!Background, Process!Reaches
<1>1. \A q \in Processes \ {p} : Undisturbed(q)
  BY DEF Undisturbed, ProcessTyped
<1>2. ProcessTyped'
  BY DEF ProcessTyped, Process!Phases
<1>3. ProcessOK(p)'
  <2>1. \A j \in Jobs : running'[p][j] <= runs' + 1
    BY DEF ProcessTyped, ProcessOK
  <2>2. \A j \in SingleFlight : running'[p][j] <= 1 /\ (running'[p][j] = 1 => guard'[p])
    BY DEF ProcessTyped, ProcessOK
  <2>3. /\ (phase'[p] \notin {"store", "ended"} => pool'[p] \/ closing'[p] \in {"hub", "exit"}) /\ (phase'[p] = "ended" => ~pool'[p])
        /\ (hub'[p] => phase'[p] \in Opening)
        /\ (lock' = p => phase'[p] \in {"check", "apply"})
        /\ (phase'[p] # "closing" => closing'[p] = "none")
    BY DEF ProcessTyped, ProcessOK, Opening
  <2>4. /\ (closing'[p] \in {"pool", "hub", "exit"} => timers'[p] = {}) /\ (closing'[p] \in {"hub", "exit"} => ~pool'[p] /\ ~hub'[p])
        /\ (timers'[p] # {} => phase'[p] \in {"listen", "serving", "closing"})
    BY DEF ProcessTyped, ProcessOK
  <2>5. seen'[p] \subseteq Process!NamesOf(recorded')
    BY DEF ProcessTyped, ProcessOK
  <2>6. phase'[p] \in {"seed", "hub", "app", "jobs", "listen", "serving"}
           => Process!NamesOf(Process!Shipped(p))' \subseteq Process!NamesOf(recorded')
    BY DEF ProcessTyped, ProcessOK, Process!NamesOf, Process!Shipped
  <2>7. phase'[p] = "ended" => \A j \in Jobs : running'[p][j] = 0
    BY DEF ProcessTyped, ProcessOK
  <2>8. ListenerOK(p)'
    BY DEF ProcessTyped, ProcessOK, ListenerOK, Opening
  <2> QED BY <2>1, <2>2, <2>3, <2>4, <2>5, <2>6, <2>7, <2>8 DEF ProcessOK
<1>4. Process!DrainIsFinal
  BY DEF Process!DrainIsFinal, ProcessTyped
<1> QED BY <1>1, <1>2, <1>3, <1>4, QuietKeeps

LEMMA KilledKeeps ==
  ASSUME ProcessInv, NEW p \in Processes, Process!Killed(p)
  PROVE  ProcessInv' /\ Process!DrainIsFinal
<1> USE ProcessTypes, ProcessBounds DEF Process!Killed, Process!Fault, Process!Up, Process!Exits,
                                        Process!Serving, Process!Database, Process!Background, Process!Reaches
<1>1. \A q \in Processes \ {p} : Undisturbed(q)
  BY DEF Undisturbed, ProcessTyped
<1>2. ProcessTyped'
  BY DEF ProcessTyped, Process!Phases
<1>3. ProcessOK(p)'
  <2>1. \A j \in Jobs : running'[p][j] <= runs' + 1
    BY DEF ProcessTyped, ProcessOK
  <2>2. \A j \in SingleFlight : running'[p][j] <= 1 /\ (running'[p][j] = 1 => guard'[p])
    BY DEF ProcessTyped, ProcessOK
  <2>3. /\ (phase'[p] \notin {"store", "ended"} => pool'[p] \/ closing'[p] \in {"hub", "exit"}) /\ (phase'[p] = "ended" => ~pool'[p])
        /\ (hub'[p] => phase'[p] \in Opening)
        /\ (lock' = p => phase'[p] \in {"check", "apply"})
        /\ (phase'[p] # "closing" => closing'[p] = "none")
    BY DEF ProcessTyped, ProcessOK, Opening
  <2>4. /\ (closing'[p] \in {"pool", "hub", "exit"} => timers'[p] = {}) /\ (closing'[p] \in {"hub", "exit"} => ~pool'[p] /\ ~hub'[p])
        /\ (timers'[p] # {} => phase'[p] \in {"listen", "serving", "closing"})
    BY DEF ProcessTyped, ProcessOK
  <2>5. seen'[p] \subseteq Process!NamesOf(recorded')
    BY DEF ProcessTyped, ProcessOK
  <2>6. phase'[p] \in {"seed", "hub", "app", "jobs", "listen", "serving"}
           => Process!NamesOf(Process!Shipped(p))' \subseteq Process!NamesOf(recorded')
    BY DEF ProcessTyped, ProcessOK, Process!NamesOf, Process!Shipped
  <2>7. phase'[p] = "ended" => \A j \in Jobs : running'[p][j] = 0
    BY DEF ProcessTyped, ProcessOK
  <2>8. ListenerOK(p)'
    BY DEF ProcessTyped, ProcessOK, ListenerOK, Opening
  <2> QED BY <2>1, <2>2, <2>3, <2>4, <2>5, <2>6, <2>7, <2>8 DEF ProcessOK
<1>4. Process!DrainIsFinal
  BY DEF Process!DrainIsFinal, ProcessTyped
<1> QED BY <1>1, <1>2, <1>3, <1>4, QuietKeeps

LEMMA RestartKeeps ==
  ASSUME ProcessInv, NEW p \in Processes, Process!Restart(p)
  PROVE  ProcessInv' /\ Process!DrainIsFinal
<1> USE ProcessTypes, ProcessBounds DEF Process!Restart, Process!Fault, Process!Serving, Process!Database,
                                        Process!Background, Process!Reaches
<1>1. \A q \in Processes \ {p} : Undisturbed(q)
  BY DEF Undisturbed, ProcessTyped
<1>2. ProcessTyped'
  BY DEF ProcessTyped, Process!Phases
<1>3. ProcessOK(p)'
  <2>1. \A j \in Jobs : running'[p][j] <= runs' + 1
    BY DEF ProcessTyped, ProcessOK
  <2>2. \A j \in SingleFlight : running'[p][j] <= 1 /\ (running'[p][j] = 1 => guard'[p])
    BY DEF ProcessTyped, ProcessOK
  <2>3. /\ (phase'[p] \notin {"store", "ended"} => pool'[p] \/ closing'[p] \in {"hub", "exit"}) /\ (phase'[p] = "ended" => ~pool'[p])
        /\ (hub'[p] => phase'[p] \in Opening)
        /\ (lock' = p => phase'[p] \in {"check", "apply"})
        /\ (phase'[p] # "closing" => closing'[p] = "none")
    <3>1. /\ phase[p] = "ended" /\ phase'[p] = "store" /\ pool'[p] = pool[p] /\ hub'[p] = hub[p] /\ lock' = lock
          /\ closing'[p] = closing[p]
      BY DEF ProcessTyped
    <3> HIDE DEF Process!Restart
    <3> QED BY <3>1 DEF ProcessOK, Opening
  <2>4. /\ (closing'[p] \in {"pool", "hub", "exit"} => timers'[p] = {}) /\ (closing'[p] \in {"hub", "exit"} => ~pool'[p] /\ ~hub'[p])
        /\ (timers'[p] # {} => phase'[p] \in {"listen", "serving", "closing"})
    BY DEF ProcessTyped, ProcessOK
  <2>5. seen'[p] \subseteq Process!NamesOf(recorded')
    BY DEF ProcessTyped, ProcessOK
  <2>6. phase'[p] \in {"seed", "hub", "app", "jobs", "listen", "serving"}
           => Process!NamesOf(Process!Shipped(p))' \subseteq Process!NamesOf(recorded')
    BY DEF ProcessTyped, ProcessOK, Process!NamesOf, Process!Shipped
  <2>7. phase'[p] = "ended" => \A j \in Jobs : running'[p][j] = 0
    BY DEF ProcessTyped, ProcessOK
  <2>8. ListenerOK(p)'
    BY DEF ProcessTyped, ProcessOK, ListenerOK, Opening
  <2> QED BY <2>1, <2>2, <2>3, <2>4, <2>5, <2>6, <2>7, <2>8 DEF ProcessOK
<1>4. Process!DrainIsFinal
  BY DEF Process!DrainIsFinal, ProcessTyped
<1> QED BY <1>1, <1>2, <1>3, <1>4, QuietKeeps

LEMMA CloseStepKeeps ==
  ASSUME ProcessInv, NEW p \in Processes, Process!CloseStep(p)
  PROVE  ProcessInv' /\ Process!DrainIsFinal
<1> USE ProcessTypes, ProcessBounds DEF Process!Database, Process!Reaches
<1>1. /\ phase[p] = "closing" /\ UNCHANGED hub /\ UNCHANGED ready /\ UNCHANGED running /\ UNCHANGED guard /\ UNCHANGED runs
      /\ UNCHANGED faults /\ UNCHANGED lock /\ UNCHANGED recorded /\ UNCHANGED seen /\ UNCHANGED executed
  BY DEF Process!CloseStep
<1>2. CASE /\ closing[p] = "timers" /\ timers' = [timers EXCEPT ![p] = {}] /\ closing' = [closing EXCEPT ![p] = "pool"]
           /\ UNCHANGED pool /\ UNCHANGED phase /\ UNCHANGED code /\ UNCHANGED armed
  <2>1. \A q \in Processes \ {p} : Undisturbed(q)
    BY <1>1, <1>2 DEF Undisturbed, ProcessTyped
  <2>2. ProcessTyped'
    BY <1>1, <1>2 DEF ProcessTyped
  <2>3. closing'[p] = "pool" /\ timers'[p] = {}
    BY <1>2 DEF ProcessTyped
  <2>4. ProcessOK(p)'
    BY <1>1, <1>2, <2>3 DEF ProcessOK, ListenerOK, Opening
  <2> QED BY <1>1, <2>1, <2>2, <2>4, QuietKeeps DEF Process!DrainIsFinal
<1>3. CASE /\ closing[p] = "pool" /\ ~hub[p] /\ pool' = [pool EXCEPT ![p] = FALSE]
           /\ closing' = [closing EXCEPT ![p] = "hub"]
           /\ UNCHANGED timers /\ UNCHANGED phase /\ UNCHANGED code /\ UNCHANGED armed
  <2>1. \A q \in Processes \ {p} : Undisturbed(q)
    BY <1>1, <1>3 DEF Undisturbed, ProcessTyped
  <2>2. ProcessTyped'
    BY <1>1, <1>3 DEF ProcessTyped
  <2>3. closing'[p] = "hub" /\ ~pool'[p]
    BY <1>3 DEF ProcessTyped
  <2>4. ProcessOK(p)'
    BY <1>1, <1>3, <2>3 DEF ProcessOK, ListenerOK, Opening
  <2> QED BY <1>1, <2>1, <2>2, <2>4, QuietKeeps DEF Process!DrainIsFinal
<1>4. CASE /\ closing[p] = "hub" /\ closing' = [closing EXCEPT ![p] = "exit"]
           /\ code' = [code EXCEPT ![p] = IF armed[p] THEN "clean" ELSE "failed"] /\ armed' = [armed EXCEPT ![p] = FALSE]
           /\ UNCHANGED pool /\ UNCHANGED timers /\ UNCHANGED phase
  <2>1. \A q \in Processes \ {p} : Undisturbed(q)
    BY <1>1, <1>4 DEF Undisturbed, ProcessTyped
  <2>2. ProcessTyped'
    BY <1>1, <1>4 DEF ProcessTyped
  <2>3. closing'[p] = "exit"
    BY <1>4 DEF ProcessTyped
  <2>4. ProcessOK(p)'
    BY <1>1, <1>4, <2>3 DEF ProcessOK, ListenerOK, Opening
  <2> QED BY <1>1, <2>1, <2>2, <2>4, QuietKeeps DEF Process!DrainIsFinal
<1>5. CASE /\ closing[p] = "exit" /\ (\A j \in Jobs : running[p][j] = 0) /\ closing' = [closing EXCEPT ![p] = "none"]
           /\ phase' = [phase EXCEPT ![p] = "ended"]
           /\ UNCHANGED pool /\ UNCHANGED timers /\ UNCHANGED code /\ UNCHANGED armed
  <2>1. \A q \in Processes \ {p} : Undisturbed(q)
    BY <1>1, <1>5 DEF Undisturbed, ProcessTyped
  <2>2. ProcessTyped'
    BY <1>1, <1>5 DEF ProcessTyped, Process!Phases
  <2>3. phase'[p] = "ended" /\ closing'[p] = "none"
    BY <1>5 DEF ProcessTyped
  <2>4. ProcessOK(p)'
    BY <1>1, <1>5, <2>3 DEF ProcessOK, ListenerOK, Opening
  <2> QED BY <1>1, <2>1, <2>2, <2>4, QuietKeeps DEF Process!DrainIsFinal
<1> QED BY <1>2, <1>3, <1>4, <1>5 DEF Process!CloseStep

(* The hub loses its client, or takes another one of a pool that does not end. *)
LEMMA ClientLostKeeps ==
  ASSUME ProcessInv, NEW p \in Processes, Process!ClientLost(p)
  PROVE  ProcessInv' /\ Process!DrainIsFinal
<1> USE ProcessTypes, ProcessBounds
<1>1. /\ UNCHANGED phase /\ UNCHANGED pool /\ UNCHANGED closing /\ UNCHANGED armed /\ UNCHANGED code /\ UNCHANGED ready
      /\ UNCHANGED lock /\ UNCHANGED recorded /\ UNCHANGED seen /\ UNCHANGED executed /\ UNCHANGED timers
      /\ UNCHANGED running /\ UNCHANGED guard /\ UNCHANGED runs
  BY DEF Process!ClientLost, Process!Serving, Process!Database, Process!Background
<1>2. hub' = [hub EXCEPT ![p] = FALSE] /\ faults' = faults + 1 /\ faults < MaxFaults
  BY DEF Process!ClientLost, Process!Fault
<1>3. faults' # 0 /\ faults' \in 0..MaxFaults /\ ~hub'[p]
  BY <1>2 DEF ProcessTyped
<1>4. \A q \in Processes \ {p} : Undisturbed(q)
  BY <1>1, <1>2, <1>3 DEF Undisturbed, ProcessTyped
<1>5. ProcessTyped'
  BY <1>1, <1>2, <1>3 DEF ProcessTyped
<1>6. ProcessOK(p)'
  <2>1. ListenerOK(p)'
    BY <1>3 DEF ListenerOK
  <2>2. ProcessOK(p)
    OBVIOUS
  <2> HIDE ProcessTypes, ProcessBounds
  <2> QED BY <1>1, <1>3, <2>1, <2>2 DEF ProcessOK, Process!NamesOf, Process!Shipped
<1> QED BY <1>1, <1>4, <1>5, <1>6, QuietKeeps DEF Process!DrainIsFinal

LEMMA RelistensKeeps ==
  ASSUME ProcessInv, NEW p \in Processes, Process!Relistens(p)
  PROVE  ProcessInv' /\ Process!DrainIsFinal
<1> USE ProcessTypes, ProcessBounds
<1>1. /\ UNCHANGED phase /\ UNCHANGED pool /\ UNCHANGED closing /\ UNCHANGED armed /\ UNCHANGED code /\ UNCHANGED ready
      /\ UNCHANGED lock /\ UNCHANGED recorded /\ UNCHANGED seen /\ UNCHANGED executed /\ UNCHANGED timers
      /\ UNCHANGED running /\ UNCHANGED guard /\ UNCHANGED runs
  BY DEF Process!Relistens, Process!Serving, Process!Database, Process!Background
<1>2. /\ hub' = [hub EXCEPT ![p] = TRUE] /\ UNCHANGED faults /\ phase[p] \in Opening /\ closing[p] \in {"none", "timers"}
  BY DEF Process!Relistens, Opening
<1>3. hub'[p]
  BY <1>2 DEF ProcessTyped
<1>4. \A q \in Processes \ {p} : Undisturbed(q)
  BY <1>1, <1>2 DEF Undisturbed, ProcessTyped
<1>5. ProcessTyped'
  BY <1>1, <1>2 DEF ProcessTyped
<1>6. ProcessOK(p)'
  BY <1>1, <1>2, <1>3 DEF ProcessOK, ListenerOK, Process!NamesOf, Process!Shipped
<1> QED BY <1>1, <1>4, <1>5, <1>6, QuietKeeps DEF Process!DrainIsFinal

LEMMA CheckFilesKeeps ==
  ASSUME ProcessInv, NEW p \in Processes, Process!CheckFiles(p)
  PROVE  ProcessInv' /\ Process!DrainIsFinal
<1> USE ProcessTypes, ProcessBounds
<1>1. CASE Process!StartFails(p)
  BY <1>1, StartFailsKeeps
<1>2. CASE /\ phase[p] = "check" /\ phase' = [phase EXCEPT ![p] = "apply"]
           /\ seen' = [seen EXCEPT ![p] = Process!NamesOf(recorded)]
           /\ UNCHANGED pool /\ UNCHANGED hub /\ UNCHANGED lock /\ UNCHANGED recorded /\ UNCHANGED executed
           /\ UNCHANGED faults /\ UNCHANGED closing /\ UNCHANGED armed /\ UNCHANGED code /\ UNCHANGED ready
           /\ UNCHANGED timers /\ UNCHANGED running /\ UNCHANGED guard /\ UNCHANGED runs
  <2>1. \A q \in Processes \ {p} : Undisturbed(q)
    BY <1>2 DEF Undisturbed, ProcessTyped
  <2>2. ProcessTyped'
    <3>1. seen' \in [Processes -> SUBSET Process!AllNames]
      BY <1>2 DEF ProcessTyped, RecordOK
    <3> QED BY <1>2, <3>1 DEF ProcessTyped, Process!Phases
  <2>3. ProcessOK(p)'
    <3>1. phase'[p] = "apply" /\ seen'[p] = Process!NamesOf(recorded')
      BY <1>2 DEF ProcessTyped
    <3> QED BY <1>2, <3>1 DEF ProcessOK, ListenerOK, Opening
  <2> QED BY <1>2, <2>1, <2>2, <2>3, QuietKeeps DEF Process!DrainIsFinal
<1> QED BY <1>1, <1>2 DEF Process!CheckFiles, Process!Reaches, Process!Serving, Process!Background

LEMMA ApplyMigrationKeeps ==
  ASSUME ProcessInv, NEW p \in Processes, Process!ApplyMigration(p)
  PROVE  ProcessInv' /\ Process!DrainIsFinal
<1> USE ProcessTypes, ProcessBounds
<1> PICK i \in Process!Pending(p) : /\ Files[p][i].name \notin Process!NamesOf(recorded)
                                    /\ seen' = [seen EXCEPT ![p] = @ \cup {Files[p][i].name}]
                                    /\ recorded' = recorded \cup {Files[p][i]}
                                    /\ executed' = [executed EXCEPT ![Files[p][i].name] = IF @ < 2 THEN @ + 1 ELSE @]
  BY DEF Process!ApplyMigration
<1> PICK m : m = Files[p][i]
  OBVIOUS
<1> PICK n : n = m.name
  OBVIOUS
<1>1. /\ phase[p] = "apply" /\ UNCHANGED phase /\ UNCHANGED lock /\ UNCHANGED pool /\ UNCHANGED hub /\ UNCHANGED faults
      /\ UNCHANGED closing /\ UNCHANGED armed /\ UNCHANGED code /\ UNCHANGED ready /\ UNCHANGED timers
      /\ UNCHANGED running /\ UNCHANGED guard /\ UNCHANGED runs
  BY DEF Process!ApplyMigration, Process!Serving, Process!Background
<1>2. n \in Process!AllNames
  BY DEF Process!AllNames, Process!Pending
<1>3. Process!NamesOf(recorded') = Process!NamesOf(recorded) \cup {n}
  BY DEF Process!NamesOf
<1>4. executed[n] = 0
  BY <1>2 DEF RecordOK, ProcessTyped
<1>5. executed' = [executed EXCEPT ![n] = 1]
  BY <1>2, <1>4 DEF ProcessTyped
<1>6. RecordOK'
  <2>1. Process!NamesOf(recorded') \subseteq Process!AllNames
    BY <1>2, <1>3 DEF RecordOK
  <2>2. \A x \in Process!AllNames : executed'[x] <= 1 /\ (executed'[x] = 1 <=> x \in Process!NamesOf(recorded'))
    <3>1. executed'[n] = 1 /\ \A x \in Process!AllNames \ {n} : executed'[x] = executed[x]
      BY <1>2, <1>5 DEF ProcessTyped
    <3>2. \A x \in Process!AllNames : executed[x] <= 1 /\ (executed[x] = 1 <=> x \in Process!NamesOf(recorded))
      BY DEF RecordOK
    <3> SUFFICES ASSUME NEW x \in Process!AllNames
                 PROVE  executed'[x] <= 1 /\ (executed'[x] = 1 <=> x \in Process!NamesOf(recorded'))
      OBVIOUS
    <3>3. x \in Process!NamesOf(recorded') <=> x \in Process!NamesOf(recorded) \/ x = n
      BY <1>3
    <3>4. CASE x = n
      BY <3>1, <3>3, <3>4
    <3>5. CASE x # n
      BY <3>1, <3>2, <3>3, <3>5
    <3> QED BY <3>4, <3>5
  <2>3. \A a \in recorded : a.name # n
    BY DEF Process!NamesOf
  <2>4. \A a, b \in recorded' : a.name = b.name => a = b
    BY <2>3 DEF RecordOK
  <2> QED BY <2>1, <2>2, <2>4 DEF RecordOK
<1>7. ProcessTyped'
  <2>1. seen' \in [Processes -> SUBSET Process!AllNames] /\ executed' \in [Process!AllNames -> 0..2]
    BY <1>2, <1>5 DEF ProcessTyped
  <2> QED BY <1>1, <2>1 DEF ProcessTyped
<1>8. \A q \in Processes \ {p} : Undisturbed(q)
  BY <1>1 DEF Undisturbed, ProcessTyped
<1>9. ProcessOK(p)'
  <2>1. seen'[p] \subseteq Process!NamesOf(recorded')
    <3>1. seen[p] \subseteq Process!NamesOf(recorded)
      BY DEF ProcessOK
    <3>2. seen'[p] = seen[p] \cup {n}
      BY DEF ProcessTyped
    <3> QED BY <1>3, <3>1, <3>2
  <2> QED BY <1>1, <2>1 DEF ProcessOK, ListenerOK
<1>10. Process!NamesOf(recorded) \subseteq Process!NamesOf(recorded')
  BY <1>3
<1> QED BY <1>1, <1>6, <1>7, <1>8, <1>9, <1>10, ProcessKept DEF Process!DrainIsFinal

LEMMA JobFiresKeeps ==
  ASSUME ProcessInv, NEW p \in Processes, NEW j \in Jobs, Process!JobFires(p, j)
  PROVE  ProcessInv' /\ Process!DrainIsFinal
<1> USE ProcessTypes, ProcessBounds
<1>1. /\ runs < MaxRuns - 1 /\ runs' = runs + 1 /\ j \in timers[p] /\ UNCHANGED phase /\ UNCHANGED pool
      /\ UNCHANGED hub /\ UNCHANGED timers /\ UNCHANGED faults /\ UNCHANGED closing /\ UNCHANGED armed
      /\ UNCHANGED code /\ UNCHANGED ready /\ UNCHANGED lock /\ UNCHANGED recorded /\ UNCHANGED seen
      /\ UNCHANGED executed
  BY DEF Process!JobFires, Process!Serving, Process!Database
<1>2. \/ UNCHANGED running /\ UNCHANGED guard
      \/ /\ j \in SingleFlight => ~guard[p]
         /\ running' = [running EXCEPT ![p][j] = @ + 1] /\ guard' = [guard EXCEPT ![p] = @ \/ j \in SingleFlight]
  BY DEF Process!JobFires
<1>3. runs \in Nat /\ runs' \in 0..MaxRuns - 1 /\ runs' \in Nat
  BY <1>1 DEF ProcessTyped
<1>4. /\ running' \in [Processes -> [Jobs -> Nat]] /\ guard' \in [Processes -> BOOLEAN]
      /\ \A q \in Processes \ {p} : running'[q] = running[q] /\ guard'[q] = guard[q]
      /\ \A i \in Jobs : running'[p][i] <= running[p][i] + 1
  <2>1. running \in [Processes -> [Jobs -> Nat]] /\ guard \in [Processes -> BOOLEAN]
    BY DEF ProcessTyped
  <2>2. CASE UNCHANGED running /\ UNCHANGED guard
    BY <2>1, <2>2
  <2>3. CASE running' = [running EXCEPT ![p][j] = @ + 1] /\ guard' = [guard EXCEPT ![p] = @ \/ j \in SingleFlight]
    BY <2>1, <2>3
  <2> QED BY <1>2, <2>2, <2>3
<1>5. \A i \in SingleFlight : running'[p][i] <= 1 /\ (running'[p][i] = 1 => guard'[p])
  <2>1. CASE UNCHANGED running /\ UNCHANGED guard
    BY <2>1 DEF ProcessOK
  <2>2. CASE /\ j \in SingleFlight => ~guard[p]
             /\ running' = [running EXCEPT ![p][j] = @ + 1] /\ guard' = [guard EXCEPT ![p] = @ \/ j \in SingleFlight]
    <3> SUFFICES ASSUME NEW i \in SingleFlight
                 PROVE  running'[p][i] <= 1 /\ (running'[p][i] = 1 => guard'[p])
      OBVIOUS
    <3>1. running[p][i] \in Nat /\ running[p][i] <= 1 /\ (running[p][i] = 1 => guard[p])
      BY DEF ProcessOK, ProcessTyped
    <3>2. CASE i = j
      <4>1. running[p][i] = 0
        BY <2>2, <3>1, <3>2
      <4>2. running'[p][i] = 1
        BY <2>2, <3>2, <4>1 DEF ProcessTyped
      <4>3. guard'[p]
        BY <2>2, <3>2 DEF ProcessTyped
      <4> QED BY <4>2, <4>3
    <3>3. CASE i # j
      <4>1. j \notin SingleFlight
        BY <3>3
      <4>2. running'[p][i] = running[p][i] /\ (guard[p] => guard'[p])
        BY <2>2, <3>3, <4>1 DEF ProcessTyped
      <4> QED BY <3>1, <4>2
    <3> QED BY <3>2, <3>3
  <2> QED BY <1>2, <2>1, <2>2
<1>6. \A i \in Jobs : running'[p][i] <= runs' + 1
  <2> SUFFICES ASSUME NEW i \in Jobs PROVE running'[p][i] <= runs' + 1
    OBVIOUS
  <2>1. running'[p][i] \in Nat /\ running[p][i] \in Nat /\ running[p][i] <= runs + 1
        /\ running'[p][i] <= running[p][i] + 1
    BY <1>4 DEF ProcessOK, ProcessTyped
  <2> QED BY <1>1, <1>3, <2>1
<1>7. \A q \in Processes \ {p} : Undisturbed(q)
  BY <1>1, <1>4 DEF Undisturbed
<1>8. ProcessTyped'
  BY <1>1, <1>3, <1>4 DEF ProcessTyped
<1>9. phase[p] # "ended"
  BY <1>1 DEF ProcessOK
<1>10. ProcessOK(p)'
  BY <1>1, <1>5, <1>6, <1>9 DEF ProcessOK, ListenerOK, Process!NamesOf, Process!Shipped
<1>11. RecordOK' /\ Process!NamesOf(recorded) = Process!NamesOf(recorded')
  BY <1>1 DEF RecordOK
<1> QED BY <1>1, <1>3, <1>7, <1>8, <1>10, <1>11, ProcessKept DEF Process!DrainIsFinal

LEMMA JobSettlesKeeps ==
  ASSUME ProcessInv, NEW p \in Processes, NEW j \in Jobs, Process!JobSettles(p, j)
  PROVE  ProcessInv' /\ Process!DrainIsFinal
<1> USE ProcessTypes, ProcessBounds
<1>1. /\ UNCHANGED runs /\ UNCHANGED phase /\ UNCHANGED pool /\ phase[p] # "ended"
      /\ UNCHANGED hub /\ UNCHANGED timers /\ UNCHANGED faults /\ UNCHANGED closing /\ UNCHANGED armed
      /\ UNCHANGED code /\ UNCHANGED ready /\ UNCHANGED lock /\ UNCHANGED recorded /\ UNCHANGED seen
      /\ UNCHANGED executed
  BY DEF Process!JobSettles, Process!Serving, Process!Database, Process!Up
<1>2. /\ running[p][j] > 0 /\ running' = [running EXCEPT ![p][j] = @ - 1]
      /\ guard' = [guard EXCEPT ![p] = @ /\ j \notin SingleFlight]
  BY DEF Process!JobSettles
<1>3. /\ running' \in [Processes -> [Jobs -> Nat]] /\ guard' \in [Processes -> BOOLEAN]
      /\ \A q \in Processes \ {p} : running'[q] = running[q] /\ guard'[q] = guard[q]
      /\ running'[p][j] = running[p][j] - 1 /\ \A i \in Jobs \ {j} : running'[p][i] = running[p][i]
      /\ guard'[p] = (guard[p] /\ j \notin SingleFlight)
  BY <1>2 DEF ProcessTyped
<1>4. \A i \in SingleFlight : running'[p][i] <= 1 /\ (running'[p][i] = 1 => guard'[p])
  <2> SUFFICES ASSUME NEW i \in SingleFlight PROVE running'[p][i] <= 1 /\ (running'[p][i] = 1 => guard'[p])
    OBVIOUS
  <2>1. running[p][i] \in Nat /\ running[p][i] <= 1 /\ (running[p][i] = 1 => guard[p])
    BY DEF ProcessOK, ProcessTyped
  <2>2. CASE i = j
    BY <1>2, <1>3, <2>1, <2>2
  <2>3. CASE i # j
    <3>1. j \notin SingleFlight
      BY <2>3
    <3> QED BY <1>3, <2>1, <2>3, <3>1
  <2> QED BY <2>2, <2>3
<1>5. \A i \in Jobs : running'[p][i] <= runs' + 1
  <2> SUFFICES ASSUME NEW i \in Jobs PROVE running'[p][i] <= runs' + 1
    OBVIOUS
  <2>1. running[p][i] \in Nat /\ running[p][i] <= runs + 1 /\ running'[p][i] \in Nat
        /\ (running'[p][i] = running[p][i] \/ running'[p][i] = running[p][i] - 1)
    BY <1>3 DEF ProcessOK, ProcessTyped
  <2> QED BY <1>1, <2>1
<1>6. \A q \in Processes \ {p} : Undisturbed(q)
  BY <1>1, <1>3 DEF Undisturbed
<1>7. ProcessTyped'
  BY <1>1, <1>3 DEF ProcessTyped
<1>8. ProcessOK(p)'
  BY <1>1, <1>4, <1>5 DEF ProcessOK, ListenerOK, Process!NamesOf, Process!Shipped
<1> QED BY <1>1, <1>6, <1>7, <1>8, QuietKeeps DEF Process!DrainIsFinal

LEMMA ProcessStep ==
  ASSUME ProcessInv, [Process!Next]_ProcessVars
  PROVE  ProcessInv' /\ Process!DrainIsFinal
<1>1. CASE Process!Next
  <2>1. PICK p \in Processes :
          \/ Process!Steps(p) \/ Process!Settles(p) \/ Process!StartFails(p) \/ Process!ListenFails(p) \/ Process!Signal(p)
          \/ Process!ClientLost(p) \/ Process!Relistens(p) \/ Process!Killed(p) \/ Process!Restart(p)
          \/ \E j \in Jobs : Process!JobFires(p, j)
    BY <1>1 DEF Process!Next
  <2>2. CASE Process!Steps(p)
    BY <2>2, PrepareKeeps, AcquireLockKeeps, CheckFilesKeeps, ApplyMigrationKeeps, MigratedKeeps, SeedOwnerKeeps,
       StartHubKeeps, BuildAppKeeps, StartJobsKeeps, ListenKeeps, CloseStepKeeps, ExitsKeep DEF Process!Steps
  <2> QED BY <2>1, <2>2, JobSettlesKeeps, StartFailsKeeps, ListenFailsKeeps, SignalKeeps, KilledKeeps,
             ClientLostKeeps, RelistensKeeps, RestartKeeps, JobFiresKeeps DEF Process!Settles
<1>2. CASE UNCHANGED ProcessVars
  <2>1. /\ UNCHANGED phase /\ UNCHANGED pool /\ UNCHANGED hub /\ UNCHANGED ready /\ UNCHANGED timers
        /\ UNCHANGED running /\ UNCHANGED guard /\ UNCHANGED closing /\ UNCHANGED armed /\ UNCHANGED code
        /\ UNCHANGED lock /\ UNCHANGED recorded /\ UNCHANGED seen /\ UNCHANGED executed /\ UNCHANGED runs
        /\ UNCHANGED faults
    BY <1>2 DEF ProcessVars
  <2>2. Process!TypeOK' /\ RecordOK' /\ Process!DrainIsFinal /\ runs' <= MaxRuns - 1
    BY <2>1 DEF ProcessInv, Process!TypeOK, RecordOK, Process!DrainIsFinal
  <2>3. \A p \in Processes : ProcessOK(p)'
    BY <2>1 DEF ProcessInv, ProcessOK, ListenerOK, Process!NamesOf, Process!Shipped
  <2> QED BY <2>2, <2>3 DEF ProcessInv
<1> QED BY <1>1, <1>2

LEMMA ProcessSafe ==
  ASSUME ProcessInv
  PROVE  Process!TypeOK /\ Process!MigratedOnce /\ Process!EndsClosed /\ Process!ClosesOnlyAfterLoss
<1>1. \A p \in Processes : ProcessOK(p)
  BY ProcessTypes
<1>2. Process!MigratedOnce
  BY <1>1 DEF ProcessInv, RecordOK, ProcessOK, Process!MigratedOnce
<1>3. Process!EndsClosed
  BY <1>1 DEF ProcessOK, Process!EndsClosed, Opening
<1>4. Process!ClosesOnlyAfterLoss
  BY <1>1 DEF ProcessOK, ListenerOK, Process!ClosesOnlyAfterLoss, Opening
<1> QED BY <1>2, <1>3, <1>4 DEF ProcessInv

-----------------------------------------------------------------------------
(* The parts side by side: the part a behaviour runs keeps its invariant,  *)
(* and nothing else moves.                                                 *)
ServerParts == {"devices", "authkit", "admission", "enrollment", "webhooks", "process"}
ServerInv ==
  /\ part \in ServerParts
  /\ part = "devices" => DevicesInv
  /\ part = "authkit" => AuthKitInv
  /\ part = "admission" => AdmissionInv
  /\ part = "enrollment" => EnrollmentInv
  /\ part = "webhooks" => HookInv
  /\ part = "process" => ProcessInv

LEMMA ServerInit == Init => ServerInv
BY DevicesInit, AuthKitInit, AdmissionInit, EnrollmentInit, HookInit, ProcessInit DEF Init, ServerInv, ServerParts

(* The chosen part takes a step of its own, or rests.                      *)
LEMMA ServerMoves ==
  ASSUME part \in ServerParts, [Next]_vars
  PROVE  /\ part' = part
         /\ part = "devices" => [Devices!Next]_DevicesVars
         /\ part = "authkit" => [AuthKit!Next]_AuthKitVars
         /\ part = "admission" => [Admitting!Next]_AdmittingVars
         /\ part = "enrollment" => [Enrolling!Next]_EnrollingVars
         /\ part = "webhooks" => [Hooks!Next]_HooksVars
         /\ part = "process" => [Process!Next]_ProcessVars
<1>1. CASE UNCHANGED vars
  BY <1>1 DEF vars
<1>2. CASE Next
  BY <1>2 DEF Next, OthersRest
<1> QED BY <1>1, <1>2

LEMMA ServerStep ==
  ASSUME ServerInv, [Next]_vars
  PROVE  ServerInv'
<1>1. part' = part /\ part \in ServerParts
  BY ServerMoves DEF ServerInv
<1>2. part = "devices" => DevicesInv'
  BY ServerMoves, DevicesStep DEF ServerInv
<1>3. part = "authkit" => AuthKitInv'
  BY ServerMoves, AuthKitStep DEF ServerInv
<1>4. part = "admission" => AdmissionInv'
  BY ServerMoves, AdmissionStep DEF ServerInv
<1>5. part = "enrollment" => EnrollmentInv'
  BY ServerMoves, EnrollmentStep DEF ServerInv
<1>6. part = "webhooks" => HookInv'
  BY ServerMoves, HookStep DEF ServerInv
<1>7. part = "process" => ProcessInv'
  BY ServerMoves, ProcessStep DEF ServerInv
<1> QED BY <1>1, <1>2, <1>3, <1>4, <1>5, <1>6, <1>7 DEF ServerInv

(* The invariant of every part, under every interleaving of its requests,  *)
(* transactions or processes: the locks held, what each may rely on there  *)
(* and what the rows say together.                                         *)
THEOREM ServerInductive == Spec => []ServerInv
<1>1. Init => ServerInv
  BY ServerInit
<1>2. ServerInv /\ [Next]_vars => ServerInv'
  BY ServerStep
<1> QED BY <1>1, <1>2, PTL DEF Spec

(* However the redemptions and refreshes of any number of requests          *)
(* interleave, a link makes one session, a code and a handoff are used     *)
(* once, a lost race ends no lineage and a replaced credential does.       *)
THEOREM SignInsAreSingleHolds == Spec => []SignInsAreSingle
<1>1. ServerInv => SignInsAreSingle
  <2> SUFFICES ASSUME ServerInv PROVE SignInsAreSingle
    OBVIOUS
  <2>1. part = "devices" =>
          Devices!TypeOK /\ Devices!LinkSpentOnce /\ Devices!RaceIsNotReuse /\ Devices!ReuseEndsLineage
    BY DevicesSafe DEF ServerInv
  <2>2. part = "authkit" => AuthKit!TypeOK /\ AuthKit!OneUse
    BY AuthKitSafe DEF ServerInv
  <2>3. part = "admission" => Admitting!TypeOK
    BY DEF ServerInv, AdmissionInv
  <2>4. part = "enrollment" => Enrolling!TypeOK
    BY DEF ServerInv, EnrollmentInv
  <2>5. part = "webhooks" => Hooks!TypeOK
    BY HookSafe DEF ServerInv
  <2>6. part = "process" => Process!TypeOK
    BY ProcessSafe DEF ServerInv
  <2> QED BY <2>1, <2>2, <2>3, <2>4, <2>5, <2>6 DEF SignInsAreSingle, TypeOK
<1> QED BY ServerInductive, <1>1, PTL

(* Whichever of the webhook, the exchange and the reconciliation is first, *)
(* a session the provider ended is ended here, and no other one is.        *)
THEOREM RevocationsReachHolds == Spec => []RevocationsReach
<1>1. ServerInv => RevocationsReach
  BY AuthKitSafe DEF ServerInv, RevocationsReach
<1> QED BY ServerInductive, <1>1, PTL

(* The capacity and the last owner survive every interleaving of            *)
(* activations, demotions and retries, for any number of owners, guests     *)
(* and transactions; an owner's operation commits only while its asker is   *)
(* one, an agent is activated only while policy, requester, seat and room   *)
(* allow it, and its audit trail is one chain.                             *)
THEOREM AdmissionHoldsAlways == Spec => []AdmissionHolds
<1>1. ServerInv => AdmissionHolds
  <2> SUFFICES ASSUME ServerInv PROVE AdmissionHolds
    OBVIOUS
  <2>1. part = "admission" =>
          Admitting!CapacityHeld /\ Admitting!KeepsAnOwner /\ Admitting!ActsAsOwner /\ Admitting!ActivatedOnce
    BY DEF ServerInv, AdmissionInv
  <2>2. part = "enrollment" =>
          Enrolling!PolicyGoverns /\ Enrolling!ActivatedWhileAllowed /\ Enrolling!OneAgent
    BY DEF ServerInv, EnrollmentInv
  <2>3. part = "enrollment" => Enrolling!AuditChains
    BY TrailsAreChains DEF ServerInv
  <2> QED BY <2>1, <2>2, <2>3 DEF AdmissionHolds
<1> QED BY ServerInductive, <1>1, PTL

(* A webhook's message commits only with the current credential of an       *)
(* enabled webhook of an open channel, however long it was under way while  *)
(* members and the operator rotate, disable and archive.                   *)
THEOREM PostsAreCurrentHolds == Spec => []PostsAreCurrent
<1>1. ServerInv => PostsAreCurrent
  BY HookSafe DEF ServerInv, PostsAreCurrent
<1> QED BY ServerInductive, <1>1, PTL

(* Whatever processes start, crash or are signalled together, a migration  *)
(* takes effect once and a process that ended has nothing open.            *)
THEOREM ProcessesCloseHolds == Spec => []ProcessesClose
<1>1. ServerInv => ProcessesClose
  BY ProcessSafe DEF ServerInv, ProcessesClose
<1> QED BY ServerInductive, <1>1, PTL

(* What ended stays as it ended: no step of any part revives a revoked      *)
(* session, a replaced credential, an invitation or an enrollment that      *)
(* ended, rebinds a subject or takes a draining process back.              *)
THEOREM EndsStayEndedHolds == Spec => EndsStayEnded
<1> DEFINE Stays ==
      /\ part = "devices" => Devices!RevokedIsFinal
      /\ part = "authkit" => AuthKit!RevokedStaysSo
      /\ part = "admission" => Admitting!BoundForGood /\ Admitting!EndsAreFinal
      /\ part = "enrollment" => Enrolling!EndedIsFinal
      /\ part = "process" => Process!DrainIsFinal
<1>1. ServerInv /\ [Next]_vars => [Stays]_vars
  <2> SUFFICES ASSUME ServerInv, [Next]_vars PROVE Stays
    OBVIOUS
  <2>1. part = "devices" => Devices!RevokedIsFinal
    BY ServerMoves, DevicesEndsStay DEF ServerInv
  <2>2. part = "authkit" => AuthKit!RevokedStaysSo
    BY ServerMoves, AuthKitEndsStay DEF ServerInv
  <2>3. part = "admission" => Admitting!BoundForGood /\ Admitting!EndsAreFinal
    BY ServerMoves, AdmissionStep DEF ServerInv
  <2>4. part = "enrollment" => Enrolling!EndedIsFinal
    BY ServerMoves, EnrollmentStep DEF ServerInv
  <2>5. part = "process" => Process!DrainIsFinal
    BY ServerMoves, ProcessStep DEF ServerInv
  <2> QED BY <2>1, <2>2, <2>3, <2>4, <2>5
<1>2. Spec => [][Stays]_vars
  BY ServerInductive, <1>1, PTL DEF Spec
<1> QED BY <1>2 DEF EndsStayEnded

=============================================================================
