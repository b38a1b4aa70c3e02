----------------------- MODULE MessageDelivery_proofs -----------------------
(***************************************************************************)
(* The server's write paths and its event table.                           *)
(*                                                                         *)
(* A message commits only while its author may write, for any number of    *)
(* sessions, users, channels, keys and calls.  The inductive invariant is   *)
(* the lock discipline: what a session holds at each stage, that conflicting *)
(* locks are never held by two sessions, and what a send has learnt under   *)
(* its locks.  Whoever changes one of those facts holds a lock that the     *)
(* send's own lock on the same row excludes.                               *)
(***************************************************************************)
EXTENDS MessageDelivery, WorkspaceLog, FiniteSetTheorems, WellFoundedInduction, TLAPS

(* What a session does, and the stages its operation goes through. *)
SendStages == {"key", "chan", "sender", "authorize", "sequence", "fanout"}
ReadStages == {"cursor", "chan_ref", "member_ref", "sequence", "event_ref", "fanout"}
ChangeStages == {"chan", "principal", "workspace", "apply", "fanout"}
DisableStages == {"target", "workspace", "apply", "fanout"}

Stages == {"idle"} \cup SendStages \cup ReadStages \cup ChangeStages \cup DisableStages

WorkRecords ==
  [at : Stages, call : Calls \cup {None}, audience : SUBSET Users,
   refs : SUBSET Users, unread : Nat]

Typed ==
  /\ status \in [Users -> {"active", "revoked"}]
  /\ seats \in [Channels -> [Users -> {"none", "member", "owner"}]]
  /\ archived \in [Channels -> BOOLEAN]
  /\ messages \in [MessageIds -> Messages \cup {None}]
  /\ work \in [Requests -> WorkRecords]
  /\ locks = [r \in Requests |-> locks[r]]

Staged(r) ==
  LET op == work[r].call.op
      at == work[r].at
  IN  at # "idle" =>
        /\ work[r].call \in Calls
        /\ op = "send" => at \in SendStages
        /\ op = "read" => at \in ReadStages
        /\ op = "disable" => at \in DisableStages
        /\ op \notin {"send", "read", "disable"} => at \in ChangeStages

(* No two sessions hold conflicting locks on a row. *)
Exclusion ==
  \A r, q \in Requests : \A l \in locks[r], k \in locks[q] :
    r # q /\ l.row = k.row => ~Conflicts(l.mode, k.mode)

KeyLock(r) == Lock(<<"key", work[r].call.by, work[r].call.key>>, "update")
ChanLock(r) == Lock(<<"chan", work[r].call.chan>>, "update")

(* The locks of a send at each stage. *)
SendHolds(r) ==
  work[r].at # "idle" /\ work[r].call.op = "send" =>
    /\ work[r].at # "key" => KeyLock(r) \in locks[r]
    /\ work[r].at \in {"sender", "authorize", "sequence", "fanout"} =>
         ChanLock(r) \in locks[r]
    /\ work[r].at \in {"authorize", "sequence", "fanout"} =>
         Member(work[r].call.by, "share") \in locks[r]

(* The lock under which the others change seats, channels and memberships. *)
ChangeHolds(r) ==
  /\ /\ work[r].at \in {"principal", "workspace", "apply", "fanout"}
     /\ work[r].call.op \in {"seat", "remove", "archive"}
     => ChanLock(r) \in locks[r]
  /\ /\ work[r].at \in {"workspace", "apply", "fanout"}
     /\ work[r].call.op = "disable"
     => Member(work[r].call.who, "update") \in locks[r]

(* What a send has found out under its locks still holds. *)
SendKnows(r) ==
  LET call == work[r].call
  IN  work[r].at # "idle" /\ call.op = "send" =>
        /\ work[r].at \in {"authorize", "sequence", "fanout"} =>
             status[call.by] = "active"
        /\ work[r].at \in {"sequence", "fanout"} =>
             /\ Visible(call.by, call.chan)
             /\ ~archived[call.chan]
             /\ messages[<<call.by, call.key>>] = None

(* A located message stays. *)
Located(r) ==
  work[r].at # "idle" /\ work[r].call.op = "retract" =>
    messages[work[r].call.msg] # None

Session(r) == Staged(r) /\ SendHolds(r) /\ ChangeHolds(r) /\ SendKnows(r) /\ Located(r)

IInv == Typed /\ Exclusion /\ \A r \in Requests : Session(r)

USE UsersAssumption, SeatsAssumption, CallsAssumption, NoneAssumption

-----------------------------------------------------------------------------
(* The operators of the model.                                             *)

(* A lock conflicts with another when the other conflicts with it. *)
LEMMA ConflictsSymmetric ==
  ASSUME NEW m, NEW n PROVE Conflicts(m, n) <=> Conflicts(n, m)
BY DEF Conflicts

(* Counting messages is counting a finite set. *)
LEMMA MessagesFinite == IsFiniteSet(MessageIds)
BY FiniteAssumption, FS_Product DEF MessageIds

(* What a read event counts is a number. *)
LEMMA UnreadIsNat ==
  ASSUME NEW u, NEW c, NEW n PROVE Unread(u, c, n) \in Nat
<1> DEFINE S == {m \in InChannel(c) : m[1] # u /\ ~messages[m].deleted /\ messages[m].cs > n}
<1>1. S \in SUBSET MessageIds
  BY DEF InChannel
<1>2. IsFiniteSet(S)
  BY <1>1, MessagesFinite, FS_Subset
<1> QED
  BY <1>2, FS_CardinalityType DEF Unread

(* The sequence a send is given is a number. *)
LEMMA NextSequenceIsNat ==
  ASSUME NEW c PROVE Cardinality(InChannel(c)) + 1 \in Nat
<1>1. InChannel(c) \in SUBSET MessageIds
  BY DEF InChannel
<1>2. IsFiniteSet(InChannel(c))
  BY <1>1, MessagesFinite, FS_Subset
<1> QED
  BY <1>2, FS_CardinalityType

(* A step takes a free lock, lets all go, or leaves the locks alone.  None  *)
(* of these makes two sessions hold conflicting locks.                     *)
LockStep(r) ==
  \/ locks' = locks
  \/ Take(r) /\ Locking(r)
  \/ locks' = [locks EXCEPT ![r] = {}]

(* Taking a granted lock and releasing all of them both keep exclusion. *)
LEMMA ExclusionKept ==
  ASSUME NEW r \in Requests, Typed, Exclusion, LockStep(r) PROVE Exclusion'
<1>1. CASE locks' = locks
  BY <1>1 DEF Exclusion
<1>2. CASE locks' = [locks EXCEPT ![r] = {}]
  BY <1>2 DEF Exclusion, Typed
<1>3. CASE Take(r) /\ Locking(r)
  <2>1. \A q \in Requests \ {r} : \A l \in locks[q] :
          l.row = Wanted(r).row => ~Conflicts(l.mode, Wanted(r).mode)
    BY <1>3 DEF Take, Blockers
  <2>2. \A q \in Requests : q # r => locks'[q] = locks[q]
    BY <1>3 DEF Take, Typed
  <2>3. locks'[r] = locks[r] \cup {Wanted(r)}
    BY <1>3 DEF Take, Typed
  <2> SUFFICES ASSUME NEW p \in Requests, NEW q \in Requests,
                      NEW l \in locks'[p], NEW k \in locks'[q], p # q, l.row = k.row
               PROVE  ~Conflicts(l.mode, k.mode)
    BY DEF Exclusion
  <2>4. CASE p = r /\ l = Wanted(r)
    BY <2>1, <2>2, <2>4, ConflictsSymmetric
  <2>5. CASE q = r /\ k = Wanted(r)
    BY <2>1, <2>2, <2>5
  <2>6. CASE l \in locks[p] /\ k \in locks[q]
    BY <2>6 DEF Exclusion
  <2> QED
    BY <2>2, <2>3, <2>4, <2>5, <2>6
<1> QED
  BY <1>1, <1>2, <1>3 DEF LockStep

-----------------------------------------------------------------------------
(* The locks that matter, by the stage that takes them. *)
LEMMA WantedAt ==
  ASSUME NEW r \in Requests
  PROVE  /\ work[r].at = "key" => Wanted(r) = KeyLock(r)
         /\ work[r].at = "chan" /\ work[r].call.op \in {"send", "seat", "remove", "archive"}
              => Wanted(r) = ChanLock(r)
         /\ work[r].at = "sender" => Wanted(r) = Member(work[r].call.by, "share")
         /\ work[r].at = "target" => Wanted(r) = Member(work[r].call.who, "update")
BY DEF Wanted, KeyLock, ChanLock, ChanOf

(* A step of one session is no step of another. *)
Apart(r) ==
  \A q \in Requests \ {r} : work'[q] = work[q] /\ locks'[q] = locks[q]

(* Steps that change no data leave the other sessions as they were. *)
LEMMA OthersKept ==
  ASSUME NEW r \in Requests, IInv, UNCHANGED data, Apart(r),
         NEW q \in Requests \ {r}
  PROVE  Session(q)'
BY ZenonT(40) DEF IInv, Session, Staged, SendHolds, ChangeHolds, SendKnows, Located, KeyLock, ChanLock,
       Member, Lock, Visible, Apart, data

(* What happens to the session that ends. *)
LEMMA EndsIdle ==
  ASSUME NEW r \in Requests, Typed, End(r)
  PROVE  /\ Apart(r)
         /\ LockStep(r)
         /\ Session(r)'
         /\ work' \in [Requests -> WorkRecords]
         /\ locks' = [p \in Requests |-> locks'[p]]
<1>1. Idle \in WorkRecords
  BY DEF Idle, WorkRecords, Stages
<1>2. work'[r] = Idle /\ Apart(r) /\ work' \in [Requests -> WorkRecords]
  BY <1>1 DEF End, Typed, Apart
<1>3. LockStep(r) /\ locks' = [p \in Requests |-> locks'[p]]
  BY DEF End, Typed, LockStep
<1>4. Session(r)'
  BY <1>2 DEF Idle, Session, Staged, SendHolds, ChangeHolds, SendKnows, Located
<1> QED
  BY <1>2, <1>3, <1>4

(* What happens to a session that takes its lock and goes on. *)
LEMMA Taken ==
  ASSUME NEW r \in Requests, Typed, Take(r)
  PROVE  /\ locks'[r] = locks[r] \cup {Wanted(r)}
         /\ \A q \in Requests \ {r} : locks'[q] = locks[q]
         /\ locks' = [p \in Requests |-> locks'[p]]
BY DEF Take, Typed

(* Going to a stage changes that and nothing else of the session. *)
LEMMA Gone ==
  ASSUME NEW r \in Requests, Typed, NEW stage \in Stages, Goto(r, stage)
  PROVE  /\ work'[r].at = stage
         /\ work'[r].call = work[r].call
         /\ work'[r].audience = work[r].audience /\ work'[r].unread = work[r].unread
         /\ \A q \in Requests \ {r} : work'[q] = work[q]
         /\ work' \in [Requests -> WorkRecords]
<1>1. work[r] \in WorkRecords /\ work' = [work EXCEPT ![r] = [work[r] EXCEPT !.at = stage]]
  BY DEF Goto, Typed
<1>2. [work[r] EXCEPT !.at = stage] \in WorkRecords
  BY <1>1 DEF WorkRecords
<1>3. /\ [work[r] EXCEPT !.at = stage].at = stage
      /\ [work[r] EXCEPT !.at = stage].call = work[r].call
      /\ [work[r] EXCEPT !.at = stage].audience = work[r].audience
      /\ [work[r] EXCEPT !.at = stage].unread = work[r].unread
  BY <1>1 DEF WorkRecords
<1> QED
  BY <1>1, <1>2, <1>3 DEF Typed

-----------------------------------------------------------------------------
(* The steps that change no data, one by one: what the session holds and    *)
(* knows afterwards.                                                       *)
Kept(r) ==
  /\ UNCHANGED data
  /\ Apart(r)
  /\ LockStep(r)
  /\ work' \in [Requests -> WorkRecords]
  /\ locks' = [p \in Requests |-> locks'[p]]
  /\ Session(r)'

(* The invariant from its parts, one session moving and the rest as they were. *)
LEMMA KeptIInv ==
  ASSUME NEW r \in Requests, IInv, Kept(r) PROVE IInv'
<1>1. Typed'
  BY DEF Kept, IInv, Typed, data
<1>2. Exclusion'
  BY ExclusionKept DEF Kept, IInv
<1>3. \A q \in Requests : Session(q)'
  BY OthersKept DEF Kept
<1> QED
  BY <1>1, <1>2, <1>3 DEF IInv

(* The stages tell the operations apart. *)
LEMMA OpAt ==
  ASSUME NEW r \in Requests, Staged(r)
  PROVE  /\ work[r].at \in {"key", "sender", "authorize"} => work[r].call.op = "send"
         /\ work[r].at \in {"cursor", "chan_ref", "member_ref", "event_ref"} =>
              work[r].call.op = "read"
         /\ work[r].at = "target" => work[r].call.op = "disable"
         /\ work[r].at \in {"chan", "principal"} => work[r].call.op \notin {"read", "disable"}
         /\ work[r].at \in {"workspace", "apply"} => work[r].call.op \notin {"send", "read"}
         /\ work[r].at = "sequence" => work[r].call.op \in {"send", "read"}
BY DEF Staged, SendStages, ReadStages, ChangeStages, DisableStages

(* A session that takes its lock, keeps its call and goes on to a stage. *)
LEMMA Advance ==
  ASSUME NEW r \in Requests, IInv, UNCHANGED data, Take(r), Locking(r),
         NEW stage \in Stages, Goto(r, stage), Session(r)'
  PROVE  Kept(r)
<1>1. LockStep(r)
  BY DEF LockStep
<1> QED
  BY <1>1, Taken, Gone DEF Kept, Apart, IInv

(* A session that goes on to a stage without a lock. *)
LEMMA AdvanceFree ==
  ASSUME NEW r \in Requests, IInv, UNCHANGED data, locks' = locks,
         NEW stage \in Stages, Goto(r, stage), Session(r)'
  PROVE  Kept(r)
<1>1. LockStep(r) /\ locks' = [p \in Requests |-> locks'[p]]
  BY DEF LockStep, IInv, Typed
<1> QED
  BY <1>1, Gone DEF Kept, Apart, IInv

(* sendMessage takes its key, then its membership, and is authorized or ends. *)
LEMMA SendSteps ==
  ASSUME NEW r \in Requests, IInv,
         LockKey(r) \/ LockSender(r) \/ Authorize(r)
  PROVE  Kept(r)
<1> USE DEF IInv, At
<1>1. CASE End(r) /\ UNCHANGED data
  BY <1>1, EndsIdle DEF Kept
<1>2. CASE LockKey(r)
  <2>1. Take(r) /\ Goto(r, "chan") /\ work[r].at = "key" /\ UNCHANGED data
    BY <1>2 DEF LockKey
  <2>2. "chan" \in Stages /\ Locking(r)
    BY <2>1 DEF Stages, SendStages, Locking
  <2>3. work[r].call.op = "send" /\ work[r].call \in Calls
    BY <2>1, OpAt DEF Session, Staged
  <2>4. /\ work'[r].at = "chan" /\ work'[r].call = work[r].call
        /\ locks'[r] = locks[r] \cup {KeyLock(r)}
    BY <2>1, <2>2, Taken, Gone, WantedAt
  <2>5. Session(r)'
    BY <2>3, <2>4 DEF Session, Staged, SendHolds, ChangeHolds, SendKnows, Located, KeyLock, SendStages
  <2> QED
    BY <2>1, <2>2, <2>5, Advance
<1>3. CASE LockSender(r) /\ ~End(r)
  <2>1. /\ Take(r) /\ Goto(r, "authorize") /\ work[r].at = "sender" /\ UNCHANGED data
        /\ status[work[r].call.by] = "active"
    BY <1>3 DEF LockSender
  <2>2. "authorize" \in Stages /\ Locking(r)
    BY <2>1 DEF Stages, SendStages, Locking
  <2>3. work[r].call.op = "send" /\ work[r].call \in Calls
    BY <2>1, OpAt DEF Session, Staged
  <2>4. /\ work'[r].at = "authorize" /\ work'[r].call = work[r].call
        /\ locks'[r] = locks[r] \cup {Member(work[r].call.by, "share")}
    BY <2>1, <2>2, Taken, Gone, WantedAt
  <2>5. KeyLock(r) \in locks[r] /\ ChanLock(r) \in locks[r]
    BY <2>1, <2>3 DEF Session, SendHolds
  <2>6. Session(r)'
    BY <2>1, <2>3, <2>4, <2>5
       DEF Session, Staged, SendHolds, ChangeHolds, SendKnows, Located, KeyLock, ChanLock,
           SendStages, data
  <2> QED
    BY <2>1, <2>2, <2>6, Advance
<1>4. CASE Authorize(r) /\ ~End(r)
  <2>1. /\ locks' = locks /\ Goto(r, "sequence") /\ work[r].at = "authorize" /\ UNCHANGED data
        /\ Visible(work[r].call.by, work[r].call.chan)
        /\ messages[<<work[r].call.by, work[r].call.key>>] = None
        /\ ~archived[work[r].call.chan]
    BY <1>4 DEF Authorize
  <2>2. "sequence" \in Stages
    BY DEF Stages, SendStages
  <2>3. work[r].call.op = "send" /\ work[r].call \in Calls
    BY <2>1, OpAt DEF Session, Staged
  <2>4. work'[r].at = "sequence" /\ work'[r].call = work[r].call
    BY <2>1, <2>2, Gone
  <2>5. /\ KeyLock(r) \in locks[r] /\ ChanLock(r) \in locks[r]
        /\ Member(work[r].call.by, "share") \in locks[r]
        /\ status[work[r].call.by] = "active"
    BY <2>1, <2>3 DEF Session, SendHolds, SendKnows
  <2>6. Session(r)'
    BY <2>1, <2>3, <2>4, <2>5
       DEF Session, Staged, SendHolds, ChangeHolds, SendKnows, Located, KeyLock, ChanLock,
           SendStages, Visible, data
  <2> QED
    BY <2>1, <2>2, <2>6, AdvanceFree
<1> QED
  BY <1>1, <1>2, <1>3, <1>4 DEF LockSender, Authorize

(* What the API accepts. *)
LEMMA CallTypes ==
  ASSUME NEW call \in Calls
  PROVE  /\ call.by \in Users
         /\ call.op \in {"send", "retract", "react", "unreact", "read", "seat", "remove",
                         "archive", "disable"}
         /\ call.op \in {"send", "seat", "remove", "archive"} => call.chan \in Channels
         /\ call.op = "send" => call.key \in Keys
         /\ call.op \in {"retract", "react", "unreact", "read"} => call.msg \in MessageIds
         /\ call.op \in {"seat", "remove", "disable"} => call.who \in Users
         /\ call.op = "seat" => call.role \in {"member", "owner"}
BY DEF CallRecords

(* A transaction begins with a call of the API and no lock. *)
LEMMA BeginStep ==
  ASSUME NEW r \in Requests, IInv, Begin(r) PROVE Kept(r)
<1> USE DEF IInv
<1>1. PICK call \in Calls :
        /\ Found(call)
        /\ work' = [work EXCEPT ![r].at = FirstStage(call), ![r].call = call]
  BY DEF Begin
<1>2. UNCHANGED data /\ locks' = locks
  BY DEF Begin
<1>3. /\ call.op = "send" => FirstStage(call) = "key"
      /\ call.op = "read" => FirstStage(call) = "cursor"
      /\ call.op = "disable" => FirstStage(call) = "target"
      /\ call.op \notin {"send", "read", "disable"} => FirstStage(call) = "chan"
  BY DEF FirstStage
<1>4. FirstStage(call) \in Stages
  BY <1>3 DEF Stages, SendStages, ReadStages, ChangeStages, DisableStages
<1>5. work[r] \in WorkRecords /\ call \in Calls \cup {None}
  BY DEF Typed
<1> DEFINE w == [[work[r] EXCEPT !.at = FirstStage(call)] EXCEPT !.call = call]
<1>6. w \in WorkRecords /\ w.at = FirstStage(call) /\ w.call = call
  BY <1>4, <1>5 DEF WorkRecords
<1>7. work' = [work EXCEPT ![r] = w]
  BY <1>1 DEF Typed
<1>8. /\ work'[r].at = FirstStage(call) /\ work'[r].call = call
      /\ work' \in [Requests -> WorkRecords]
      /\ \A q \in Requests \ {r} : work'[q] = work[q]
  BY <1>6, <1>7 DEF Typed
<1>9. call.op = "retract" => messages[call.msg] # None
  BY <1>1 DEF Found
<1>10. Session(r)'
  BY <1>2, <1>3, <1>8, <1>9
     DEF Session, Staged, SendHolds, ChangeHolds, SendKnows, Located, SendStages, ReadStages,
         ChangeStages, DisableStages, data
<1>11. LockStep(r) /\ locks' = [p \in Requests |-> locks'[p]] /\ Apart(r)
  BY <1>2, <1>8 DEF LockStep, Typed, Apart
<1> QED
  BY <1>2, <1>8, <1>10, <1>11 DEF Kept

(* The other locks before the workspace's. *)
LEMMA LockSteps ==
  ASSUME NEW r \in Requests, IInv,
         LockChannel(r) \/ LockPrincipal(r) \/ LockTarget(r) \/ LockWorkspace(r)
  PROVE  Kept(r)
<1> USE DEF IInv, At
<1>1. CASE End(r) /\ UNCHANGED data
  BY <1>1, EndsIdle DEF Kept
<1>2. CASE LockChannel(r) /\ ~End(r)
  <2> DEFINE stage == IF Does(r, {"send"}) THEN "sender" ELSE "principal"
  <2>1. Take(r) /\ Goto(r, stage) /\ work[r].at = "chan" /\ UNCHANGED data
    BY <1>2 DEF LockChannel
  <2>2. stage \in Stages /\ Locking(r)
    BY <2>1 DEF Stages, SendStages, ChangeStages, Locking
  <2>3. work[r].call.op \notin {"read", "disable"} /\ work[r].call \in Calls
    BY <2>1, OpAt DEF Session, Staged
  <2>4. /\ work'[r].at = stage /\ work'[r].call = work[r].call
        /\ locks'[r] = locks[r] \cup {Wanted(r)}
    BY <2>1, <2>2, Taken, Gone
  <2>5. CASE work[r].call.op = "send"
    <3>1. KeyLock(r) \in locks[r] /\ Wanted(r) = ChanLock(r) /\ stage = "sender"
      BY <2>1, <2>5, WantedAt DEF Session, SendHolds, Does
    <3>2. Session(r)'
      BY <2>1, <2>3, <2>4, <2>5, <3>1
         DEF Session, Staged, SendHolds, ChangeHolds, SendKnows, Located, KeyLock, ChanLock,
             SendStages, data
    <3> QED
      BY <2>1, <2>2, <3>2, Advance
  <2>6. CASE work[r].call.op # "send"
    <3>1. stage = "principal"
      BY <2>6 DEF Does
    <3>2. work[r].call.op \in {"seat", "remove", "archive"} => Wanted(r) = ChanLock(r)
      BY <2>1, WantedAt
    <3>3. Session(r)'
      BY <2>1, <2>3, <2>4, <2>6, <3>1, <3>2
         DEF Session, Staged, SendHolds, ChangeHolds, SendKnows, Located, ChanLock,
             ChangeStages, data
    <3> QED
      BY <2>1, <2>2, <3>3, Advance
  <2> QED
    BY <2>5, <2>6
<1>3. CASE LockPrincipal(r) /\ ~End(r)
  <2>1. Take(r) /\ Goto(r, "workspace") /\ work[r].at = "principal" /\ UNCHANGED data
    BY <1>3 DEF LockPrincipal
  <2>2. "workspace" \in Stages /\ Locking(r)
    BY <2>1 DEF Stages, ChangeStages, Locking
  <2>3. work[r].call.op \notin {"send", "read", "disable"} /\ work[r].call \in Calls
    BY <2>1 DEF Session, Staged, SendStages, ReadStages, DisableStages
  <2>4. /\ work'[r].at = "workspace" /\ work'[r].call = work[r].call
        /\ locks'[r] = locks[r] \cup {Wanted(r)}
    BY <2>1, <2>2, Taken, Gone
  <2>5. Session(r)'
    BY <2>1, <2>3, <2>4
       DEF Session, Staged, SendHolds, ChangeHolds, SendKnows, Located, ChanLock,
           ChangeStages, data
  <2> QED
    BY <2>1, <2>2, <2>5, Advance
<1>4. CASE LockTarget(r)
  <2>1. Take(r) /\ Goto(r, "workspace") /\ work[r].at = "target" /\ UNCHANGED data
    BY <1>4 DEF LockTarget
  <2>2. "workspace" \in Stages /\ Locking(r)
    BY <2>1 DEF Stages, ChangeStages, Locking
  <2>3. work[r].call.op = "disable" /\ work[r].call \in Calls
    BY <2>1, OpAt DEF Session, Staged
  <2>4. /\ work'[r].at = "workspace" /\ work'[r].call = work[r].call
        /\ locks'[r] = locks[r] \cup {Member(work[r].call.who, "update")}
    BY <2>1, <2>2, Taken, Gone, WantedAt
  <2>5. Session(r)'
    BY <2>1, <2>3, <2>4
       DEF Session, Staged, SendHolds, ChangeHolds, SendKnows, Located, DisableStages, data
  <2> QED
    BY <2>1, <2>2, <2>5, Advance
<1>5. CASE LockWorkspace(r)
  <2>1. Take(r) /\ Goto(r, "apply") /\ work[r].at = "workspace" /\ UNCHANGED data
    BY <1>5 DEF LockWorkspace
  <2>2. "apply" \in Stages /\ Locking(r)
    BY <2>1 DEF Stages, ChangeStages, Locking
  <2>3. work[r].call.op \notin {"send", "read"} /\ work[r].call \in Calls
    BY <2>1, OpAt DEF Session, Staged
  <2>4. /\ work'[r].at = "apply" /\ work'[r].call = work[r].call
        /\ locks'[r] = locks[r] \cup {Wanted(r)}
    BY <2>1, <2>2, Taken, Gone
  <2>5. Session(r)'
    BY <2>1, <2>3, <2>4
       DEF Session, Staged, SendHolds, ChangeHolds, SendKnows, Located, ChanLock,
           ChangeStages, DisableStages, data
  <2> QED
    BY <2>1, <2>2, <2>5, Advance
<1> QED
  BY <1>1, <1>2, <1>3, <1>4, <1>5 DEF LockChannel, LockPrincipal

(* A read waits for its cursor and for the rows it refers to. *)
LEMMA CursorSteps ==
  ASSUME NEW r \in Requests, IInv, LockCursor(r) \/ CheckReference(r)
  PROVE  Kept(r)
<1> USE DEF IInv, At
<1>1. CASE End(r) /\ UNCHANGED data
  BY <1>1, EndsIdle DEF Kept
<1>2. ASSUME NEW stage \in {"chan_ref", "member_ref", "sequence", "fanout"}, Take(r), Goto(r, stage),
             work[r].at \in {"cursor", "chan_ref", "member_ref", "event_ref"}, UNCHANGED data
      PROVE  Kept(r)
  <2>1. stage \in Stages /\ Locking(r)
    BY <1>2 DEF Stages, ReadStages, Locking
  <2>2. work[r].call.op = "read" /\ work[r].call \in Calls
    BY <1>2, OpAt DEF Session, Staged
  <2>3. work'[r].at = stage /\ work'[r].call = work[r].call
    BY <1>2, <2>1, Gone
  <2>4. Session(r)'
    BY <2>2, <2>3
       DEF Session, Staged, SendHolds, ChangeHolds, SendKnows, Located, ReadStages
  <2> QED
    BY <1>2, <2>1, <2>4, Advance
<1>3. CASE LockCursor(r) /\ ~End(r)
  <2> DEFINE read == cursors[ChanOf(work[r].call)][work[r].call.by]
             stage == IF read = 0 THEN "chan_ref" ELSE "sequence"
  <2>1. Take(r) /\ Goto(r, stage) /\ work[r].at = "cursor" /\ UNCHANGED data
    BY <1>3 DEF LockCursor
  <2>2. stage \in {"chan_ref", "member_ref", "sequence", "fanout"}
    OBVIOUS
  <2> HIDE DEF stage
  <2> QED
    BY <1>2, <2>1, <2>2
<1>4. CASE CheckReference(r)
  BY <1>2, <1>4 DEF CheckReference
<1> QED
  BY <1>1, <1>3, <1>4 DEF LockCursor

(* Publishing sends a session on to its audience rows, a read to its reference. *)
LEMMA Published ==
  ASSUME NEW r \in Requests, Typed, work[r].call \in Calls, NEW audience \in SUBSET Users,
         NEW unread \in Nat, Publish(r, audience, unread)
  PROVE  /\ work'[r].at = IF work[r].call.op = "read" THEN "event_ref" ELSE "fanout"
         /\ work'[r].call = work[r].call
         /\ work'[r].audience = audience /\ work'[r].unread = unread
         /\ \A q \in Requests \ {r} : work'[q] = work[q]
         /\ work' \in [Requests -> WorkRecords]
<1> DEFINE stage == IF Does(r, {"read"}) THEN "event_ref" ELSE "fanout"
           refs == {work[r].call.by} \cup audience
           w1 == [work[r] EXCEPT !.at = stage]
           w2 == [w1 EXCEPT !.audience = audience]
           w3 == [w2 EXCEPT !.refs = refs]
           w4 == [w3 EXCEPT !.unread = unread]
<1>1. stage \in Stages /\ refs \in SUBSET Users
  BY CallTypes DEF Stages, ReadStages, SendStages
<1>2. work[r] \in WorkRecords
  BY DEF Typed
<1>3. w1 \in WorkRecords /\ w1.at = stage /\ w1.call = work[r].call
  BY <1>1, <1>2 DEF WorkRecords
<1>4. w2 \in WorkRecords /\ w2.at = stage /\ w2.call = work[r].call /\ w2.audience = audience
  <2> HIDE DEF w1
  <2> QED
    BY <1>3 DEF WorkRecords
<1>5. w3 \in WorkRecords /\ w3.at = stage /\ w3.call = work[r].call /\ w3.audience = audience
  <2> HIDE DEF w2, refs
  <2> QED
    BY <1>1, <1>4 DEF WorkRecords
<1>6. /\ w4 \in WorkRecords /\ w4.at = stage /\ w4.call = work[r].call
      /\ w4.audience = audience /\ w4.unread = unread
  <2> HIDE DEF w3
  <2> QED
    BY <1>5 DEF WorkRecords
<1>7. work' = [work EXCEPT ![r] = w4]
  BY DEF Publish, Typed
<1> HIDE DEF w4
<1>8. work'[r] = w4 /\ work' \in [Requests -> WorkRecords]
      /\ \A q \in Requests \ {r} : work'[q] = work[q]
  BY <1>6, <1>7 DEF Typed
<1> QED
  BY <1>6, <1>8 DEF Does

(* Publishing keeps the locks and what was learnt under them. *)
LEMMA Publishes ==
  ASSUME NEW r \in Requests, IInv, UNCHANGED data,
         work[r].at \in {"sequence", "apply"},
         NEW audience \in SUBSET Users, NEW unread \in Nat, Publish(r, audience, unread),
         locks' = locks \/ (Take(r) /\ Locking(r))
  PROVE  Kept(r)
<1> USE DEF IInv
<1>1. work[r].call \in Calls
  BY DEF Session, Staged
<1>2. /\ work'[r].at = IF work[r].call.op = "read" THEN "event_ref" ELSE "fanout"
      /\ work'[r].call = work[r].call
      /\ \A q \in Requests \ {r} : work'[q] = work[q]
      /\ work' \in [Requests -> WorkRecords]
  BY <1>1, Published
<1>3. /\ locks[r] \subseteq locks'[r]
      /\ \A q \in Requests \ {r} : locks'[q] = locks[q]
      /\ locks' = [p \in Requests |-> locks'[p]]
      /\ LockStep(r)
  BY Taken DEF Typed, LockStep
<1>4. Staged(r)'
  BY <1>1, <1>2 DEF Staged, SendStages, ReadStages, ChangeStages, DisableStages
<1>5. SendHolds(r)'
  BY <1>2, <1>3, OpAt DEF Session, SendHolds, KeyLock, ChanLock
<1>6. ChangeHolds(r)'
  <2>1. work[r].at = "sequence" => work[r].call.op \in {"send", "read"}
    BY OpAt DEF Session
  <2> QED
    BY <1>2, <1>3, <2>1 DEF Session, ChangeHolds, ChanLock
<1>7. SendKnows(r)'
  BY <1>2, OpAt DEF Session, SendKnows, Visible, data
<1>8. Located(r)'
  BY <1>2 DEF Session, Located, data
<1> QED
  BY <1>2, <1>3, <1>4, <1>5, <1>6, <1>7, <1>8 DEF Kept, Apart, Session

(* A send and a read allocate their sequence under the workspace row. *)
LEMMA AllocateSteps ==
  ASSUME NEW r \in Requests, IInv, AllocateForMessage(r) \/ AllocateForCursor(r)
  PROVE  Kept(r)
<1> USE DEF IInv, At
<1>1. work[r].at = "sequence" /\ Take(r) /\ Locking(r) /\ UNCHANGED data
  BY DEF AllocateForMessage, AllocateForCursor, Locking
<1>2. work[r].call \in Calls
  BY <1>1 DEF Session, Staged
<1>3. CASE AllocateForMessage(r)
  <2>1. Audience(work[r].call.chan) \in SUBSET Users
    BY DEF Audience
  <2> QED
    BY <1>1, <1>3, <2>1, Publishes DEF AllocateForMessage
<1>4. CASE AllocateForCursor(r)
  <2> DEFINE unread == Unread(work[r].call.by, ChanOf(work[r].call), messages[work[r].call.msg].cs)
  <2>1. Publish(r, {work[r].call.by}, unread)
    BY <1>4 DEF AllocateForCursor
  <2>2. unread \in Nat /\ {work[r].call.by} \in SUBSET Users
    BY <1>2, UnreadIsNat, CallTypes
  <2> HIDE DEF unread
  <2> QED
    BY <1>1, <2>1, <2>2, Publishes
<1> QED
  BY <1>3, <1>4

(* A mutation ends without a change, or publishes one. *)
LEMMA ProceedStep ==
  ASSUME NEW r \in Requests, IInv, NEW op, NEW changes, NEW audience \in SUBSET Users,
         Proceed(r, op, changes, audience)
  PROVE  Kept(r)
<1> USE DEF IInv, At
<1>1. CASE End(r) /\ UNCHANGED data
  BY <1>1, EndsIdle DEF Kept
<1>2. CASE Publish(r, audience, 0) /\ locks' = locks
  BY <1>2, Publishes DEF Proceed
<1> QED
  BY <1>1, <1>2 DEF Proceed

(* The mutations that publish do so with their conversation still locked. *)
LEMMA ApplySteps ==
  ASSUME NEW r \in Requests, IInv,
         \/ Retract(r) \/ AddReaction(r) \/ RemoveReaction(r)
         \/ UpsertChannelMember(r) \/ RemoveChannelMember(r)
         \/ ArchiveChannel(r) \/ DisableAgent(r)
  PROVE  Kept(r)
<1>1. work[r].at = "apply" /\ work[r].call \in Calls
  BY DEF IInv, Session, Staged, At, Proceed, Retract, AddReaction, RemoveReaction, UpsertChannelMember,
         RemoveChannelMember, ArchiveChannel, DisableAgent
<1>2. \A c : Audience(c) \in SUBSET Users
  BY DEF Audience
<1>3. CASE Retract(r) \/ AddReaction(r) \/ RemoveReaction(r)
  <2>1. Audience(ChanOf(work[r].call)) \in SUBSET Users
    BY <1>2, SMTT(30)
  <2> QED
    BY <1>3, <2>1, ProceedStep DEF Retract, AddReaction, RemoveReaction
<1>4. CASE UpsertChannelMember(r)
  <2>1. work[r].call.op = "seat"
    BY <1>4 DEF UpsertChannelMember, Proceed, Does
  <2>2. Audience(work[r].call.chan) \cup {work[r].call.who} \in SUBSET Users
    BY <1>1, <1>2, <2>1, CallTypes
  <2> QED
    BY <1>4, <2>2, ProceedStep DEF UpsertChannelMember
<1>5. CASE RemoveChannelMember(r) \/ ArchiveChannel(r)
  <2>1. Audience(work[r].call.chan) \in SUBSET Users
    BY <1>2
  <2> QED
    BY <1>5, <2>1, ProceedStep DEF RemoveChannelMember, ArchiveChannel
<1>6. CASE DisableAgent(r)
  BY <1>6, ProceedStep DEF DisableAgent
<1> QED
  BY <1>3, <1>4, <1>5, <1>6

(* An audience row locks a membership and teaches nothing. *)
LEMMA FanOutStep ==
  ASSUME NEW r \in Requests, IInv, FanOut(r) PROVE Kept(r)
<1> USE DEF IInv, At
<1>1. work[r].at = "fanout" /\ Take(r) /\ Locking(r) /\ UNCHANGED data
  BY DEF FanOut, Locking
<1> DEFINE refs == work[r].refs \ {Wanted(r).row[2]}
           w == [work[r] EXCEPT !.refs = refs]
<1>2. work[r] \in WorkRecords
  BY DEF Typed
<1>3. w \in WorkRecords /\ w.at = "fanout" /\ w.call = work[r].call
  <2>1. refs \in SUBSET Users
    BY <1>2 DEF WorkRecords
  <2> HIDE DEF refs
  <2> QED
    BY <1>1, <1>2, <2>1 DEF WorkRecords
<1>4. work' = [work EXCEPT ![r] = w]
  BY DEF FanOut, Typed
<1> HIDE DEF w
<1>5. /\ work'[r].at = work[r].at /\ work'[r].call = work[r].call
      /\ work' \in [Requests -> WorkRecords]
      /\ \A q \in Requests \ {r} : work'[q] = work[q]
  BY <1>1, <1>3, <1>4 DEF Typed
<1>6. /\ locks[r] \subseteq locks'[r]
      /\ \A q \in Requests \ {r} : locks'[q] = locks[q]
      /\ locks' = [p \in Requests |-> locks'[p]]
      /\ LockStep(r)
  BY <1>1, Taken DEF LockStep
<1>7. Session(r)'
  BY <1>1, <1>5, <1>6, SMTT(30)
     DEF Session, Staged, SendHolds, ChangeHolds, SendKnows, Located, KeyLock, ChanLock,
         Visible, data
<1> QED
  BY <1>1, <1>5, <1>6, <1>7 DEF Kept, Apart

-----------------------------------------------------------------------------
(* The commits. *)

(* Two sessions with exclusive locks of a kind name different rows. *)
LEMMA Excluded ==
  ASSUME Exclusion, NEW r \in Requests, NEW q \in Requests, r # q
  PROVE  /\ \A a, b : ~(Lock(a, "update") \in locks[r] /\ Lock(b, "update") \in locks[q] /\ a = b)
         /\ \A u, v : Member(u, "update") \in locks[r] /\ Member(v, "share") \in locks[q]
              => u # v
<1>1. Conflicts("update", "update") /\ Conflicts("update", "share")
  BY DEF Conflicts
<1> QED
  BY <1>1 DEF Exclusion, Lock, Member

(* The facts a commit could take from another session. *)
Respects(r) ==
  \A q \in Requests \ {r} :
    LET call == work[q].call
    IN  /\ work[q].at # "idle" /\ call.op = "send" =>
             /\ work[q].at \in {"authorize", "sequence", "fanout"} =>
                  status'[call.by] = status[call.by]
             /\ work[q].at \in {"sequence", "fanout"} =>
                  /\ seats'[call.chan][call.by] = seats[call.chan][call.by]
                  /\ archived'[call.chan] = archived[call.chan]
                  /\ messages'[<<call.by, call.key>>] = messages[<<call.by, call.key>>]
        /\ work[q].at # "idle" /\ call.op = "retract" => messages'[call.msg] # None

DataTyped ==
  /\ status \in [Users -> {"active", "revoked"}]
  /\ seats \in [Channels -> [Users -> {"none", "member", "owner"}]]
  /\ archived \in [Channels -> BOOLEAN]
  /\ messages \in [MessageIds -> Messages \cup {None}]

(* A commit that respects what the other sessions know keeps the invariant. *)
LEMMA CommitKept ==
  ASSUME NEW r \in Requests, IInv, End(r), DataTyped', Respects(r)
  PROVE  IInv'
<1> USE DEF IInv
<1>1. Apart(r) /\ LockStep(r) /\ Session(r)'
  BY EndsIdle
<1>2. Typed'
  BY EndsIdle DEF Typed, DataTyped
<1>3. Exclusion'
  BY <1>1, ExclusionKept
<1>4. ASSUME NEW q \in Requests \ {r} PROVE Session(q)'
  <2>1. Session(q) /\ work'[q] = work[q] /\ locks'[q] = locks[q]
    BY <1>1 DEF Apart
  <2>2. Staged(q)' /\ SendHolds(q)' /\ ChangeHolds(q)'
    BY <2>1 DEF Session, Staged, SendHolds, ChangeHolds, KeyLock, ChanLock
  <2>3. SendKnows(q)'
    BY <2>1 DEF Session, SendKnows, Visible, Respects
  <2>4. Located(q)'
    BY <2>1 DEF Session, Located, Respects
  <2> QED
    BY <2>2, <2>3, <2>4 DEF Session
<1> QED
  BY <1>1, <1>2, <1>3, <1>4

(* What a session that commits is, holds and knows. *)
LEMMA CommitsHolding ==
  ASSUME NEW r \in Requests, IInv, NEW op, Committing(r, op)
  PROVE  /\ work[r].call \in Calls /\ work[r].call.op = op /\ End(r)
         /\ op = "send" =>
              /\ KeyLock(r) \in locks[r]
              /\ status[work[r].call.by] = "active"
              /\ Visible(work[r].call.by, work[r].call.chan)
              /\ ~archived[work[r].call.chan]
              /\ messages[<<work[r].call.by, work[r].call.key>>] = None
         /\ op \in {"seat", "remove", "archive"} => ChanLock(r) \in locks[r]
         /\ op = "disable" => Member(work[r].call.who, "update") \in locks[r]
         /\ op = "retract" => messages[work[r].call.msg] # None
BY DEF Committing, At, Does, IInv, Session, Staged, SendHolds, ChangeHolds, SendKnows, Located

(* A send that has been authorized holds its channel and its membership. *)
LEMMA SenderHolds ==
  ASSUME NEW q \in Requests, IInv, work[q].at # "idle", work[q].call.op = "send"
  PROVE  /\ work[q].at # "key" => KeyLock(q) \in locks[q]
         /\ work[q].at \in {"sequence", "fanout"} => ChanLock(q) \in locks[q]
         /\ work[q].at \in {"authorize", "sequence", "fanout"} =>
              Member(work[q].call.by, "share") \in locks[q]
         /\ work[q].call \in Calls
BY DEF IInv, Session, SendHolds, Staged

(* A committed message falsifies no other send's knowledge: its key was locked. *)
LEMMA CommitMessageStep ==
  ASSUME NEW r \in Requests, IInv, CommitMessage(r) PROVE IInv'
<1> DEFINE call == work[r].call
           m == <<call.by, call.key>>
           row == [chan |-> call.chan, deleted |-> FALSE,
                   cs |-> Cardinality(InChannel(call.chan)) + 1]
<1>1. /\ call \in Calls /\ call.op = "send" /\ End(r) /\ KeyLock(r) \in locks[r]
      /\ messages[m] = None
  BY CommitsHolding DEF CommitMessage
<1>2. messages' = [messages EXCEPT ![m] = row] /\ UNCHANGED <<status, seats, archived>>
  BY DEF CommitMessage
<1>3. m \in MessageIds /\ row \in Messages
  BY <1>1, CallTypes, NextSequenceIsNat DEF MessageIds, Messages
<1> HIDE DEF row
<1>4. DataTyped'
  BY <1>2, <1>3 DEF IInv, Typed, DataTyped
<1>5. Respects(r)
  <2> SUFFICES ASSUME NEW q \in Requests \ {r}
               PROVE  /\ /\ work[q].at \in {"sequence", "fanout"} /\ work[q].call.op = "send"
                         => messages'[<<work[q].call.by, work[q].call.key>>]
                              = messages[<<work[q].call.by, work[q].call.key>>]
                      /\ work[q].at # "idle" /\ work[q].call.op = "retract"
                         => messages'[work[q].call.msg] # None
    BY <1>2 DEF Respects
  <2>1. ASSUME work[q].at \in {"sequence", "fanout"}, work[q].call.op = "send"
        PROVE  messages'[<<work[q].call.by, work[q].call.key>>]
                 = messages[<<work[q].call.by, work[q].call.key>>]
    <3>1. KeyLock(q) \in locks[q] /\ work[q].call \in Calls
      BY <2>1, SenderHolds
    <3>2. <<"key", work[q].call.by, work[q].call.key>> # <<"key", call.by, call.key>>
      BY <1>1, <3>1, Excluded DEF KeyLock, IInv
    <3>3. <<work[q].call.by, work[q].call.key>> # m
      BY <3>2
    <3>4. <<work[q].call.by, work[q].call.key>> \in MessageIds
      BY <2>1, <3>1, CallTypes DEF MessageIds
    <3> QED
      BY <1>2, <3>3, <3>4 DEF IInv, Typed
  <2>2. ASSUME work[q].at # "idle", work[q].call.op = "retract"
        PROVE  messages'[work[q].call.msg] # None
    <3>1. messages[work[q].call.msg] # None /\ work[q].call.msg \in MessageIds
      BY <2>2, CallTypes DEF Located, IInv, Session, Staged
    <3> QED
      BY <1>2, <1>3, <3>1 DEF IInv, Typed
  <2> QED
    BY <2>1, <2>2
<1> QED
  BY <1>1, <1>4, <1>5, CommitKept

(* A retraction deletes a message and frees no key. *)
LEMMA CommitRetractStep ==
  ASSUME NEW r \in Requests, IInv, CommitRetract(r) PROVE IInv'
<1> DEFINE m == work[r].call.msg
           row == [messages[m] EXCEPT !.deleted = TRUE]
<1>1. work[r].call \in Calls /\ work[r].call.op = "retract" /\ End(r) /\ messages[m] # None
  BY CommitsHolding DEF CommitRetract
<1>2. m \in MessageIds /\ messages[m] \in Messages
  BY <1>1, CallTypes DEF IInv, Typed
<1>3. row \in Messages
  BY <1>2 DEF Messages
<1>4. messages' = [messages EXCEPT ![m] = row] /\ UNCHANGED <<status, seats, archived>>
  BY <1>2 DEF CommitRetract, IInv, Typed
<1> HIDE DEF row
<1>5. DataTyped'
  BY <1>2, <1>3, <1>4 DEF IInv, Typed, DataTyped
<1>6. ASSUME NEW q \in Requests \ {r}, work[q].at \in {"sequence", "fanout"},
             work[q].call.op = "send"
      PROVE  messages'[<<work[q].call.by, work[q].call.key>>]
               = messages[<<work[q].call.by, work[q].call.key>>]
  <2>1. messages[<<work[q].call.by, work[q].call.key>>] = None /\ work[q].call \in Calls
    BY <1>6, SenderHolds DEF IInv, Session, SendKnows
  <2>2. <<work[q].call.by, work[q].call.key>> \in MessageIds
    BY <1>6, <2>1, CallTypes DEF MessageIds
  <2> QED
    BY <1>1, <1>2, <1>4, <2>1, <2>2 DEF IInv, Typed
<1>7. ASSUME NEW q \in Requests \ {r}, work[q].at # "idle", work[q].call.op = "retract"
      PROVE  messages'[work[q].call.msg] # None
  <2>1. messages[work[q].call.msg] # None /\ work[q].call.msg \in MessageIds
    BY <1>7, CallTypes DEF Located, IInv, Session, Staged
  <2> QED
    BY <1>2, <1>3, <1>4, <2>1 DEF IInv, Typed
<1>8. Respects(r)
  BY <1>4, <1>6, <1>7 DEF Respects
<1> QED
  BY <1>1, <1>5, <1>8, CommitKept

(* Reactions and cursors are no part of what a send knows. *)
LEMMA CommitAsideStep ==
  ASSUME NEW r \in Requests, IInv, CommitReaction(r) \/ CommitCursor(r) PROVE IInv'
<1>1. End(r) /\ UNCHANGED <<status, seats, archived, messages>>
  BY DEF CommitReaction, CommitCursor, Committing
<1>2. DataTyped'
  BY <1>1 DEF IInv, Typed, DataTyped
<1>3. Respects(r)
  BY <1>1 DEF Respects, IInv, Session, Located
<1> QED
  BY <1>1, <1>2, <1>3, CommitKept

(* Who holds a conversation keeps every send of that conversation waiting. *)
LEMMA ChannelsApart ==
  ASSUME NEW r \in Requests, IInv, NEW q \in Requests \ {r}, ChanLock(r) \in locks[r],
         work[q].at \in {"sequence", "fanout"}, work[q].call.op = "send"
  PROVE  work[q].call.chan # work[r].call.chan
<1>1. ChanLock(q) \in locks[q]
  BY SenderHolds
<1>2. <<"chan", work[q].call.chan>> # <<"chan", work[r].call.chan>>
  BY <1>1, Excluded DEF ChanLock, IInv
<1> QED
  BY <1>2

(* A seat changes only while no send of its channel is authorized. *)
LEMMA CommitMembershipStep ==
  ASSUME NEW r \in Requests, IInv, CommitMembership(r) PROVE IInv'
<1> DEFINE call == work[r].call
<1>1. PICK role \in {"none", "member", "owner"} :
        /\ seats' = [seats EXCEPT ![call.chan][call.who] = role]
        /\ call \in Calls /\ call.op \in {"seat", "remove"} /\ End(r)
        /\ ChanLock(r) \in locks[r]
  <2>1. CASE Committing(r, "seat")
    <3>1. call \in Calls /\ call.op = "seat" /\ End(r) /\ ChanLock(r) \in locks[r]
      BY <2>1, CommitsHolding
    <3>2. seats' = [seats EXCEPT ![call.chan][call.who] = call.role]
      BY <3>1 DEF CommitMembership, Committing, Does
    <3> QED
      BY <3>1, <3>2, CallTypes
  <2>2. CASE Committing(r, "remove")
    <3>1. call \in Calls /\ call.op = "remove" /\ End(r) /\ ChanLock(r) \in locks[r]
      BY <2>2, CommitsHolding
    <3>2. seats' = [seats EXCEPT ![call.chan][call.who] = "none"]
      BY <3>1 DEF CommitMembership, Committing, Does
    <3> QED
      BY <3>1, <3>2
  <2> QED
    BY <2>1, <2>2, SMTT(30) DEF CommitMembership
<1>2. UNCHANGED <<status, archived, messages>>
  BY DEF CommitMembership
<1>3. call.chan \in Channels /\ call.who \in Users
  BY <1>1, CallTypes
<1>4. DataTyped'
  BY <1>1, <1>2, <1>3 DEF IInv, Typed, DataTyped
<1>5. ASSUME NEW q \in Requests \ {r}, work[q].at \in {"sequence", "fanout"},
             work[q].call.op = "send"
      PROVE  seats'[work[q].call.chan][work[q].call.by]
               = seats[work[q].call.chan][work[q].call.by]
  <2>1. work[q].call.chan # call.chan
    BY <1>1, <1>5, ChannelsApart
  <2>2. work[q].call.chan \in Channels
    BY <1>5, SenderHolds, CallTypes
  <2> QED
    BY <1>1, <2>1, <2>2 DEF IInv, Typed
<1>6. Respects(r)
  BY <1>2, <1>5 DEF Respects, IInv, Session, Located
<1> QED
  BY <1>1, <1>4, <1>6, CommitKept, SMTT(30)

(* A channel is archived only while no send of it is authorized. *)
LEMMA CommitArchiveStep ==
  ASSUME NEW r \in Requests, IInv, CommitArchive(r) PROVE IInv'
<1> DEFINE c == work[r].call.chan
<1>1. /\ work[r].call \in Calls /\ work[r].call.op = "archive" /\ End(r)
      /\ ChanLock(r) \in locks[r]
  BY CommitsHolding DEF CommitArchive
<1>2. archived' = [archived EXCEPT ![c] = TRUE] /\ UNCHANGED <<status, seats, messages>>
  BY DEF CommitArchive
<1>3. DataTyped'
  BY <1>2 DEF IInv, Typed, DataTyped
<1>4. ASSUME NEW q \in Requests \ {r}, work[q].at \in {"sequence", "fanout"},
             work[q].call.op = "send"
      PROVE  archived'[work[q].call.chan] = archived[work[q].call.chan]
  <2>1. work[q].call.chan # c
    BY <1>1, <1>4, ChannelsApart
  <2>2. work[q].call.chan \in Channels
    BY <1>4, SenderHolds, CallTypes
  <2> QED
    BY <1>2, <2>1, <2>2 DEF IInv, Typed
<1>5. Respects(r)
  BY <1>2, <1>4 DEF Respects, IInv, Session, Located
<1> QED
  BY <1>1, <1>3, <1>5, CommitKept

(* A member is revoked only while no send of theirs is authorized. *)
LEMMA CommitDisableStep ==
  ASSUME NEW r \in Requests, IInv, CommitDisable(r) PROVE IInv'
<1> DEFINE who == work[r].call.who
<1>1. /\ work[r].call \in Calls /\ work[r].call.op = "disable" /\ End(r)
      /\ Member(who, "update") \in locks[r]
  BY CommitsHolding DEF CommitDisable
<1>2. status' = [status EXCEPT ![who] = "revoked"] /\ UNCHANGED <<seats, archived, messages>>
  BY DEF CommitDisable
<1>3. DataTyped'
  BY <1>2 DEF IInv, Typed, DataTyped
<1>4. ASSUME NEW q \in Requests \ {r}, work[q].at \in {"authorize", "sequence", "fanout"},
             work[q].call.op = "send"
      PROVE  status'[work[q].call.by] = status[work[q].call.by]
  <2>1. Member(work[q].call.by, "share") \in locks[q] /\ work[q].call.by \in Users
    BY <1>4, SenderHolds, CallTypes
  <2>2. work[q].call.by # who
    BY <1>1, <2>1, Excluded DEF IInv
  <2> QED
    BY <1>2, <2>1, <2>2 DEF IInv, Typed
<1>5. Respects(r)
  BY <1>2, <1>4 DEF Respects, IInv, Session, Located
<1> QED
  BY <1>1, <1>3, <1>5, CommitKept

-----------------------------------------------------------------------------
(* The invariant. *)
LEMMA InitIInv == Init => IInv
<1> SUFFICES ASSUME Init PROVE IInv
  OBVIOUS
<1>1. Idle \in WorkRecords
  BY DEF Idle, WorkRecords, Stages
<1>2. \A r \in Requests : work[r] = Idle /\ locks[r] = {}
  BY DEF Init
<1>3. Typed
  BY <1>1 DEF Init, Typed
<1>4. Exclusion
  BY <1>2 DEF Exclusion
<1>5. \A r \in Requests : Session(r)
  BY <1>2 DEF Idle, Session, Staged, SendHolds, ChangeHolds, SendKnows, Located
<1> QED
  BY <1>3, <1>4, <1>5 DEF IInv

(* Every step keeps it. *)
LEMMA NextIInv == IInv /\ [Next]_vars => IInv'
<1> SUFFICES ASSUME IInv, [Next]_vars PROVE IInv'
  OBVIOUS
<1>1. CASE UNCHANGED vars
  BY <1>1, ZenonT(40) DEF IInv, Typed, Exclusion, Session, Staged, SendHolds, ChangeHolds, SendKnows, Located,
              KeyLock, ChanLock, Visible, vars, data
<1>2. ASSUME NEW r \in Requests, Begin(r) \/ Step(r) \/ Rollback(r) PROVE IInv'
  <2>1. CASE Begin(r)
    BY <2>1, BeginStep, KeptIInv
  <2>2. CASE LockKey(r) \/ LockSender(r) \/ Authorize(r)
    BY <2>2, SendSteps, KeptIInv
  <2>3. CASE LockChannel(r) \/ LockPrincipal(r) \/ LockTarget(r) \/ LockWorkspace(r)
    BY <2>3, LockSteps, KeptIInv
  <2>4. CASE LockCursor(r) \/ CheckReference(r)
    BY <2>4, CursorSteps, KeptIInv
  <2>5. CASE AllocateForMessage(r) \/ AllocateForCursor(r)
    BY <2>5, AllocateSteps, KeptIInv
  <2>6. CASE \/ Retract(r) \/ AddReaction(r) \/ RemoveReaction(r)
             \/ UpsertChannelMember(r) \/ RemoveChannelMember(r)
             \/ ArchiveChannel(r) \/ DisableAgent(r)
    BY <2>6, ApplySteps, KeptIInv
  <2>7. CASE FanOut(r)
    BY <2>7, FanOutStep, KeptIInv
  <2>8. CASE CommitMessage(r)
    BY <2>8, CommitMessageStep
  <2>9. CASE CommitRetract(r)
    BY <2>9, CommitRetractStep
  <2>10. CASE CommitReaction(r) \/ CommitCursor(r)
    BY <2>10, CommitAsideStep
  <2>11. CASE CommitMembership(r)
    BY <2>11, CommitMembershipStep
  <2>12. CASE CommitArchive(r)
    BY <2>12, CommitArchiveStep
  <2>13. CASE CommitDisable(r)
    BY <2>13, CommitDisableStep
  <2>14. CASE Rollback(r)
    <3>1. Kept(r)
      BY <2>14, EndsIdle DEF Rollback, Kept, IInv
    <3> QED
      BY <3>1, KeptIInv
  <2> QED
    BY <1>2, <2>1, <2>2, <2>3, <2>4, <2>5, <2>6, <2>7, <2>8, <2>9, <2>10, <2>11, <2>12, <2>13,
       <2>14 DEF Step
<1> QED
  BY <1>1, <1>2 DEF Next, Finished

(* The lock discipline: what sessions hold and know at every stage. *)
THEOREM LockDiscipline == Spec => []IInv
BY InitIInv, NextIInv, PTL DEF Spec

(* A send that is authorized never meets a committed message of its author  *)
(* and key: sendMessage's advisory lock, whatever channels are named.       *)
THEOREM KeyStaysFreeHolds == Spec => []KeyStaysFree
<1>1. IInv => KeyStaysFree
  BY SMTT(30) DEF IInv, Session, SendKnows, KeyStaysFree, At, Does
<1> QED
  BY <1>1, LockDiscipline, PTL

(* A message commits only while its author has an active membership and a   *)
(* seat and the channel is open.                                           *)
LEMMA StepCommitsWhileAllowed ==
  ASSUME IInv, [Next]_vars, NEW m \in MessageIds, messages[m] = None, messages'[m] # None
  PROVE  /\ status[m[1]] = "active"
         /\ Visible(m[1], messages'[m].chan)
         /\ ~archived[messages'[m].chan]
<1>1. PICK r \in Requests : CommitMessage(r) \/ CommitRetract(r)
  BY ZenonT(40) DEF Next, Step, vars, data, Begin, Rollback, Finished, LockKey, LockChannel, LockSender, Authorize,
         LockPrincipal, LockTarget, LockWorkspace, LockCursor, CheckReference, AllocateForMessage,
         AllocateForCursor, Proceed, Retract, AddReaction, RemoveReaction, UpsertChannelMember,
         RemoveChannelMember, ArchiveChannel, DisableAgent, FanOut, CommitReaction,
         CommitMembership, CommitArchive, CommitDisable, CommitCursor
<1>2. CASE CommitRetract(r)
  <2>1. messages[work[r].call.msg] # None
    BY <1>2, CommitsHolding DEF CommitRetract
  <2> QED
    BY <1>2, <2>1 DEF CommitRetract, IInv, Typed
<1>3. CASE CommitMessage(r)
  <2> DEFINE call == work[r].call
             row == [chan |-> call.chan, deleted |-> FALSE,
                     cs |-> Cardinality(InChannel(call.chan)) + 1]
  <2>1. /\ status[call.by] = "active" /\ Visible(call.by, call.chan) /\ ~archived[call.chan]
        /\ call \in Calls /\ call.op = "send"
    BY <1>3, CommitsHolding DEF CommitMessage
  <2>2. messages' = [messages EXCEPT ![<<call.by, call.key>>] = row]
    BY <1>3 DEF CommitMessage
  <2>3. row.chan = call.chan
    OBVIOUS
  <2> HIDE DEF row
  <2>4. m = <<call.by, call.key>> /\ messages'[m] = row
    BY <2>2 DEF IInv, Typed
  <2> QED
    BY <2>1, <2>3, <2>4
<1> QED
  BY <1>1, <1>2, <1>3

(* Every message commits while its author is active and seated and the      *)
(* channel is open: what sendMessage reads under its locks cannot change    *)
(* before its COMMIT.                                                      *)
THEOREM CommitsWhileAllowedHolds == Spec => CommitsWhileAllowed
<1>1. IInv /\ [Next]_vars =>
        [\A m \in MessageIds :
           messages[m] = None /\ messages'[m] # None =>
             /\ status[m[1]] = "active"
             /\ Visible(m[1], messages'[m].chan)
             /\ ~archived[messages'[m].chan]]_vars
  BY StepCommitsWhileAllowed
<1> QED
  BY <1>1, LockDiscipline, PTL DEF Spec, CommitsWhileAllowed

-----------------------------------------------------------------------------
(***************************************************************************)
(* The log of the workspace tells the truth, for any number of sessions,    *)
(* users, channels, keys and calls.  On the lock discipline above stands a   *)
(* second invariant, Informed: what a session has read and decided is still  *)
(* so when it commits, because the rows it holds and the row that numbers    *)
(* the events keep the others away.  So every commit Writes one event whose  *)
(* audience, target and counts are those of the tables at its place in the   *)
(* log, and the third invariant, HistoryInv, says that the log and the       *)
(* tables tell the same.                                                    *)
(***************************************************************************)

(* What the sessions hold and know in order to write the log.              *)

Changes == {"retract", "react", "unreact", "seat", "remove", "archive"}
OnMessages == {"retract", "react", "unreact", "read"}
AtChannel == {"principal", "workspace", "apply", "fanout"}
AtCursor == {"chan_ref", "member_ref", "sequence", "event_ref", "fanout"}
AtSequence == {"apply", "event_ref", "fanout"}

RowLock(r) == Lock(<<"chan", ChanOf(work[r].call)>>, "update")
CursorLock(r) == Lock(<<"cursor", ChanOf(work[r].call), work[r].call.by>>, "update")

(* Whoever decides or writes holds the row that numbers the events. *)
Sequenced(r) ==
  work[r].at \in AtSequence =>
    \E mode \in {"update", "no_key_update"} : Lock(<<"workspace">>, mode) \in locks[r]

RowHolds(r) ==
  /\ work[r].at \in AtChannel /\ work[r].call.op \in Changes => RowLock(r) \in locks[r]
  /\ work[r].at \in AtCursor /\ work[r].call.op = "read" => CursorLock(r) \in locks[r]

(* What a session has read of the rows it holds. *)
RowKnows(r) ==
  LET call == work[r].call
  IN  /\ work[r].at # "idle" /\ call.op \in OnMessages => messages[call.msg] # None
      /\ work[r].at \in AtChannel /\ call.op \in {"react", "unreact", "seat", "remove"} =>
           ~archived[ChanOf(call)]
      /\ work[r].at \in AtChannel /\ call.op \in {"react", "unreact"} =>
           ~messages[call.msg].deleted
      /\ work[r].at \in AtCursor /\ call.op = "read" =>
           cursors[ChanOf(call)][call.by] < messages[call.msg].cs

(* What a session that has its place in the log has decided to write. *)
Decided(r) ==
  LET call == work[r].call
      audience == work[r].audience
  IN  work[r].at \in {"event_ref", "fanout"} =>
        /\ call.op \in {"send", "retract", "react", "unreact", "remove", "archive"} =>
             audience = Audience(ChanOf(call))
        /\ call.op = "seat" =>
             audience = Audience(call.chan) \cup {call.who} /\ status[call.who] = "active"
        /\ call.op = "disable" =>
             audience = {u \in Users \ {call.who} : status[u] = "active"}
        /\ call.op = "read" =>
             /\ audience = {call.by}
             /\ work[r].unread = Unread(call.by, ChanOf(call), messages[call.msg].cs)
        /\ call.op \in {"seat", "remove"} /\ seats[call.chan][call.who] = "owner" =>
             AnotherOwner(call.chan, call.who)
        /\ call.op = "retract" => ~messages[call.msg].deleted
        /\ call.op = "archive" => ~archived[call.chan]

Aware(r) == Sequenced(r) /\ RowHolds(r) /\ RowKnows(r) /\ Decided(r)

Informed == IInv /\ cursors \in [Channels -> [Users -> Nat]] /\ \A r \in Requests : Aware(r)

(* The place in the log belongs to one session at a time. *)
LEMMA OneInSequence ==
  ASSUME Informed, NEW r \in Requests, NEW q \in Requests,
         work[r].at \in AtSequence, work[q].at \in AtSequence
  PROVE  r = q
<1>1. PICK m \in {"update", "no_key_update"} : Lock(<<"workspace">>, m) \in locks[r]
  BY DEF Informed, Aware, Sequenced
<1>2. PICK n \in {"update", "no_key_update"} : Lock(<<"workspace">>, n) \in locks[q]
  BY DEF Informed, Aware, Sequenced
<1>3. Conflicts(m, n)
  BY DEF Conflicts
<1> QED
  BY <1>1, <1>2, <1>3 DEF Informed, IInv, Exclusion, Lock

(* A session that writes nothing leaves the others as they were. *)
LEMMA OthersAware ==
  ASSUME NEW r \in Requests, Informed, UNCHANGED data, Apart(r),
         NEW q \in Requests \ {r}
  PROVE  Aware(q)'
<1>1. UNCHANGED <<status, seats, archived, messages, cursors>> /\ work'[q] = work[q] /\ locks'[q] = locks[q]
  BY DEF data, Apart
<1>2. /\ ChanOf(work[q].call)' = ChanOf(work[q].call)
      /\ \A c : Audience(c)' = Audience(c)
      /\ \A u, c, n : Unread(u, c, n)' = Unread(u, c, n)
      /\ \A c, u : AnotherOwner(c, u)' = AnotherOwner(c, u)
  BY <1>1 DEF ChanOf, Audience, Visible, Unread, InChannel, AnotherOwner
<1>3. Sequenced(q)' /\ RowHolds(q)'
  BY <1>1, <1>2 DEF Informed, Aware, Sequenced, RowHolds, RowLock, CursorLock
<1>4. RowKnows(q)'
  BY <1>1, <1>2 DEF Informed, Aware, RowKnows
<1>5. Decided(q)'
  BY <1>1, <1>2 DEF Informed, Aware, Decided
<1> QED
  BY <1>3, <1>4, <1>5 DEF Aware

(* A session that ends knows nothing. *)
LEMMA IdleAware ==
  ASSUME NEW r \in Requests, work'[r] = Idle PROVE Aware(r)'
BY DEF Idle, Aware, Sequenced, RowHolds, RowKnows, Decided, AtSequence, AtChannel, AtCursor

(* The rest of the data does not move while a session locks and reads. *)
LEMMA SameReads ==
  ASSUME UNCHANGED data
  PROVE  /\ \A call : ChanOf(call)' = ChanOf(call)
         /\ \A c : Audience(c)' = Audience(c)
         /\ \A u, c, n : Unread(u, c, n)' = Unread(u, c, n)
         /\ \A c, u : AnotherOwner(c, u)' = AnotherOwner(c, u)
  BY DEF data, ChanOf, Audience, Visible, Unread, InChannel, AnotherOwner

LEMMA BeginAware ==
  ASSUME NEW r \in Requests, Informed, Begin(r) PROVE Aware(r)'
<1>1. PICK call \in Calls :
        /\ Found(call)
        /\ work' = [work EXCEPT ![r].at = FirstStage(call), ![r].call = call]
  BY DEF Begin
<1>2. work[r] \in WorkRecords
  BY DEF Informed, IInv, Typed
<1>3. work'[r].at = FirstStage(call) /\ work'[r].call = call
  BY <1>1, <1>2 DEF WorkRecords, Informed, IInv, Typed
<1>4. FirstStage(call) \in {"key", "cursor", "target", "chan"}
  BY DEF FirstStage
<1>5. call.op \in OnMessages => messages'[call.msg] # None
  BY <1>1 DEF Found, OnMessages, Begin, data
<1> QED
  BY <1>3, <1>4, <1>5 DEF Aware, Sequenced, RowHolds, RowKnows, Decided, AtSequence, AtChannel, AtCursor

(* A session goes on to its next lock. *)
LEMMA StageAware ==
  ASSUME NEW r \in Requests, Informed, UNCHANGED data, NEW stage \in Stages,
         work'[r].at = stage, work'[r].call = work[r].call, work[r].at # "idle",
         stage \notin {"event_ref", "fanout"},
         stage \in AtSequence =>
           \E mode \in {"update", "no_key_update"} : Lock(<<"workspace">>, mode) \in locks'[r],
         stage \in AtChannel /\ work[r].call.op \in Changes =>
           /\ RowLock(r) \in locks'[r]
           /\ work[r].call.op \in {"react", "unreact", "seat", "remove"} =>
                ~archived[ChanOf(work[r].call)]
           /\ work[r].call.op \in {"react", "unreact"} => ~messages[work[r].call.msg].deleted,
         stage \in AtCursor /\ work[r].call.op = "read" =>
           /\ CursorLock(r) \in locks'[r]
           /\ cursors[ChanOf(work[r].call)][work[r].call.by] < messages[work[r].call.msg].cs
  PROVE  Aware(r)'
<1>1. UNCHANGED <<status, seats, archived, messages, cursors>>
  BY DEF data
<1>2. RowLock(r)' = RowLock(r) /\ CursorLock(r)' = CursorLock(r)
      /\ ChanOf(work[r].call)' = ChanOf(work[r].call)
  BY <1>1 DEF RowLock, CursorLock, ChanOf
<1>3. Sequenced(r)' /\ RowHolds(r)' /\ Decided(r)'
  BY <1>1, <1>2 DEF Sequenced, RowHolds, Decided
<1>4. RowKnows(r)'
  BY <1>1, <1>2 DEF RowKnows, Informed, Aware, Changes
<1> QED
  BY <1>3, <1>4 DEF Aware

(* sendMessage knows its rows from LockDiscipline. *)
LEMMA SendAware ==
  ASSUME NEW r \in Requests, Informed, LockKey(r) \/ LockSender(r) \/ Authorize(r)
  PROVE  Aware(r)'
<1> USE DEF Informed, IInv, At
<1>1. CASE End(r)
  <2>1. work'[r] = Idle
    BY <1>1 DEF End, Typed
  <2> QED
    BY <2>1, IdleAware
<1>2. CASE ~End(r)
  <2>1. PICK stage \in {"chan", "authorize", "sequence"} : Goto(r, stage)
    BY <1>2 DEF LockKey, LockSender, Authorize
  <2>2. work[r].at \in {"key", "sender", "authorize"} /\ UNCHANGED data
    BY DEF LockKey, LockSender, Authorize
  <2>3. work[r].call.op = "send"
    BY <2>2, OpAt DEF Session
  <2>4. stage \in Stages
    BY DEF Stages, SendStages
  <2>5. work'[r].at = stage /\ work'[r].call = work[r].call
    BY <2>1, <2>4, Gone
  <2> HIDE DEF Informed, IInv
  <2> QED
    BY <2>1, <2>2, <2>3, <2>4, <2>5, StageAware DEF AtSequence, AtChannel, Changes
<1> QED
  BY <1>1, <1>2

LEMMA LockAware ==
  ASSUME NEW r \in Requests, Informed,
         LockChannel(r) \/ LockPrincipal(r) \/ LockTarget(r) \/ LockWorkspace(r)
  PROVE  Aware(r)'
<1> USE DEF At
<1>0. Typed /\ Session(r) /\ Aware(r)
  BY DEF Informed, IInv
<1>1. CASE End(r)
  <2>1. work'[r] = Idle
    BY <1>0, <1>1 DEF End, Typed
  <2> QED
    BY <2>1, IdleAware
<1>2. CASE LockChannel(r) /\ ~End(r)
  <2> DEFINE stage == IF Does(r, {"send"}) THEN "sender" ELSE "principal"
  <2>1. Take(r) /\ Goto(r, stage) /\ work[r].at = "chan" /\ UNCHANGED data
    BY <1>2 DEF LockChannel
  <2>2. stage \in Stages /\ Locking(r)
    BY <2>1 DEF Stages, SendStages, ChangeStages, Locking
  <2>3. work'[r].at = stage /\ work'[r].call = work[r].call /\ RowLock(r) \in locks'[r]
    <3>1. Wanted(r) = RowLock(r)
      BY <2>1 DEF Wanted, RowLock
    <3> QED
      BY <1>0, <2>1, <2>2, <3>1, Gone, Taken
  <2>4. /\ work[r].call.op \in {"react", "unreact", "seat", "remove"} =>
             ~archived[ChanOf(work[r].call)]
        /\ work[r].call.op \in {"react", "unreact"} => ~messages[work[r].call.msg].deleted
    BY <1>2 DEF LockChannel, Does
  <2>5. work[r].call.op # "read"
    BY <1>0, <2>1, OpAt DEF Session
  <2>6. stage \notin AtSequence \cup {"event_ref", "fanout", "idle"}
    BY DEF AtSequence
  <2> HIDE DEF stage
  <2> QED
    BY <2>1, <2>2, <2>3, <2>4, <2>5, <2>6, StageAware
<1>3. CASE (LockPrincipal(r) \/ LockTarget(r) \/ LockWorkspace(r)) /\ ~End(r)
  <2>1. PICK stage \in {"workspace", "apply"} :
          /\ Take(r) /\ Goto(r, stage) /\ UNCHANGED data
          /\ work[r].at \in {"principal", "target", "workspace"}
          /\ stage = "apply" => work[r].at = "workspace"
    BY <1>3 DEF LockPrincipal, LockTarget, LockWorkspace
  <2>2. stage \in Stages /\ Locking(r)
    BY <2>1 DEF Stages, ChangeStages, Locking
  <2>3. work'[r].at = stage /\ work'[r].call = work[r].call
        /\ locks'[r] = locks[r] \cup {Wanted(r)}
    BY <1>0, <2>1, <2>2, Gone, Taken
  <2>4. stage = "apply" => Lock(<<"workspace">>, "update") \in locks'[r]
    BY <2>1, <2>3 DEF Wanted
  <2>5. work[r].call.op # "read"
    BY <1>0, <2>1 DEF Session, Staged, ReadStages
  <2>6. work[r].at = "target" => work[r].call.op = "disable"
    BY <1>0, OpAt DEF Session
  <2>7. work[r].call.op \in Changes => work[r].at \in AtChannel
    BY <2>1, <2>6 DEF Changes, AtChannel
  <2>8. work[r].call.op \in Changes =>
          /\ RowLock(r) \in locks'[r]
          /\ work[r].call.op \in {"react", "unreact", "seat", "remove"} =>
                ~archived[ChanOf(work[r].call)]
          /\ work[r].call.op \in {"react", "unreact"} => ~messages[work[r].call.msg].deleted
    BY <1>0, <2>3, <2>7 DEF Aware, RowHolds, RowKnows
  <2>9. stage \notin {"event_ref", "fanout", "idle"} /\ work[r].at # "idle"
        /\ (stage \in AtSequence => stage = "apply")
    BY <2>1 DEF AtSequence
  <2> QED
    BY <2>1, <2>2, <2>3, <2>4, <2>5, <2>8, <2>9, StageAware
<1> QED
  BY <1>1, <1>2, <1>3

LEMMA CursorAware ==
  ASSUME NEW r \in Requests, Informed, LockCursor(r) \/ CheckReference(r)
  PROVE  Aware(r)'
<1> USE DEF At
<1>0. Typed /\ Session(r) /\ Aware(r)
  BY DEF Informed, IInv
<1>1. CASE End(r)
  <2>1. work'[r] = Idle
    BY <1>0, <1>1 DEF End, Typed
  <2> QED
    BY <2>1, IdleAware
<1>2. CASE LockCursor(r) /\ ~End(r)
  <2> DEFINE read == cursors[ChanOf(work[r].call)][work[r].call.by]
             stage == IF read = 0 THEN "chan_ref" ELSE "sequence"
  <2>1. Take(r) /\ Goto(r, stage) /\ work[r].at = "cursor" /\ UNCHANGED data
        /\ read < messages[work[r].call.msg].cs
    BY <1>2 DEF LockCursor
  <2>2. stage \in Stages /\ Locking(r) /\ stage \in {"chan_ref", "sequence"}
    BY <2>1 DEF Stages, ReadStages, Locking
  <2> HIDE DEF stage
  <2>3. work'[r].at = stage /\ work'[r].call = work[r].call /\ CursorLock(r) \in locks'[r]
    <3>1. Wanted(r) = CursorLock(r)
      BY <2>1 DEF Wanted, CursorLock
    <3> QED
      BY <1>0, <2>1, <2>2, <3>1, Gone, Taken
  <2>4. work[r].call.op = "read"
    BY <1>0, <2>1, OpAt DEF Session
  <2> QED
    BY <2>1, <2>2, <2>3, <2>4, StageAware DEF AtSequence, Changes
<1>3. CASE CheckReference(r) /\ work[r].at \in {"chan_ref", "member_ref"}
  <2>1. PICK stage \in {"member_ref", "sequence"} : Goto(r, stage)
    BY <1>3 DEF CheckReference
  <2>2. Take(r) /\ UNCHANGED data
    BY <1>3 DEF CheckReference
  <2>3. stage \in Stages
    BY DEF Stages, ReadStages
  <2>4. work'[r].at = stage /\ work'[r].call = work[r].call
        /\ locks'[r] = locks[r] \cup {Wanted(r)}
    BY <1>0, <2>1, <2>2, <2>3, Gone, Taken
  <2>5. work[r].call.op = "read"
    BY <1>0, <1>3, OpAt DEF Session
  <2>6. CursorLock(r) \in locks'[r]
        /\ cursors[ChanOf(work[r].call)][work[r].call.by] < messages[work[r].call.msg].cs
    BY <1>0, <1>3, <2>4, <2>5 DEF Aware, RowHolds, RowKnows, AtCursor
  <2> QED
    BY <1>3, <2>1, <2>2, <2>3, <2>4, <2>5, <2>6, StageAware DEF AtSequence, Changes
<1>4. CASE CheckReference(r) /\ work[r].at = "event_ref"
  <2>1. Goto(r, "fanout") /\ Take(r) /\ UNCHANGED data /\ "fanout" \in Stages
    BY <1>4 DEF CheckReference, Stages, ReadStages
  <2>2. /\ work'[r].at = "fanout" /\ work'[r].call = work[r].call
        /\ work'[r].audience = work[r].audience /\ work'[r].unread = work[r].unread
        /\ locks'[r] = locks[r] \cup {Wanted(r)}
    BY <1>0, <2>1, Gone, Taken
  <2>3. work[r].call.op = "read"
    BY <1>0, <1>4, OpAt DEF Session
  <2>4. UNCHANGED <<status, seats, archived, messages, cursors>>
    BY <2>1 DEF data
  <2>5. ChanOf(work[r].call)' = ChanOf(work[r].call)
        /\ \A u, c, n : Unread(u, c, n)' = Unread(u, c, n)
    BY <2>2, <2>4 DEF ChanOf, Unread, InChannel
  <2>6. Sequenced(r)' /\ RowHolds(r)'
    BY <1>0, <1>4, <2>2, <2>3, <2>5
       DEF Aware, Sequenced, RowHolds, AtSequence, AtCursor, CursorLock, Changes
  <2>7. RowKnows(r)'
    BY <1>0, <1>4, <2>2, <2>3, <2>4, <2>5 DEF Aware, RowKnows, AtCursor
  <2>8. Decided(r)'
    BY <1>0, <1>4, <2>2, <2>3, <2>4, <2>5 DEF Aware, Decided
  <2> QED
    BY <2>6, <2>7, <2>8 DEF Aware
<1> QED
  BY <1>1, <1>2, <1>3, <1>4 DEF CheckReference

(* Publishing writes down what the statements before it have read. *)
LEMMA PublishAware ==
  ASSUME NEW r \in Requests, Informed, UNCHANGED data, work[r].at \in {"sequence", "apply"},
         NEW audience \in SUBSET Users, NEW unread \in Nat, Publish(r, audience, unread),
         locks[r] \subseteq locks'[r],
         \E mode \in {"update", "no_key_update"} : Lock(<<"workspace">>, mode) \in locks'[r],
         LET call == work[r].call
         IN  /\ call.op \in {"send", "retract", "react", "unreact", "remove", "archive"} =>
                  audience = Audience(ChanOf(call))
             /\ call.op = "seat" =>
                  audience = Audience(call.chan) \cup {call.who} /\ status[call.who] = "active"
             /\ call.op = "disable" =>
                  audience = {u \in Users \ {call.who} : status[u] = "active"}
             /\ call.op = "read" =>
                  /\ audience = {call.by}
                  /\ unread = Unread(call.by, ChanOf(call), messages[call.msg].cs)
             /\ call.op \in {"seat", "remove"} /\ seats[call.chan][call.who] = "owner" =>
                  AnotherOwner(call.chan, call.who)
             /\ call.op = "retract" => ~messages[call.msg].deleted
             /\ call.op = "archive" => ~archived[call.chan]
  PROVE  Aware(r)'
<1>0. Typed /\ Session(r) /\ Aware(r)
  BY DEF Informed, IInv
<1>1. work[r].call \in Calls
  BY <1>0 DEF Session, Staged
<1>2. /\ work'[r].at = IF work[r].call.op = "read" THEN "event_ref" ELSE "fanout"
      /\ work'[r].call = work[r].call
      /\ work'[r].audience = audience /\ work'[r].unread = unread
  BY <1>0, <1>1, Published
<1>3. UNCHANGED <<status, seats, archived, messages, cursors>>
  BY SMTT(30) DEF data
<1>4. /\ ChanOf(work[r].call)' = ChanOf(work[r].call)
      /\ RowLock(r)' = RowLock(r) /\ CursorLock(r)' = CursorLock(r)
      /\ \A c : Audience(c)' = Audience(c)
      /\ \A u, c, n : Unread(u, c, n)' = Unread(u, c, n)
      /\ \A c, u : AnotherOwner(c, u)' = AnotherOwner(c, u)
  BY <1>2, <1>3 DEF ChanOf, RowLock, CursorLock, Audience, Visible, Unread, InChannel, AnotherOwner
<1>5. /\ work[r].at = "sequence" => work[r].call.op \in {"send", "read"}
      /\ work[r].at = "apply" => work[r].call.op \notin {"send", "read"}
  BY <1>0, OpAt DEF Session
<1>6. Sequenced(r)'
  BY DEF Sequenced
<1>7. RowHolds(r)'
  BY <1>0, <1>2, <1>4, <1>5 DEF Aware, RowHolds, AtChannel, AtCursor, Changes
<1>8. RowKnows(r)'
  BY <1>0, <1>2, <1>3, <1>4, <1>5 DEF Aware, RowKnows, AtChannel, AtCursor
<1>9. Decided(r)'
  BY <1>2, <1>3, <1>4 DEF Decided
<1> QED
  BY <1>6, <1>7, <1>8, <1>9 DEF Aware

LEMMA AllocateAware ==
  ASSUME NEW r \in Requests, Informed, AllocateForMessage(r) \/ AllocateForCursor(r)
  PROVE  Aware(r)'
<1> USE DEF At, Does
<1>0. Typed /\ Session(r)
  BY DEF Informed, IInv
<1>1. work[r].at = "sequence" /\ Take(r) /\ UNCHANGED data
  BY DEF AllocateForMessage, AllocateForCursor
<1>2. work[r].call \in Calls
  BY <1>0, <1>1 DEF Session, Staged
<1>3. /\ locks[r] \subseteq locks'[r]
      /\ \E mode \in {"update", "no_key_update"} : Lock(<<"workspace">>, mode) \in locks'[r]
  <2>1. Wanted(r) = Lock(<<"workspace">>, "no_key_update")
    BY <1>1 DEF Wanted
  <2> QED
    BY <1>0, <1>1, <2>1, Taken
<1>4. CASE AllocateForMessage(r)
  <2>1. Audience(work[r].call.chan) \in SUBSET Users /\ 0 \in Nat
    BY DEF Audience
  <2>2. work[r].call.op = "send" /\ Publish(r, Audience(work[r].call.chan), 0)
    BY <1>4 DEF AllocateForMessage
  <2>3. ChanOf(work[r].call) = work[r].call.chan
    BY <2>2, SMTT(30) DEF ChanOf
  <2> QED
    BY <1>1, <1>3, <2>1, <2>2, <2>3, PublishAware
<1>5. CASE AllocateForCursor(r)
  <2> DEFINE unread == Unread(work[r].call.by, ChanOf(work[r].call), messages[work[r].call.msg].cs)
  <2>1. work[r].call.op = "read" /\ Publish(r, {work[r].call.by}, unread)
    BY <1>5 DEF AllocateForCursor
  <2>2. unread \in Nat /\ {work[r].call.by} \in SUBSET Users
    BY <1>2, UnreadIsNat, CallTypes
  <2> QED
    BY <1>1, <1>3, <2>1, <2>2, PublishAware
<1> QED
  BY <1>4, <1>5

(* A mutation decides with its place in the log taken. *)
LEMMA ProceedAware ==
  ASSUME NEW r \in Requests, Informed, NEW op, NEW changes, NEW audience \in SUBSET Users,
         Proceed(r, op, changes, audience), op \notin {"send", "read"},
         LET call == work[r].call
         IN  changes =>
             /\ op \in {"retract", "react", "unreact", "remove", "archive"} =>
                  audience = Audience(ChanOf(call))
             /\ op = "seat" =>
                  audience = Audience(call.chan) \cup {call.who} /\ status[call.who] = "active"
             /\ op = "disable" =>
                  audience = {u \in Users \ {call.who} : status[u] = "active"}
             /\ op \in {"seat", "remove"} /\ seats[call.chan][call.who] = "owner" =>
                  AnotherOwner(call.chan, call.who)
             /\ op = "retract" => ~messages[call.msg].deleted
             /\ op = "archive" => ~archived[call.chan]
  PROVE  Aware(r)'
<1>0. Typed /\ Aware(r)
  BY DEF Informed, IInv
<1>1. CASE End(r)
  <2>1. work'[r] = Idle
    BY <1>0, <1>1 DEF End, Typed
  <2> QED
    BY <2>1, IdleAware
<1>2. CASE ~End(r)
  <2>1. /\ changes /\ Publish(r, audience, 0) /\ locks' = locks /\ UNCHANGED data
        /\ work[r].at = "apply" /\ work[r].call.op = op /\ 0 \in Nat
    BY <1>2 DEF Proceed, At, Does
  <2>2. \E mode \in {"update", "no_key_update"} : Lock(<<"workspace">>, mode) \in locks'[r]
    BY <1>0, <2>1 DEF Aware, Sequenced, AtSequence
  <2> QED
    BY <2>1, <2>2, PublishAware
<1> QED
  BY <1>1, <1>2

LEMMA ApplyAware ==
  ASSUME NEW r \in Requests, Informed,
         \/ Retract(r) \/ AddReaction(r) \/ RemoveReaction(r)
         \/ UpsertChannelMember(r) \/ RemoveChannelMember(r)
         \/ ArchiveChannel(r) \/ DisableAgent(r)
  PROVE  Aware(r)'
<1>1. work[r].at = "apply" /\ work[r].call \in Calls
  BY DEF Informed, IInv, Session, Staged, At, Proceed, Retract, AddReaction, RemoveReaction,
         UpsertChannelMember, RemoveChannelMember, ArchiveChannel, DisableAgent
<1>2. \A c : Audience(c) \in SUBSET Users
  BY DEF Audience
<1>3. CASE Retract(r)
  <2>1. Audience(ChanOf(work[r].call)) \in SUBSET Users
    BY <1>2
  <2> DEFINE changes == /\ work[r].call.by = work[r].call.msg[1]
                        /\ ~messages[work[r].call.msg].deleted
  <2>2. Proceed(r, "retract", changes, Audience(ChanOf(work[r].call)))
    BY <1>3 DEF Retract
  <2>3. changes => ~messages[work[r].call.msg].deleted
    OBVIOUS
  <2> HIDE DEF changes
  <2> QED
    BY <2>1, <2>2, <2>3, ProceedAware
<1>4. CASE AddReaction(r) \/ RemoveReaction(r)
  <2>1. Audience(ChanOf(work[r].call)) \in SUBSET Users
    BY <1>2
  <2> QED
    BY <1>4, <2>1, ProceedAware DEF AddReaction, RemoveReaction
<1>5. CASE UpsertChannelMember(r)
  <2>1. work[r].call.op = "seat"
    BY <1>5 DEF UpsertChannelMember, Proceed, Does
  <2>2. Audience(work[r].call.chan) \cup {work[r].call.who} \in SUBSET Users
    BY <1>1, <1>2, <2>1, CallTypes, SMTT(30)
  <2> DEFINE call == work[r].call
             seat == seats[call.chan]
             changes == /\ seat[call.by] = "owner"
                        /\ status[call.who] = "active"
                        /\ seat[call.who] # call.role
                        /\ seat[call.who] = "owner" => AnotherOwner(call.chan, call.who)
  <2>3. Proceed(r, "seat", changes, Audience(call.chan) \cup {call.who})
    BY <1>5 DEF UpsertChannelMember
  <2>4. changes => /\ status[call.who] = "active"
                   /\ seats[call.chan][call.who] = "owner" => AnotherOwner(call.chan, call.who)
    OBVIOUS
  <2> HIDE DEF changes
  <2> QED
    BY <2>2, <2>3, <2>4, ProceedAware
<1>6. CASE RemoveChannelMember(r) \/ ArchiveChannel(r)
  <2>1. Audience(work[r].call.chan) \in SUBSET Users
    BY <1>2
  <2>2. ChanOf(work[r].call) = work[r].call.chan
    BY <1>6 DEF RemoveChannelMember, ArchiveChannel, Proceed, Does, ChanOf
  <2>3. CASE RemoveChannelMember(r)
    <3> DEFINE call == work[r].call
               seat == seats[call.chan]
               changes == /\ seat[call.by] = "owner"
                          /\ seat[call.who] # "none"
                          /\ seat[call.who] = "owner" => AnotherOwner(call.chan, call.who)
    <3>1. Proceed(r, "remove", changes, Audience(call.chan))
      BY <2>3 DEF RemoveChannelMember
    <3>2. changes => (seats[call.chan][call.who] = "owner" => AnotherOwner(call.chan, call.who))
      OBVIOUS
    <3> HIDE DEF changes
    <3> QED
      BY <2>1, <2>2, <3>1, <3>2, ProceedAware, SMTT(30)
  <2>4. CASE ArchiveChannel(r)
    <3> DEFINE changes == work[r].call.by = Owner /\ ~archived[work[r].call.chan]
    <3>1. Proceed(r, "archive", changes, Audience(work[r].call.chan))
      BY <2>4 DEF ArchiveChannel
    <3>2. changes => ~archived[work[r].call.chan]
      OBVIOUS
    <3> HIDE DEF changes
    <3> QED
      BY <2>1, <2>2, <3>1, <3>2, ProceedAware
  <2> QED
    BY <1>6, <2>3, <2>4
<1>7. CASE DisableAgent(r)
  BY <1>7, ProceedAware DEF DisableAgent
<1> QED
  BY <1>3, <1>4, <1>5, <1>6, <1>7, SMTT(30)

LEMMA FanOutAware ==
  ASSUME NEW r \in Requests, Informed, FanOut(r) PROVE Aware(r)'
<1>0. Typed /\ Aware(r) /\ work[r] \in WorkRecords
  BY DEF Informed, IInv, Typed
<1>1. work[r].at = "fanout" /\ Take(r) /\ UNCHANGED data
  BY DEF FanOut, At
<1> DEFINE refs == work[r].refs \ {Wanted(r).row[2]}
           w == [work[r] EXCEPT !.refs = refs]
<1>2. /\ w.at = work[r].at /\ w.call = work[r].call /\ w.audience = work[r].audience
      /\ w.unread = work[r].unread
  <2> HIDE DEF refs
  <2> QED
    BY <1>0 DEF WorkRecords
<1>3. work' = [work EXCEPT ![r] = w]
  BY DEF FanOut, Typed
<1> HIDE DEF w
<1>4. /\ work'[r].at = "fanout" /\ work'[r].call = work[r].call
      /\ work'[r].audience = work[r].audience /\ work'[r].unread = work[r].unread
  BY <1>0, <1>1, <1>2, <1>3 DEF Typed
<1>5. locks[r] \subseteq locks'[r]
  BY <1>0, <1>1, Taken
<1>6. UNCHANGED <<status, seats, archived, messages, cursors>>
  BY <1>1 DEF data
<1>7. /\ ChanOf(work[r].call)' = ChanOf(work[r].call)
      /\ RowLock(r)' = RowLock(r) /\ CursorLock(r)' = CursorLock(r)
      /\ \A c : Audience(c)' = Audience(c)
      /\ \A u, c, n : Unread(u, c, n)' = Unread(u, c, n)
      /\ \A c, u : AnotherOwner(c, u)' = AnotherOwner(c, u)
  BY <1>4, <1>6 DEF ChanOf, RowLock, CursorLock, Audience, Visible, Unread, InChannel, AnotherOwner
<1>8. Sequenced(r)' /\ RowHolds(r)'
  BY <1>0, <1>1, <1>4, <1>5, <1>7 DEF Aware, Sequenced, RowHolds
<1>9. RowKnows(r)'
  BY <1>0, <1>1, <1>4, <1>6, <1>7 DEF Aware, RowKnows
<1>10. Decided(r)'
  BY <1>0, <1>1, <1>4, <1>6, <1>7 DEF Aware, Decided
<1> QED
  BY <1>8, <1>9, <1>10 DEF Aware

(* What a commit could take from the sessions that still wait for their place. *)
RespectsRows(r) ==
  \A q \in Requests \ {r} :
    LET call == work[q].call
        m == call.msg
    IN  /\ work[q].at # "idle" /\ call.op \in OnMessages =>
             /\ messages'[m] # None
             /\ messages'[m].chan = messages[m].chan
             /\ messages'[m].cs = messages[m].cs
        /\ work[q].at \in AtChannel /\ call.op \in {"react", "unreact", "seat", "remove"} =>
             archived'[ChanOf(call)] = archived[ChanOf(call)]
        /\ work[q].at \in AtChannel /\ call.op \in {"react", "unreact"} =>
             messages'[m].deleted = messages[m].deleted
        /\ work[q].at \in AtCursor /\ call.op = "read" =>
             cursors'[ChanOf(call)][call.by] = cursors[ChanOf(call)][call.by]

LEMMA CommitAware ==
  ASSUME NEW r \in Requests, Informed, work[r].at = "fanout", End(r), RespectsRows(r)
  PROVE  \A q \in Requests : Aware(q)'
<1>1. work'[r] = Idle /\ Apart(r)
  BY EndsIdle DEF End, Informed, IInv, Typed
<1>2. Aware(r)'
  BY <1>1, IdleAware
<1>3. ASSUME NEW q \in Requests \ {r} PROVE Aware(q)'
  <2>1. work'[q] = work[q] /\ locks'[q] = locks[q] /\ Aware(q)
    BY <1>1 DEF Apart, Informed
  <2>2. work[q].at \notin AtSequence
    BY OneInSequence DEF AtSequence
  <2>3. work[q].at # "idle" => ChanOf(work[q].call)' = ChanOf(work[q].call)
    BY <2>1 DEF ChanOf, RespectsRows, OnMessages
  <2>4. Sequenced(q)' /\ Decided(q)'
    BY <2>1, <2>2 DEF Sequenced, Decided, AtSequence
  <2>5. RowHolds(q)'
    BY <2>1, <2>3 DEF Aware, RowHolds, RowLock, CursorLock, AtChannel, AtCursor
  <2>6. RowKnows(q)'
    BY <2>1, <2>3 DEF Aware, RowKnows, RespectsRows, AtChannel, AtCursor, OnMessages
  <2> QED
    BY <2>4, <2>5, <2>6 DEF Aware
<1> QED
  BY <1>2, <1>3

(* The messages that are named exist. *)
LEMMA NamedExist ==
  ASSUME Informed, NEW q \in Requests, work[q].at # "idle", work[q].call.op \in OnMessages
  PROVE  /\ work[q].call \in Calls /\ work[q].call.msg \in MessageIds
         /\ messages[work[q].call.msg] \in Messages
<1>1. work[q].call \in Calls /\ messages[work[q].call.msg] # None
  BY DEF Informed, Aware, RowKnows, IInv, Session, Staged
<1>2. work[q].call.msg \in MessageIds
  BY <1>1, CallTypes DEF OnMessages
<1> QED
  BY <1>1, <1>2 DEF Informed, IInv, Typed

(* Two sessions that hold rows of a kind hold different ones. *)
LEMMA RowsApart ==
  ASSUME Informed, NEW r \in Requests, NEW q \in Requests, r # q
  PROVE  /\ /\ work[r].at \in AtChannel /\ work[r].call.op \in Changes
            /\ work[q].at \in AtChannel /\ work[q].call.op \in Changes
            => ChanOf(work[r].call) # ChanOf(work[q].call)
         /\ /\ work[r].at \in AtCursor /\ work[r].call.op = "read"
            /\ work[q].at \in AtCursor /\ work[q].call.op = "read"
            => \/ ChanOf(work[r].call) # ChanOf(work[q].call)
               \/ work[r].call.by # work[q].call.by
<1>1. \A a, b : ~(Lock(a, "update") \in locks[r] /\ Lock(b, "update") \in locks[q] /\ a = b)
  BY Excluded DEF Informed, IInv
<1>2. Aware(r) /\ Aware(q)
  BY DEF Informed
<1> QED
  BY <1>1, <1>2 DEF Aware, RowHolds, RowLock, CursorLock

LEMMA CommitMessageAware ==
  ASSUME NEW r \in Requests, Informed, CommitMessage(r)
  PROVE  RespectsRows(r) /\ cursors' \in [Channels -> [Users -> Nat]]
<1>1. /\ \E row : messages' = [messages EXCEPT ![<<work[r].call.by, work[r].call.key>>] = row]
      /\ messages[<<work[r].call.by, work[r].call.key>>] = None
      /\ UNCHANGED <<archived, cursors>>
  BY DEF CommitMessage
<1>2. \A m \in MessageIds : messages[m] # None => messages'[m] = messages[m]
  BY <1>1 DEF Informed, IInv, Typed
<1>3. ASSUME NEW q \in Requests \ {r}, work[q].at # "idle", work[q].call.op \in OnMessages
      PROVE  messages'[work[q].call.msg] = messages[work[q].call.msg]
             /\ messages'[work[q].call.msg] # None
  BY <1>2, <1>3, NamedExist DEF Informed, Aware, RowKnows
<1> QED
  BY <1>1, <1>3 DEF RespectsRows, AtChannel, OnMessages, Informed

LEMMA CommitRetractAware ==
  ASSUME NEW r \in Requests, Informed, CommitRetract(r)
  PROVE  RespectsRows(r) /\ cursors' \in [Channels -> [Users -> Nat]]
<1> DEFINE m == work[r].call.msg
           row == [messages[m] EXCEPT !.deleted = TRUE]
<1>1. work[r].at = "fanout" /\ work[r].call.op = "retract"
      /\ messages' = [messages EXCEPT ![m].deleted = TRUE] /\ UNCHANGED <<archived, cursors>>
  BY DEF CommitRetract, Committing, At, Does
<1>2. m \in MessageIds /\ messages[m] \in Messages
  BY <1>1, NamedExist DEF OnMessages
<1>3. row \in Messages /\ row.chan = messages[m].chan /\ row.cs = messages[m].cs
  BY <1>2 DEF Messages
<1>4. messages' = [messages EXCEPT ![m] = row]
  BY <1>1, <1>2 DEF Informed, IInv, Typed
<1> HIDE DEF row
<1>5. \A n \in MessageIds : messages[n] # None =>
        /\ messages'[n] # None /\ messages'[n].chan = messages[n].chan
        /\ messages'[n].cs = messages[n].cs /\ (n # m => messages'[n] = messages[n])
  <2>1. messages'[m] = row /\ \A n \in MessageIds \ {m} : messages'[n] = messages[n]
    BY <1>2, <1>4 DEF Informed, IInv, Typed
  <2>2. row # None
    BY <1>3
  <2> QED
    BY <1>3, <2>1, <2>2
<1>6. ASSUME NEW q \in Requests \ {r}, work[q].at # "idle", work[q].call.op \in OnMessages
      PROVE  /\ messages'[work[q].call.msg] # None
             /\ messages'[work[q].call.msg].chan = messages[work[q].call.msg].chan
             /\ messages'[work[q].call.msg].cs = messages[work[q].call.msg].cs
  BY <1>5, <1>6, NamedExist DEF Informed, Aware, RowKnows
<1>7. ASSUME NEW q \in Requests \ {r}, work[q].at \in AtChannel, work[q].call.op \in {"react", "unreact"}
      PROVE  messages'[work[q].call.msg].deleted = messages[work[q].call.msg].deleted
  <2>1. ChanOf(work[q].call) # ChanOf(work[r].call)
    BY <1>1, <1>7, RowsApart DEF AtChannel, Changes
  <2>2. work[q].call.msg # m
    BY <1>1, <1>7, <2>1 DEF ChanOf
  <2>3. work[q].call.msg \in MessageIds /\ messages[work[q].call.msg] # None
    BY <1>7, NamedExist DEF Informed, Aware, RowKnows, AtChannel, OnMessages
  <2> QED
    BY <1>5, <2>2, <2>3
<1> QED
  BY <1>1, <1>6, <1>7 DEF RespectsRows, Informed

LEMMA CommitArchiveAware ==
  ASSUME NEW r \in Requests, Informed, CommitArchive(r)
  PROVE  RespectsRows(r) /\ cursors' \in [Channels -> [Users -> Nat]]
<1>1. work[r].at = "fanout" /\ work[r].call.op = "archive"
      /\ archived' = [archived EXCEPT ![work[r].call.chan] = TRUE] /\ UNCHANGED <<messages, cursors>>
  BY DEF CommitArchive, Committing, At, Does
<1>2. ChanOf(work[r].call) = work[r].call.chan
  BY <1>1 DEF ChanOf
<1>3. ASSUME NEW q \in Requests \ {r}, work[q].at \in AtChannel,
             work[q].call.op \in {"react", "unreact", "seat", "remove"}
      PROVE  archived'[ChanOf(work[q].call)] = archived[ChanOf(work[q].call)]
  <2>1. ChanOf(work[q].call) # work[r].call.chan
    BY <1>1, <1>2, <1>3, RowsApart DEF AtChannel, Changes
  <2> QED
    BY <1>1, <2>1 DEF Informed, IInv, Typed
<1>4. \A q \in Requests : work[q].at # "idle" /\ work[q].call.op \in OnMessages =>
        messages[work[q].call.msg] # None
  BY SMTT(30) DEF Informed, Aware, RowKnows
<1> QED
  BY <1>1, <1>3, <1>4 DEF RespectsRows, Informed

LEMMA CommitCursorAware ==
  ASSUME NEW r \in Requests, Informed, CommitCursor(r)
  PROVE  RespectsRows(r) /\ cursors' \in [Channels -> [Users -> Nat]]
<1> DEFINE call == work[r].call
           c == messages[call.msg].chan
<1>1. /\ work[r].at = "fanout" /\ call.op = "read" /\ UNCHANGED <<messages, archived>>
      /\ cursors' = [cursors EXCEPT ![c][call.by] = messages[call.msg].cs]
  BY SMTT(30) DEF CommitCursor, Committing, At, Does
<1>2. ChanOf(call) = c
  BY <1>1, SMTT(30) DEF ChanOf
<1>3. call \in Calls /\ messages[call.msg] \in Messages
  BY <1>1, NamedExist DEF OnMessages
<1>4. c \in Channels /\ messages[call.msg].cs \in Nat /\ call.by \in Users
  BY <1>3, CallTypes, SMTT(30) DEF Messages
<1>5. cursors' \in [Channels -> [Users -> Nat]]
  BY <1>1, <1>4, ZenonT(40) DEF Informed
<1>6. ASSUME NEW q \in Requests \ {r}, work[q].at \in AtCursor, work[q].call.op = "read"
      PROVE  cursors'[ChanOf(work[q].call)][work[q].call.by]
               = cursors[ChanOf(work[q].call)][work[q].call.by]
  <2>1. ChanOf(work[q].call) # c \/ work[q].call.by # call.by
    BY <1>1, <1>2, <1>6, RowsApart DEF AtCursor
  <2>2. work[q].call \in Calls /\ messages[work[q].call.msg] \in Messages
    BY <1>6, NamedExist DEF AtCursor, OnMessages
  <2>3. ChanOf(work[q].call) \in Channels /\ work[q].call.by \in Users
    BY <1>6, <2>2, CallTypes DEF ChanOf, Messages
  <2> QED
    BY <1>1, <1>4, <2>1, <2>3 DEF Informed
<1>7. \A q \in Requests : work[q].at # "idle" /\ work[q].call.op \in OnMessages =>
        messages[work[q].call.msg] # None
  BY SMTT(30) DEF Informed, Aware, RowKnows
<1>8. messages' = messages /\ archived' = archived
  BY <1>1
<1> HIDE DEF call, c
<1>9. RespectsRows(r)
  BY <1>6, <1>7, <1>8 DEF RespectsRows
<1> QED
  BY <1>5, <1>9

LEMMA CommitOtherAware ==
  ASSUME NEW r \in Requests, Informed, CommitReaction(r) \/ CommitMembership(r) \/ CommitDisable(r)
  PROVE  RespectsRows(r) /\ cursors' \in [Channels -> [Users -> Nat]]
<1>1. UNCHANGED <<messages, archived, cursors>>
  BY DEF CommitReaction, CommitMembership, CommitDisable
<1>2. \A q \in Requests : work[q].at # "idle" /\ work[q].call.op \in OnMessages =>
        messages[work[q].call.msg] # None
  BY DEF Informed, Aware, RowKnows
<1> QED
  BY <1>1, <1>2, SMTT(30) DEF RespectsRows, Informed

Commits(r) ==
  \/ CommitMessage(r) \/ CommitRetract(r) \/ CommitReaction(r) \/ CommitMembership(r)
  \/ CommitArchive(r) \/ CommitDisable(r) \/ CommitCursor(r)

Prepares(r) ==
  \/ LockKey(r) \/ LockSender(r) \/ Authorize(r)
  \/ LockChannel(r) \/ LockPrincipal(r) \/ LockTarget(r) \/ LockWorkspace(r)
  \/ LockCursor(r) \/ CheckReference(r)
  \/ AllocateForMessage(r) \/ AllocateForCursor(r)
  \/ Retract(r) \/ AddReaction(r) \/ RemoveReaction(r)
  \/ UpsertChannelMember(r) \/ RemoveChannelMember(r)
  \/ ArchiveChannel(r) \/ DisableAgent(r)
  \/ FanOut(r)

LEMMA StepsSplit == ASSUME NEW r PROVE Step(r) <=> Prepares(r) \/ Commits(r)
  BY SMTT(30) DEF Step, Prepares, Commits

LEMMA CommitsEnd ==
  ASSUME NEW r \in Requests, Commits(r)
  PROVE  work[r].at = "fanout" /\ End(r) /\ work[r].refs = {} /\ UNCHANGED calls
  BY DEF Commits, CommitMessage, CommitRetract, CommitReaction, CommitMembership, CommitArchive,
         CommitDisable, CommitCursor, Committing, At

LEMMA PreparesKeep ==
  ASSUME NEW r \in Requests, IInv, Prepares(r)
  PROVE  Kept(r) /\ UNCHANGED calls
<1>1. UNCHANGED calls
  BY DEF Prepares, LockKey, LockSender, Authorize, LockChannel, LockPrincipal, LockTarget,
         LockWorkspace, LockCursor, CheckReference, AllocateForMessage, AllocateForCursor, Retract,
         AddReaction, RemoveReaction, UpsertChannelMember, RemoveChannelMember, ArchiveChannel,
         DisableAgent, FanOut, Proceed
<1>2. CASE LockKey(r) \/ LockSender(r) \/ Authorize(r)
  BY <1>1, <1>2, SendSteps
<1>3. CASE LockChannel(r) \/ LockPrincipal(r) \/ LockTarget(r) \/ LockWorkspace(r)
  BY <1>1, <1>3, LockSteps
<1>4. CASE LockCursor(r) \/ CheckReference(r)
  BY <1>1, <1>4, CursorSteps
<1>5. CASE AllocateForMessage(r) \/ AllocateForCursor(r)
  BY <1>1, <1>5, AllocateSteps
<1>6. CASE \/ Retract(r) \/ AddReaction(r) \/ RemoveReaction(r)
           \/ UpsertChannelMember(r) \/ RemoveChannelMember(r)
           \/ ArchiveChannel(r) \/ DisableAgent(r)
  BY <1>1, <1>6, ApplySteps
<1>7. CASE FanOut(r)
  BY <1>1, <1>7, FanOutStep
<1> QED
  BY <1>2, <1>3, <1>4, <1>5, <1>6, <1>7, SMTT(30) DEF Prepares

LEMMA PreparesAware ==
  ASSUME NEW r \in Requests, Informed, Prepares(r)
  PROVE  Aware(r)'
<1>1. CASE LockKey(r) \/ LockSender(r) \/ Authorize(r)
  BY <1>1, SendAware
<1>2. CASE LockChannel(r) \/ LockPrincipal(r) \/ LockTarget(r) \/ LockWorkspace(r)
  BY <1>2, LockAware
<1>3. CASE LockCursor(r) \/ CheckReference(r)
  BY <1>3, CursorAware
<1>4. CASE AllocateForMessage(r) \/ AllocateForCursor(r)
  BY <1>4, AllocateAware
<1>5. CASE \/ Retract(r) \/ AddReaction(r) \/ RemoveReaction(r)
           \/ UpsertChannelMember(r) \/ RemoveChannelMember(r)
           \/ ArchiveChannel(r) \/ DisableAgent(r)
  BY <1>5, ApplyAware
<1>6. CASE FanOut(r)
  BY <1>6, FanOutAware
<1> QED
  BY <1>1, <1>2, <1>3, <1>4, <1>5, <1>6 DEF Prepares

LEMMA RollbackKeeps ==
  ASSUME NEW r \in Requests, IInv, Rollback(r)
  PROVE  Kept(r) /\ work'[r] = Idle /\ UNCHANGED calls
  BY EndsIdle DEF Rollback, Kept, IInv, End, Typed

LEMMA NextInformed == Informed /\ [Next]_vars => Informed'
<1> SUFFICES ASSUME Informed, [Next]_vars PROVE Informed'
  OBVIOUS
<1>0. IInv'
  BY NextIInv DEF Informed
<1>1. CASE UNCHANGED vars
  <2>1. UNCHANGED data /\ UNCHANGED work /\ UNCHANGED locks
    BY <1>1 DEF vars
  <2>2. UNCHANGED <<status, seats, archived, messages, cursors>>
    BY <2>1 DEF data
  <2>3. ASSUME NEW r \in Requests PROVE Aware(r)'
    <3>1. ChanOf(work[r].call)' = ChanOf(work[r].call)
      BY <2>1, <2>2 DEF ChanOf
    <3>2. Sequenced(r)' /\ RowHolds(r)'
      BY <2>1, <3>1 DEF Informed, Aware, Sequenced, RowHolds, RowLock, CursorLock
    <3>3. RowKnows(r)'
      BY <2>1, <2>2, <3>1 DEF Informed, Aware, RowKnows
    <3>4. Decided(r)'
      BY <2>1, <2>2, <3>1, SameReads DEF Informed, Aware, Decided
    <3> QED
      BY <3>2, <3>3, <3>4 DEF Aware
  <2> QED
    BY <1>0, <2>2, <2>3 DEF Informed
<1>2. ASSUME NEW r \in Requests, Kept(r), Aware(r)' PROVE Informed'
  <2>1. \A q \in Requests : Aware(q)'
    BY <1>2, OthersAware DEF Kept
  <2> QED
    BY <1>0, <1>2, <2>1 DEF Informed, Kept, data
<1>3. ASSUME NEW r \in Requests, Begin(r) \/ Step(r) \/ Rollback(r) PROVE Informed'
  <2>1. CASE Begin(r)
    BY <1>2, <2>1, BeginStep, BeginAware DEF Informed
  <2>2. CASE Prepares(r)
    BY <1>2, <2>2, PreparesKeep, PreparesAware DEF Informed
  <2>3. CASE Rollback(r)
    BY <1>2, <2>3, RollbackKeeps, IdleAware DEF Informed
  <2>4. CASE Commits(r)
    <3>1. RespectsRows(r) /\ cursors' \in [Channels -> [Users -> Nat]]
      BY <2>4, CommitMessageAware, CommitRetractAware, CommitArchiveAware, CommitCursorAware,
         CommitOtherAware DEF Commits
    <3> QED
      BY <1>0, <2>4, <3>1, CommitsEnd, CommitAware DEF Informed
  <2> QED
    BY <1>3, <2>1, <2>2, <2>3, <2>4, StepsSplit
<1> QED
  BY <1>1, <1>3 DEF Next, Finished

LEMMA InitInformed == Init => Informed
<1> SUFFICES ASSUME Init PROVE Informed
  OBVIOUS
<1>1. \A r \in Requests : work[r] = Idle
  BY DEF Init
<1>2. \A r \in Requests : Aware(r)
  BY <1>1 DEF Idle, Aware, Sequenced, RowHolds, RowKnows, Decided, AtSequence, AtChannel, AtCursor
<1>3. cursors \in [Channels -> [Users -> Nat]]
  BY DEF Init
<1> QED
  BY <1>2, <1>3, InitIInv DEF Informed

(* What the sessions hold, have read and have decided, at every stage. *)
THEOREM SessionsInformed == Spec => []Informed
BY InitInformed, NextInformed, PTL DEF Spec

-----------------------------------------------------------------------------
(* The last active owner. *)

LEMMA StepKeepsAnOwner ==
  ASSUME Informed, [Next]_vars, NEW c \in Channels, ActiveOwners(c) # {}, status' = status
  PROVE  ActiveOwners(c)' # {}
<1>1. CASE seats' = seats
  BY <1>1 DEF ActiveOwners
<1>2. ASSUME NEW r \in Requests, CommitMembership(r) PROVE ActiveOwners(c)' # {}
  <2> DEFINE call == work[r].call
  <2>1. work[r].at = "fanout" /\ call.op \in {"seat", "remove"}
    BY <1>2, SMTT(30) DEF CommitMembership, Committing, At, Does
  <2>2. \E role : seats' = [seats EXCEPT ![call.chan][call.who] = role]
    BY <1>2 DEF CommitMembership
  <2>3. seats[call.chan][call.who] = "owner" => AnotherOwner(call.chan, call.who)
    BY <2>1 DEF Informed, Aware, Decided
  <2>4. PICK o \in Users : seats[c][o] = "owner" /\ status[o] = "active"
    BY DEF ActiveOwners
  <2>5. \A d \in Channels, u \in Users :
          d # call.chan \/ u # call.who => seats'[d][u] = seats[d][u]
    BY <2>2 DEF Informed, IInv, Typed
  <2>6. CASE c = call.chan /\ o = call.who
    <3>1. PICK p \in Users \ {o} : seats[c][p] = "owner" /\ status[p] = "active"
      BY <2>3, <2>4, <2>6 DEF AnotherOwner
    <3>2. p \in ActiveOwners(c)'
      BY <2>5, <2>6, <3>1 DEF ActiveOwners
    <3> QED
      BY <3>2
  <2>7. CASE ~(c = call.chan /\ o = call.who)
    <3>1. o \in ActiveOwners(c)'
      BY <2>4, <2>5, <2>7 DEF ActiveOwners
    <3> QED
      BY <3>1
  <2> QED
    BY <2>6, <2>7
<1>3. seats' = seats \/ \E r \in Requests : CommitMembership(r)
  <2>1. ASSUME NEW r \in Requests, Begin(r) \/ Step(r) \/ Rollback(r)
        PROVE  seats' = seats \/ CommitMembership(r)
    <3>1. CASE Begin(r) \/ Rollback(r)
      BY <3>1 DEF Begin, Rollback, data
    <3>2. CASE Prepares(r)
      BY <3>2, PreparesKeep, SMTT(30) DEF Informed, Kept, data
    <3>3. CASE Commits(r)
      BY <3>3 DEF Commits, CommitMessage, CommitRetract, CommitReaction, CommitArchive,
                  CommitDisable, CommitCursor
    <3> QED
      BY <2>1, <3>1, <3>2, <3>3, StepsSplit
  <2> QED
    BY <2>1 DEF Next, Finished, vars, data
<1> QED
  BY <1>1, <1>2, <1>3

(* Owners who remove or demote each other at the same time leave one of      *)
(* them: requireAnotherChannelOwner is asked under the row that numbers     *)
(* the events, so no seat and no membership changes before the COMMIT.     *)
THEOREM KeepsAnOwnerHolds == Spec => KeepsAnOwner
<1>1. Informed /\ [Next]_vars =>
        [\A c \in Channels :
           ActiveOwners(c) # {} /\ status' = status => ActiveOwners(c)' # {}]_vars
  BY StepKeepsAnOwner
<1> QED
  BY <1>1, SessionsInformed, PTL DEF Spec, KeepsAnOwner

-----------------------------------------------------------------------------
(* What a commit writes, whichever call it is of.                          *)

Types == {"message.created", "message.retracted", "reaction.added", "reaction.removed",
          "channel.membership_changed", "channel.archived", "member.updated",
          "read_cursor.updated"}
OfMessage == {"message.created", "message.retracted", "reaction.added", "reaction.removed",
              "read_cursor.updated"}

Events ==
  [type : Types, chan : Channels \cup {None}, by : Users,
   of : MessageIds \cup Users \cup {None}, action : {"added", "updated", "removed", None},
   audience : SUBSET Users, unread : Nat]

(* What an event names. *)
Names(e) ==
  /\ e.type \in OfMessage => e.of \in MessageIds
  /\ e.type = "message.created" => e.by = e.of[1]
  /\ e.type = "channel.membership_changed" => e.of \in Users
  /\ e.type = "member.updated" => e.of \in Users /\ e.chan = None
  /\ e.type # "member.updated" => e.chan \in Channels

(* Who should hear of it, as the seats and the memberships are. *)
Addressed(e) ==
  e.audience = CASE e.type = "read_cursor.updated" -> {e.by}
                 [] e.type = "member.updated" -> {u \in Users \ {e.of} : status[u] = "active"}
                 [] e.type = "channel.membership_changed" /\ e.action = "added" ->
                      Audience(e.chan) \cup {e.of}
                 [] OTHER -> Audience(e.chan)

(* What must not have ended. *)
Permitted(e) ==
  /\ e.type \in {"message.created", "reaction.added", "reaction.removed",
                 "channel.membership_changed", "channel.archived"} => ~archived[e.chan]
  /\ e.type \in {"message.retracted", "reaction.added", "reaction.removed"} =>
       ~messages[e.of].deleted
  /\ e.type = "read_cursor.updated" =>
       /\ cursors[e.chan][e.by] < messages[e.of].cs
       /\ e.unread = Unread(e.by, e.chan, messages[e.of].cs)

MessagesFollow(e) ==
  /\ e.type = "message.created" =>
       /\ messages[e.of] = None
       /\ messages' = [messages EXCEPT ![e.of] =
                         [chan |-> e.chan, deleted |-> FALSE,
                          cs |-> Cardinality(InChannel(e.chan)) + 1]]
  /\ e.type \in OfMessage \ {"message.created"} =>
       messages[e.of] # None /\ messages[e.of].chan = e.chan
  /\ e.type = "message.retracted" => messages' = [messages EXCEPT ![e.of].deleted = TRUE]
  /\ e.type \notin {"message.created", "message.retracted"} => messages' = messages

RowsFollow(e) ==
  /\ IF e.type = "channel.membership_changed"
     THEN \E role \in {"none", "member", "owner"} :
            /\ seats' = [seats EXCEPT ![e.chan][e.of] = role]
            /\ role = "none" <=> e.action = "removed"
     ELSE seats' = seats
  /\ IF e.type = "member.updated" THEN status' = [status EXCEPT ![e.of] = "revoked"]
     ELSE status' = status
  /\ IF e.type = "channel.archived" THEN archived' = [archived EXCEPT ![e.chan] = TRUE]
     ELSE archived' = archived
  /\ IF e.type = "read_cursor.updated"
     THEN cursors' = [cursors EXCEPT ![e.chan][e.by] = messages[e.of].cs]
     ELSE cursors' = cursors

Writes(e) ==
  /\ log' = Append(log, e)
  /\ Names(e) /\ Addressed(e) /\ Permitted(e) /\ MessagesFollow(e) /\ RowsFollow(e)

Event(r, type, chan, of, action) ==
  [type |-> type, chan |-> chan, by |-> work[r].call.by, of |-> of, action |-> action,
   audience |-> work[r].audience, unread |-> work[r].unread]

LEMMA EventFields ==
  ASSUME NEW r \in Requests, IInv, work[r].call \in Calls, NEW type \in Types,
         NEW chan \in Channels \cup {None}, NEW of \in MessageIds \cup Users \cup {None},
         NEW action \in {"added", "updated", "removed", None}
  PROVE  LET e == Event(r, type, chan, of, action)
         IN  /\ e \in Events /\ e.type = type /\ e.chan = chan /\ e.by = work[r].call.by
             /\ e.of = of /\ e.action = action /\ e.audience = work[r].audience
             /\ e.unread = work[r].unread
             /\ Appends(r, type, chan, of, action) => log' = Append(log, e)
<1>1. work[r].audience \in SUBSET Users /\ work[r].unread \in Nat
  BY DEF IInv, Typed, WorkRecords
<1>2. work[r].call.by \in Users
  BY CallTypes
<1> QED
  BY <1>1, <1>2 DEF Event, Events, Appends

LEMMA CommitMessageWrites ==
  ASSUME NEW r \in Requests, Informed, CommitMessage(r)
  PROVE  \E e \in Events : Writes(e)
<1> DEFINE call == work[r].call
           m == <<call.by, call.key>>
           e == Event(r, "message.created", call.chan, m, None)
<1>1. work[r].at = "fanout" /\ call.op = "send" /\ call \in Calls
  BY CommitsHolding DEF CommitMessage, Committing, At, Informed
<1>2. /\ messages[m] = None /\ Appends(r, "message.created", call.chan, m, None)
      /\ messages' = [messages EXCEPT ![m] = [chan |-> call.chan, deleted |-> FALSE,
                                              cs |-> Cardinality(InChannel(call.chan)) + 1]]
      /\ UNCHANGED <<status, seats, archived, cursors>>
  BY DEF CommitMessage
<1>3. m \in MessageIds /\ call.chan \in Channels /\ m[1] = call.by
  BY <1>1, CallTypes DEF MessageIds
<1>a. /\ IInv /\ work[r].call \in Calls /\ "message.created" \in Types /\ call.chan \in Channels \cup {None}
      /\ m \in MessageIds \cup Users \cup {None}
      /\ None \in {"added", "updated", "removed", None}
  BY <1>1, <1>2, <1>3 DEF Informed, Types
<1>b. Appends(r, "message.created", call.chan, m, None)
  BY <1>2
<1> HIDE DEF m
<1>4. /\ e \in Events /\ e.type = "message.created" /\ e.chan = call.chan /\ e.by = call.by
      /\ e.of = m /\ e.audience = work[r].audience /\ log' = Append(log, e)
  BY <1>a, <1>b, EventFields
<1>5. ~archived[call.chan]
  BY CommitsHolding DEF CommitMessage, Informed
<1>6. work[r].audience = Audience(call.chan)
  BY <1>1 DEF Informed, Aware, Decided, ChanOf
<1> HIDE DEF e
<1>7. Names(e) /\ Addressed(e) /\ Permitted(e)
  BY <1>3, <1>4, <1>5, <1>6 DEF Names, Addressed, Permitted, OfMessage
<1>8. MessagesFollow(e) /\ RowsFollow(e)
  BY <1>2, <1>4 DEF MessagesFollow, RowsFollow, OfMessage
<1> QED
  BY <1>4, <1>7, <1>8 DEF Writes

LEMMA CommitRetractWrites ==
  ASSUME NEW r \in Requests, Informed, CommitRetract(r)
  PROVE  \E e \in Events : Writes(e)
<1> DEFINE m == work[r].call.msg
           c == messages[m].chan
           e == Event(r, "message.retracted", c, m, None)
<1>1. work[r].at = "fanout" /\ work[r].call.op = "retract" /\ work[r].call \in Calls
  BY CommitsHolding DEF CommitRetract, Committing, At, Informed
<1>2. /\ Appends(r, "message.retracted", c, m, None)
      /\ messages' = [messages EXCEPT ![m].deleted = TRUE]
      /\ UNCHANGED <<status, seats, archived, cursors>>
  BY DEF CommitRetract
<1>3. m \in MessageIds /\ messages[m] \in Messages /\ c \in Channels /\ messages[m] # None
  BY <1>1, NamedExist DEF OnMessages, Messages
<1>a. /\ IInv /\ work[r].call \in Calls /\ "message.retracted" \in Types /\ c \in Channels \cup {None}
      /\ m \in MessageIds \cup Users \cup {None}
      /\ None \in {"added", "updated", "removed", None}
  BY <1>1, <1>2, <1>3, SMTT(30) DEF Informed, Types
<1>4. /\ e \in Events /\ e.type = "message.retracted" /\ e.chan = c
      /\ e.of = m /\ e.audience = work[r].audience /\ log' = Append(log, e)
  BY <1>1, <1>2, <1>3, <1>a, EventFields
<1>5. work[r].audience = Audience(c) /\ ~messages[m].deleted
  BY <1>1 DEF Informed, Aware, Decided, ChanOf
<1> HIDE DEF e, m
<1>7. Names(e) /\ Addressed(e) /\ Permitted(e)
  BY <1>3, <1>4, <1>5 DEF Names, Addressed, Permitted, OfMessage
<1>8. MessagesFollow(e) /\ RowsFollow(e)
  BY <1>2, <1>3, <1>4 DEF MessagesFollow, RowsFollow, OfMessage
<1> QED
  BY <1>4, <1>7, <1>8 DEF Writes

LEMMA CommitReactionWrites ==
  ASSUME NEW r \in Requests, Informed, CommitReaction(r)
  PROVE  \E e \in Events : Writes(e)
<1> DEFINE m == work[r].call.msg
           c == messages[m].chan
<1>1. PICK type \in {"reaction.added", "reaction.removed"} :
        /\ Appends(r, type, c, m, None)
        /\ work[r].at = "fanout" /\ work[r].call.op \in {"react", "unreact"}
        /\ UNCHANGED <<status, seats, archived, messages, cursors>>
  BY DEF CommitReaction, Committing, At, Does
<1> DEFINE e == Event(r, type, c, m, None)
<1>2. work[r].call \in Calls
  BY <1>1 DEF Informed, IInv, Session, Staged
<1>3. m \in MessageIds /\ messages[m] \in Messages /\ c \in Channels /\ messages[m] # None
  BY <1>1, NamedExist DEF OnMessages, Messages
<1>a. /\ IInv /\ work[r].call \in Calls /\ type \in Types /\ c \in Channels \cup {None}
      /\ m \in MessageIds \cup Users \cup {None}
      /\ None \in {"added", "updated", "removed", None}
  BY <1>1, <1>2, <1>3, SMTT(30) DEF Informed, Types
<1>4. /\ e \in Events /\ e.type = type /\ e.chan = c
      /\ e.of = m /\ e.audience = work[r].audience /\ log' = Append(log, e)
  BY <1>1, <1>2, <1>3, <1>a, EventFields, SMTT(30)
<1>5. work[r].audience = Audience(c) /\ ~messages[m].deleted /\ ~archived[c]
  BY <1>1 DEF Informed, Aware, Decided, RowKnows, ChanOf, AtChannel
<1> HIDE DEF e, m
<1>7. Names(e) /\ Addressed(e) /\ Permitted(e)
  BY <1>1, <1>3, <1>4, <1>5 DEF Names, Addressed, Permitted, OfMessage
<1>8. MessagesFollow(e) /\ RowsFollow(e)
  BY <1>1, <1>3, <1>4 DEF MessagesFollow, RowsFollow, OfMessage
<1> QED
  BY <1>4, <1>7, <1>8 DEF Writes

LEMMA CommitMembershipWrites ==
  ASSUME NEW r \in Requests, Informed, CommitMembership(r)
  PROVE  \E e \in Events : Writes(e)
<1> DEFINE call == work[r].call
           c == call.chan
           who == call.who
<1>1. work[r].at = "fanout" /\ call.op \in {"seat", "remove"} /\ call \in Calls
      /\ UNCHANGED <<status, archived, messages, cursors>>
  BY CommitsHolding DEF CommitMembership, Committing, At, Informed
<1>2. c \in Channels /\ who \in Users /\ (call.op = "seat" => call.role \in {"member", "owner"})
  BY <1>1, CallTypes
<1>3. PICK role \in {"none", "member", "owner"}, action \in {"added", "updated", "removed"} :
        /\ seats' = [seats EXCEPT ![c][who] = role]
        /\ Appends(r, "channel.membership_changed", c, who, action)
        /\ role = "none" <=> action = "removed"
        /\ action = "removed" <=> call.op = "remove"
        /\ action = "updated" => seats[c][who] # "none"
  <2>1. CASE call.op = "seat"
    <3>1. /\ seats' = [seats EXCEPT ![c][who] = call.role]
          /\ Appends(r, "channel.membership_changed", c, who,
                     IF seats[c][who] = "none" THEN "added" ELSE "updated")
      BY <2>1 DEF CommitMembership, Committing, Does
    <3>2. CASE seats[c][who] = "none"
      BY <1>2, <2>1, <3>1, <3>2
    <3>3. CASE seats[c][who] # "none"
      BY <1>2, <2>1, <3>1, <3>3
    <3> QED
      BY <3>2, <3>3
  <2>2. CASE call.op = "remove"
    <3>1. /\ seats' = [seats EXCEPT ![c][who] = "none"]
          /\ Appends(r, "channel.membership_changed", c, who, "removed")
      BY <2>2 DEF CommitMembership, Committing, Does
    <3> QED
      BY <2>2, <3>1
  <2> QED
    BY <1>1, <2>1, <2>2
<1> DEFINE e == Event(r, "channel.membership_changed", c, who, action)
<1>a. /\ IInv /\ work[r].call \in Calls /\ "channel.membership_changed" \in Types /\ c \in Channels \cup {None}
      /\ who \in MessageIds \cup Users \cup {None}
      /\ action \in {"added", "updated", "removed", None}
  BY <1>1, <1>2, <1>3 DEF Informed, Types
<1>4. /\ e \in Events /\ e.type = "channel.membership_changed" /\ e.chan = c
      /\ e.of = who /\ e.action = action /\ e.audience = work[r].audience
      /\ log' = Append(log, e)
  BY <1>1, <1>2, <1>3, <1>a, EventFields
<1>5. ~archived[c]
  BY <1>1 DEF Informed, Aware, RowKnows, ChanOf, AtChannel
<1>6. work[r].audience = IF action = "added" THEN Audience(c) \cup {who} ELSE Audience(c)
  <2>1. call.op = "remove" => work[r].audience = Audience(c)
    BY <1>1 DEF Informed, Aware, Decided, ChanOf
  <2>2. call.op = "seat" => work[r].audience = Audience(c) \cup {who} /\ status[who] = "active"
    BY <1>1 DEF Informed, Aware, Decided
  <2>3. call.op = "seat" /\ action = "updated" => who \in Audience(c)
    BY <1>2, <1>3, <2>2 DEF Audience, Visible
  <2> QED
    BY <1>1, <1>3, <2>1, <2>2, <2>3, ZenonT(40)
<1> HIDE DEF e
<1>7. Names(e) /\ Permitted(e)
  BY <1>2, <1>4, <1>5 DEF Names, Permitted, OfMessage
<1>8. Addressed(e)
  BY <1>4, <1>6, SMTT(30) DEF Addressed
<1>9. MessagesFollow(e) /\ RowsFollow(e)
  BY <1>1, <1>3, <1>4 DEF MessagesFollow, RowsFollow, OfMessage
<1> QED
  BY <1>4, <1>7, <1>8, <1>9, SMTT(30) DEF Writes

LEMMA CommitArchiveWrites ==
  ASSUME NEW r \in Requests, Informed, CommitArchive(r)
  PROVE  \E e \in Events : Writes(e)
<1> DEFINE c == work[r].call.chan
           e == Event(r, "channel.archived", c, None, None)
<1>1. work[r].at = "fanout" /\ work[r].call.op = "archive" /\ work[r].call \in Calls
  BY CommitsHolding DEF CommitArchive, Committing, At, Informed
<1>2. /\ Appends(r, "channel.archived", c, None, None)
      /\ archived' = [archived EXCEPT ![c] = TRUE]
      /\ UNCHANGED <<status, seats, messages, cursors>>
  BY DEF CommitArchive
<1>3. c \in Channels
  BY <1>1, CallTypes
<1>4. /\ e \in Events /\ e.type = "channel.archived" /\ e.chan = c
      /\ e.audience = work[r].audience /\ log' = Append(log, e)
  BY <1>1, <1>2, <1>3, EventFields DEF Informed, Types
<1>5. work[r].audience = Audience(c) /\ ~archived[c]
  BY <1>1 DEF Informed, Aware, Decided, ChanOf
<1> HIDE DEF e, c
<1>7. Names(e) /\ Addressed(e) /\ Permitted(e)
  BY <1>3, <1>4, <1>5 DEF Names, Addressed, Permitted, OfMessage
<1>8. MessagesFollow(e) /\ RowsFollow(e)
  BY <1>2, <1>4 DEF MessagesFollow, RowsFollow, OfMessage
<1> QED
  BY <1>4, <1>7, <1>8 DEF Writes

LEMMA CommitDisableWrites ==
  ASSUME NEW r \in Requests, Informed, CommitDisable(r)
  PROVE  \E e \in Events : Writes(e)
<1> DEFINE who == work[r].call.who
           e == Event(r, "member.updated", None, who, None)
<1>1. work[r].at = "fanout" /\ work[r].call.op = "disable" /\ work[r].call \in Calls
  BY CommitsHolding DEF CommitDisable, Committing, At, Informed
<1>2. /\ Appends(r, "member.updated", None, who, None)
      /\ status' = [status EXCEPT ![who] = "revoked"]
      /\ UNCHANGED <<archived, seats, messages, cursors>>
  BY DEF CommitDisable
<1>3. who \in Users
  BY <1>1, CallTypes
<1>4. /\ e \in Events /\ e.type = "member.updated" /\ e.chan = None /\ e.of = who
      /\ e.audience = work[r].audience /\ log' = Append(log, e)
  BY <1>1, <1>2, <1>3, EventFields DEF Informed, Types
<1>5. work[r].audience = {u \in Users \ {who} : status[u] = "active"}
  BY <1>1 DEF Informed, Aware, Decided
<1> HIDE DEF e, who
<1>7. Names(e) /\ Addressed(e) /\ Permitted(e)
  BY <1>3, <1>4, <1>5 DEF Names, Addressed, Permitted, OfMessage
<1>8. MessagesFollow(e) /\ RowsFollow(e)
  BY <1>2, <1>4 DEF MessagesFollow, RowsFollow, OfMessage
<1> QED
  BY <1>4, <1>7, <1>8 DEF Writes

LEMMA CommitCursorWrites ==
  ASSUME NEW r \in Requests, Informed, CommitCursor(r)
  PROVE  \E e \in Events : Writes(e)
<1> DEFINE m == work[r].call.msg
           c == messages[m].chan
           e == Event(r, "read_cursor.updated", c, m, None)
<1>1. work[r].at = "fanout" /\ work[r].call.op = "read" /\ work[r].call \in Calls
  BY CommitsHolding DEF CommitCursor, Committing, At, Informed
<1>2. /\ Appends(r, "read_cursor.updated", c, m, None)
      /\ cursors' = [cursors EXCEPT ![c][work[r].call.by] = messages[m].cs]
      /\ UNCHANGED <<status, seats, archived, messages>>
  BY DEF CommitCursor
<1>3. m \in MessageIds /\ messages[m] \in Messages /\ c \in Channels /\ messages[m] # None
  BY <1>1, NamedExist, SMTT(30) DEF OnMessages, Messages
<1>a. /\ IInv /\ work[r].call \in Calls /\ "read_cursor.updated" \in Types /\ c \in Channels \cup {None}
      /\ m \in MessageIds \cup Users \cup {None}
      /\ None \in {"added", "updated", "removed", None}
  <2>1. "read_cursor.updated" \in Types
    BY DEF Types
  <2>2. IInv
    BY DEF Informed
  <2> HIDE DEF m, c
  <2> QED
    BY <1>1, <1>3, <2>1, <2>2, SMTT(30)
<1>b. Appends(r, "read_cursor.updated", c, m, None)
  BY <1>2
<1> HIDE DEF m
<1>4. /\ e \in Events /\ e.type = "read_cursor.updated" /\ e.chan = c /\ e.by = work[r].call.by
      /\ e.of = m /\ e.audience = work[r].audience /\ e.unread = work[r].unread
      /\ log' = Append(log, e)
  BY <1>a, <1>b, EventFields, SMTT(30)
<1>5. /\ work[r].audience = {work[r].call.by}
      /\ work[r].unread = Unread(work[r].call.by, c, messages[m].cs)
      /\ cursors[c][work[r].call.by] < messages[m].cs
  BY <1>1 DEF Informed, Aware, Decided, RowKnows, ChanOf, AtCursor, m
<1> HIDE DEF e
<1>7. Names(e) /\ Addressed(e) /\ Permitted(e)
  BY <1>3, <1>4, <1>5 DEF Names, Addressed, Permitted, OfMessage
<1>8. MessagesFollow(e) /\ RowsFollow(e)
  BY <1>2, <1>3, <1>4 DEF MessagesFollow, RowsFollow, OfMessage
<1> QED
  BY <1>4, <1>7, <1>8, SMTT(30) DEF Writes

LEMMA CommitWrites ==
  ASSUME NEW r \in Requests, Informed, Commits(r)
  PROVE  \E e \in Events : Writes(e)
BY CommitMessageWrites, CommitRetractWrites, CommitReactionWrites, CommitMembershipWrites,
   CommitArchiveWrites, CommitDisableWrites, CommitCursorWrites DEF Commits

-----------------------------------------------------------------------------
(* What the log tells of the seats and the memberships, for any sequence of *)
(* events.                                                                 *)

SeatChanges(s, u, c, i) ==
  {j \in 1..(i - 1) : /\ s[j].type = "channel.membership_changed"
                      /\ s[j].chan = c /\ s[j].of = u}

Latest(S) == CHOOSE j \in S : \A k \in S : k <= j

SeatedIn(s, u, c, i) ==
  IF SeatChanges(s, u, c, i) = {} THEN InitialSeats[c][u] # "none"
  ELSE s[Latest(SeatChanges(s, u, c, i))].action # "removed"

ActiveIn(s, u, i) == \A j \in 1..(i - 1) : ~(s[j].type = "member.updated" /\ s[j].of = u)

(* Among the changes of a seat there is a latest one. *)
HasLatest(s) ==
  \A u \in Users, c \in Channels : \A i \in 1..(Len(s) + 1) :
    SeatChanges(s, u, c, i) # {} =>
      \E j \in SeatChanges(s, u, c, i) : \A k \in SeatChanges(s, u, c, i) : k <= j

LEMMA BeforeIn ==
  ASSUME NEW u, NEW c, NEW i
  PROVE  /\ SeatedBefore(u, c, i) = SeatedIn(log, u, c, i)
         /\ ActiveBefore(u, i) = ActiveIn(log, u, i)
BY DEF SeatedBefore, SeatedIn, SeatChanges, Latest, ActiveBefore, ActiveIn

LEMMA BeforeInNext ==
  ASSUME NEW u, NEW c, NEW i
  PROVE  /\ SeatedBefore(u, c, i)' = SeatedIn(log', u, c, i)
         /\ ActiveBefore(u, i)' = ActiveIn(log', u, i)
BY DEF SeatedBefore, SeatedIn, SeatChanges, Latest, ActiveBefore, ActiveIn

LEMMA LatestIsLast ==
  ASSUME NEW S \in SUBSET Nat, NEW j \in S, \A k \in S : k <= j
  PROVE  Latest(S) = j
<1>1. Latest(S) \in S /\ \A k \in S : k <= Latest(S)
  BY DEF Latest
<1>2. j \in Nat /\ Latest(S) \in Nat /\ Latest(S) <= j /\ j <= Latest(S)
  BY <1>1
<1> QED
  BY <1>2

(* t goes on where s ends. *)
Extends(s, t) ==
  /\ s \in Seq(Events) /\ t \in Seq(Events) /\ Len(s) <= Len(t)
  /\ \A i \in 1..Len(s) : t[i] = s[i]

LEMMA BeforeKept ==
  ASSUME NEW s, NEW t, Extends(s, t), HasLatest(s),
         NEW u \in Users, NEW c \in Channels, NEW i \in 1..(Len(s) + 1)
  PROVE  /\ SeatChanges(t, u, c, i) = SeatChanges(s, u, c, i)
         /\ SeatedIn(t, u, c, i) <=> SeatedIn(s, u, c, i)
<1>0. Len(s) \in Nat /\ i \in Nat /\ \A j \in 1..(i - 1) : t[j] = s[j]
  BY DEF Extends
<1>1. SeatChanges(t, u, c, i) = SeatChanges(s, u, c, i)
  BY <1>0 DEF SeatChanges
<1>2. CASE SeatChanges(s, u, c, i) = {}
  BY <1>1, <1>2 DEF SeatedIn
<1>3. CASE SeatChanges(s, u, c, i) # {}
  <2>1. PICK j \in SeatChanges(s, u, c, i) : \A k \in SeatChanges(s, u, c, i) : k <= j
    BY <1>3 DEF HasLatest
  <2>2. SeatChanges(s, u, c, i) \in SUBSET Nat /\ j \in 1..(i - 1)
    BY <1>0 DEF SeatChanges
  <2>3. Latest(SeatChanges(s, u, c, i)) = j
    BY <2>1, <2>2, LatestIsLast
  <2>4. t[j] = s[j]
    BY <1>0, <2>2
  <2> QED
    BY <1>1, <1>3, <2>3, <2>4 DEF SeatedIn
<1> QED
  BY <1>1, <1>2, <1>3

LEMMA ActiveKept ==
  ASSUME NEW s, NEW t, Extends(s, t), NEW u \in Users, NEW i \in 1..(Len(s) + 1)
  PROVE  ActiveIn(t, u, i) <=> ActiveIn(s, u, i)
<1>1. \A j \in 1..(i - 1) : t[j] = s[j]
  BY DEF Extends
<1> QED
  BY <1>1 DEF ActiveIn

(* After one more event. *)
LEMMA Appended ==
  ASSUME NEW s \in Seq(Events), NEW e \in Events
  PROVE  LET t == Append(s, e)
         IN  /\ Extends(s, t) /\ t \in Seq(Events) /\ Len(s) \in Nat
             /\ Len(t) = Len(s) + 1 /\ t[Len(s) + 1] = e
             /\ \A i \in 1..Len(t) : i \in 1..Len(s) \/ i = Len(s) + 1
BY DEF Extends

LEMMA SeatedNext ==
  ASSUME NEW s \in Seq(Events), NEW e \in Events, HasLatest(s),
         NEW u \in Users, NEW c \in Channels
  PROVE  LET t == Append(s, e)
             n == Len(s) + 1
         IN  /\ SeatChanges(t, u, c, n + 1) # {} =>
                  \E j \in SeatChanges(t, u, c, n + 1) :
                    \A k \in SeatChanges(t, u, c, n + 1) : k <= j
             /\ SeatedIn(t, u, c, n + 1) <=>
                  IF e.type = "channel.membership_changed" /\ e.chan = c /\ e.of = u
                  THEN e.action # "removed" ELSE SeatedIn(s, u, c, n)
<1> DEFINE t == Append(s, e)
           n == Len(s) + 1
           mine == e.type = "channel.membership_changed" /\ e.chan = c /\ e.of = u
<1>1. /\ Extends(s, t) /\ Len(s) \in Nat /\ Len(t) = n /\ t[n] = e /\ n \in Nat
      /\ n \in 1..(Len(s) + 1)
  BY Appended
<1>2. SeatChanges(t, u, c, n + 1) =
        IF mine THEN SeatChanges(t, u, c, n) \cup {n} ELSE SeatChanges(t, u, c, n)
  <2> HIDE DEF t
  <2>1. 1..(n + 1 - 1) = 1..(n - 1) \cup {n} /\ n \notin 1..(n - 1)
    BY <1>1
  <2> QED
    BY <1>1, <2>1 DEF SeatChanges
<1>3. /\ SeatChanges(t, u, c, n) = SeatChanges(s, u, c, n)
      /\ SeatedIn(t, u, c, n) <=> SeatedIn(s, u, c, n)
  BY <1>1, BeforeKept
<1>4. SeatChanges(t, u, c, n) \in SUBSET (1..(n - 1))
  BY DEF SeatChanges
<1> HIDE DEF t, n, mine
<1>5. CASE mine
  <2>1. /\ n \in SeatChanges(t, u, c, n + 1) /\ SeatChanges(t, u, c, n + 1) \in SUBSET Nat
        /\ \A k \in SeatChanges(t, u, c, n + 1) : k <= n
    BY <1>1, <1>2, <1>4, <1>5
  <2>2. Latest(SeatChanges(t, u, c, n + 1)) = n
    BY <2>1, LatestIsLast
  <2>3. SeatedIn(t, u, c, n + 1) <=> e.action # "removed"
    BY <1>1, <2>1, <2>2 DEF SeatedIn
  <2> QED
    BY <1>5, <2>1, <2>3 DEF t, n, mine
<1>6. CASE ~mine
  <2>1. SeatChanges(t, u, c, n + 1) = SeatChanges(s, u, c, n)
    BY <1>2, <1>3, <1>6
  <2>2. SeatedIn(t, u, c, n + 1) <=> SeatedIn(t, u, c, n)
    BY <1>3, <2>1 DEF SeatedIn
  <2>3. SeatChanges(s, u, c, n) # {} =>
          \E j \in SeatChanges(s, u, c, n) : \A k \in SeatChanges(s, u, c, n) : k <= j
    BY <1>1 DEF HasLatest
  <2> QED
    BY <1>3, <1>6, <2>1, <2>2, <2>3 DEF t, n, mine
<1> QED
  BY <1>5, <1>6

LEMMA ActiveNext ==
  ASSUME NEW s \in Seq(Events), NEW e \in Events, NEW u \in Users
  PROVE  ActiveIn(Append(s, e), u, Len(s) + 2) <=>
           ActiveIn(s, u, Len(s) + 1) /\ ~(e.type = "member.updated" /\ e.of = u)
<1> DEFINE t == Append(s, e)
<1>1. Extends(s, t) /\ Len(s) \in Nat /\ t[Len(s) + 1] = e
  BY Appended
<1>2. 1..(Len(s) + 2 - 1) = 1..(Len(s) + 1 - 1) \cup {Len(s) + 1}
  BY <1>1
<1>3. \A j \in 1..(Len(s) + 1 - 1) : t[j] = s[j]
  BY <1>1 DEF Extends
<1> HIDE DEF t
<1>4. ActiveIn(t, u, Len(s) + 2) <=>
        ActiveIn(s, u, Len(s) + 1) /\ ~(e.type = "member.updated" /\ e.of = u)
  BY <1>1, <1>2, <1>3 DEF ActiveIn
<1> QED
  BY <1>4 DEF t

-----------------------------------------------------------------------------
(* The log and the tables tell the same.                                   *)

(* What an event tells of stays so. *)
Recorded ==
  \A i \in Indices :
    LET e == log[i]
    IN  /\ Names(e)
        /\ e.type \in OfMessage => messages[e.of] # None /\ messages[e.of].chan = e.chan
        /\ e.type = "message.retracted" => messages[e.of].deleted
        /\ e.type = "channel.archived" => archived[e.chan]
        /\ e.type = "read_cursor.updated" => messages[e.of].cs <= cursors[e.chan][e.by]

(* Every message has its one event, and every retracted one another. *)
Told ==
  /\ \A m \in MessageIds : messages[m] # None =>
       /\ \E i \in Indices : log[i].type = "message.created" /\ log[i].of = m
       /\ messages[m].deleted =>
            \E i \in Indices : log[i].type = "message.retracted" /\ log[i].of = m
  /\ \A i, j \in Indices :
       /\ log[i].type = "message.created" /\ log[j].type = "message.created"
       /\ log[i].of = log[j].of
       => i = j

(* The seats and the memberships are those the whole log tells of. *)
Current ==
  \A u \in Users :
    /\ status[u] = "active" <=> ActiveIn(log, u, Len(log) + 1)
    /\ \A c \in Channels : Visible(u, c) <=> SeatedIn(log, u, c, Len(log) + 1)

History ==
  /\ log \in Seq(Events) /\ HasLatest(log)
  /\ Recorded /\ Told /\ Current
  /\ AudienceFollowsLog /\ EndsAreFinal /\ ReadsCountTheLog

(* What an event does to the messages. *)
LEMMA MessagesKept ==
  ASSUME Typed, NEW e \in Events, Names(e), MessagesFollow(e), NEW m \in MessageIds
  PROVE  /\ messages[m] # None =>
              /\ messages'[m] # None
              /\ messages'[m].chan = messages[m].chan /\ messages'[m].cs = messages[m].cs
              /\ messages'[m].deleted =
                   (messages[m].deleted \/ (e.type = "message.retracted" /\ e.of = m))
         /\ messages[m] = None /\ messages'[m] # None =>
              /\ e.type = "message.created" /\ e.of = m
              /\ messages'[m].chan = e.chan /\ messages'[m].deleted = FALSE
<1>1. CASE e.type = "message.created"
  <2> DEFINE row == [chan |-> e.chan, deleted |-> FALSE, cs |-> Cardinality(InChannel(e.chan)) + 1]
  <2>1. e.of \in MessageIds /\ messages[e.of] = None /\ messages' = [messages EXCEPT ![e.of] = row]
    BY <1>1 DEF Names, OfMessage, MessagesFollow
  <2>2. row.chan = e.chan /\ row.deleted = FALSE
    OBVIOUS
  <2> HIDE DEF row
  <2>3. messages'[e.of] = row /\ \A n \in MessageIds \ {e.of} : messages'[n] = messages[n]
    BY <2>1 DEF Typed
  <2>4. messages[m] # None => messages[m].deleted \in BOOLEAN
    BY DEF Typed, Messages
  <2>5. CASE m = e.of
    BY <1>1, <2>1, <2>2, <2>3, <2>5
  <2>6. CASE m # e.of
    BY <1>1, <2>3, <2>4, <2>6
  <2> QED
    BY <2>5, <2>6
<1>2. CASE e.type = "message.retracted"
  <2> DEFINE row == [messages[e.of] EXCEPT !.deleted = TRUE]
  <2>1. /\ e.of \in MessageIds /\ messages[e.of] # None
        /\ messages' = [messages EXCEPT ![e.of].deleted = TRUE]
    BY <1>2 DEF Names, OfMessage, MessagesFollow
  <2>2. messages[e.of] \in Messages
    BY <2>1 DEF Typed
  <2>3. row \in Messages /\ row.chan = messages[e.of].chan /\ row.cs = messages[e.of].cs
        /\ row.deleted = TRUE
    BY <2>2 DEF Messages
  <2>4. messages' = [messages EXCEPT ![e.of] = row]
    BY <2>1 DEF Typed
  <2> HIDE DEF row
  <2>5. messages'[e.of] = row /\ \A n \in MessageIds \ {e.of} : messages'[n] = messages[n]
    BY <2>1, <2>4 DEF Typed
  <2>6. row # None /\ (messages[m] # None => messages[m].deleted \in BOOLEAN)
    BY <2>3 DEF Typed, Messages
  <2>7. CASE m = e.of
    BY <1>2, <2>1, <2>3, <2>5, <2>6, <2>7
  <2>8. CASE m # e.of
    BY <1>2, <2>5, <2>6, <2>8
  <2> QED
    BY <2>7, <2>8
<1>3. CASE e.type \notin {"message.created", "message.retracted"}
  <2>1. messages' = messages
    BY <1>3 DEF MessagesFollow
  <2>2. messages[m] # None => messages[m].deleted \in BOOLEAN
    BY DEF Typed, Messages
  <2> QED
    BY <1>3, <2>1, <2>2
<1> QED
  BY <1>1, <1>2, <1>3

LEMMA RowsKept ==
  ASSUME Typed, cursors \in [Channels -> [Users -> Nat]], NEW e \in Events, Names(e),
         MessagesFollow(e), Permitted(e), RowsFollow(e)
  PROVE  /\ \A c \in Channels : archived[c] => archived'[c]
         /\ e.type = "channel.archived" => archived'[e.chan]
         /\ \A c \in Channels, u \in Users :
              cursors[c][u] <= cursors'[c][u] /\ cursors'[c][u] \in Nat
         /\ e.type = "read_cursor.updated" => cursors'[e.chan][e.by] = messages[e.of].cs
         /\ \A u \in Users : status'[u] = "active" <=>
              status[u] = "active" /\ ~(e.type = "member.updated" /\ e.of = u)
         /\ \A u \in Users, c \in Channels : Visible(u, c)' <=>
              IF e.type = "channel.membership_changed" /\ e.chan = c /\ e.of = u
              THEN e.action # "removed" ELSE Visible(u, c)
<1>1. \A c \in Channels : archived[c] => archived'[c]
  BY DEF Typed, RowsFollow
<1>2. e.type = "channel.archived" => archived'[e.chan]
  BY DEF Typed, RowsFollow, Names
<1>3. /\ \A c \in Channels, u \in Users :
              cursors[c][u] <= cursors'[c][u] /\ cursors'[c][u] \in Nat
      /\ e.type = "read_cursor.updated" => cursors'[e.chan][e.by] = messages[e.of].cs
  <2>1. CASE e.type = "read_cursor.updated"
    <3>1. /\ e.chan \in Channels /\ e.by \in Users /\ e.of \in MessageIds /\ messages[e.of] # None
          /\ cursors' = [cursors EXCEPT ![e.chan][e.by] = messages[e.of].cs]
          /\ cursors[e.chan][e.by] < messages[e.of].cs
      BY <2>1 DEF Names, RowsFollow, Permitted, Events, MessagesFollow, OfMessage
    <3>2. messages[e.of].cs \in Nat
      BY <3>1 DEF Typed, Messages
    <3>3. \A c \in Channels, u \in Users :
            cursors'[c][u] = IF c = e.chan /\ u = e.by THEN messages[e.of].cs ELSE cursors[c][u]
      BY <3>1
    <3>4. \A c \in Channels, u \in Users : cursors[c][u] \in Nat
      OBVIOUS
    <3> QED
      BY <3>1, <3>2, <3>3, <3>4
  <2>2. CASE e.type # "read_cursor.updated"
    <3>1. cursors' = cursors
      BY <2>2 DEF RowsFollow
    <3>2. \A c \in Channels, u \in Users : cursors[c][u] \in Nat
      OBVIOUS
    <3> QED
      BY <2>2, <3>1, <3>2
  <2> QED
    BY <2>1, <2>2
<1>4. \A u \in Users : status'[u] = "active" <=>
        status[u] = "active" /\ ~(e.type = "member.updated" /\ e.of = u)
  BY DEF Typed, RowsFollow, Names
<1>5. ASSUME NEW u \in Users, NEW c \in Channels
      PROVE  Visible(u, c)' <=>
               IF e.type = "channel.membership_changed" /\ e.chan = c /\ e.of = u
               THEN e.action # "removed" ELSE Visible(u, c)
  <2>1. CASE e.type = "channel.membership_changed"
    <3>1. PICK role \in {"none", "member", "owner"} :
            /\ seats' = [seats EXCEPT ![e.chan][e.of] = role]
            /\ role = "none" <=> e.action = "removed"
      BY <2>1 DEF RowsFollow
    <3>2. e.chan \in Channels /\ e.of \in Users
      BY <2>1 DEF Names
    <3>3. seats'[c][u] = IF c = e.chan /\ u = e.of THEN role ELSE seats[c][u]
      BY <3>1, <3>2 DEF Typed
    <3> QED
      BY <2>1, <3>1, <3>3 DEF Visible
  <2>2. CASE e.type # "channel.membership_changed"
    BY <2>2 DEF RowsFollow, Visible
  <2> QED
    BY <2>1, <2>2
<1> QED
  BY <1>1, <1>2, <1>3, <1>4, <1>5

(* The last event's place, and the places of the others. *)
LEMMA LogNext ==
  ASSUME log \in Seq(Events), NEW e \in Events, Writes(e)
  PROVE  /\ log' \in Seq(Events) /\ Len(log) \in Nat /\ Len(log') = Len(log) + 1
         /\ log'[Len(log) + 1] = e /\ Extends(log, log')
         /\ \A i \in Indices : i \in Indices' /\ log'[i] = log[i] /\ log[i] \in Events
         /\ Len(log) + 1 \in Indices'
         /\ \A i \in Indices' : i \in Indices \/ i = Len(log) + 1
         /\ Len(log) + 1 \notin Indices /\ \A i \in Indices : i < Len(log) + 1
<1>1. log' = Append(log, e)
  BY DEF Writes
<1> QED
  BY <1>1, Appended DEF Extends, Indices

LEMMA RecordedNext ==
  ASSUME Typed, cursors \in [Channels -> [Users -> Nat]], log \in Seq(Events),
         NEW e \in Events, Writes(e), Recorded
  PROVE  Recorded'
<1>0. Names(e) /\ MessagesFollow(e) /\ Permitted(e) /\ RowsFollow(e)
  BY DEF Writes
<1> DEFINE Fits(x) ==
      /\ Names(x)
      /\ x.type \in OfMessage => messages'[x.of] # None /\ messages'[x.of].chan = x.chan
      /\ x.type = "message.retracted" => messages'[x.of].deleted
      /\ x.type = "channel.archived" => archived'[x.chan]
      /\ x.type = "read_cursor.updated" => messages'[x.of].cs <= cursors'[x.chan][x.by]
<1>1. ASSUME NEW i \in Indices PROVE Fits(log[i])
  <2> DEFINE x == log[i]
  <2>1. x \in Events
    BY LogNext
  <2>2. /\ Names(x)
        /\ x.type \in OfMessage => messages[x.of] # None /\ messages[x.of].chan = x.chan
        /\ x.type = "message.retracted" => messages[x.of].deleted
        /\ x.type = "channel.archived" => archived[x.chan]
        /\ x.type = "read_cursor.updated" => messages[x.of].cs <= cursors[x.chan][x.by]
    BY DEF Recorded
  <2> HIDE DEF x
  <2>3. /\ x.type \in OfMessage => x.of \in MessageIds
        /\ x.type # "member.updated" => x.chan \in Channels
        /\ x.by \in Users
    BY <2>1, <2>2 DEF Names, Events
  <2>4. x.type \in OfMessage => messages'[x.of] # None /\ messages'[x.of].chan = x.chan
                                /\ messages'[x.of].cs = messages[x.of].cs
    BY <1>0, <2>2, <2>3, MessagesKept
  <2>5. x.type = "message.retracted" => messages'[x.of].deleted
    BY <1>0, <2>2, <2>3, MessagesKept DEF OfMessage
  <2>6. x.type = "channel.archived" => archived'[x.chan]
    BY <1>0, <2>2, <2>3, RowsKept
  <2>7. x.type = "read_cursor.updated" => messages'[x.of].cs <= cursors'[x.chan][x.by]
    <3> SUFFICES ASSUME x.type = "read_cursor.updated"
                 PROVE  messages'[x.of].cs <= cursors'[x.chan][x.by]
      OBVIOUS
    <3>1. messages'[x.of].cs = messages[x.of].cs /\ messages[x.of].cs <= cursors[x.chan][x.by]
      BY <2>2, <2>4 DEF OfMessage
    <3>2. x.chan \in Channels /\ x.by \in Users
      BY <2>3
    <3>4. cursors[x.chan][x.by] <= cursors'[x.chan][x.by] /\ cursors'[x.chan][x.by] \in Nat
      BY <1>0, <3>2, RowsKept
    <3>5. cursors[x.chan][x.by] \in Nat
      BY <3>2
    <3>3. messages[x.of].cs \in Nat
      BY <2>2, <2>3 DEF Typed, Messages, OfMessage
    <3> QED
      BY <3>1, <3>3, <3>4, <3>5
  <2> QED
    BY <2>2, <2>4, <2>5, <2>6, <2>7 DEF x
<1>2. Fits(e)
  <2>1. e.type \in OfMessage => e.of \in MessageIds
    BY <1>0 DEF Names
  <2>2. e.type \in OfMessage => messages'[e.of] # None /\ messages'[e.of].chan = e.chan
    <3>1. CASE e.type = "message.created"
      <4> DEFINE row == [chan |-> e.chan, deleted |-> FALSE,
                         cs |-> Cardinality(InChannel(e.chan)) + 1]
      <4>1. messages' = [messages EXCEPT ![e.of] = row] /\ e.of \in MessageIds
        BY <1>0, <2>1, <3>1 DEF MessagesFollow, OfMessage
      <4>2. row \in Messages /\ row.chan = e.chan
        BY <1>0, <3>1, NextSequenceIsNat DEF Messages, Names
      <4> HIDE DEF row
      <4>3. messages'[e.of] = row
        BY <4>1 DEF Typed
      <4> QED
        BY <4>2, <4>3
    <3>2. CASE e.type \in OfMessage \ {"message.created"}
      <4>1. messages[e.of] # None /\ messages[e.of].chan = e.chan
        BY <1>0, <3>2 DEF MessagesFollow
      <4> QED
        BY <1>0, <2>1, <3>2, <4>1, MessagesKept
    <3> QED
      BY <3>1, <3>2
  <2>3. e.type \in {"message.retracted", "read_cursor.updated"} =>
          messages[e.of] # None /\ e.of \in MessageIds
    BY <1>0, <2>1 DEF MessagesFollow, OfMessage
  <2>4. e.type = "message.retracted" => messages'[e.of].deleted
    BY <1>0, <2>3, MessagesKept
  <2>5. e.type = "channel.archived" => archived'[e.chan]
    BY <1>0, RowsKept
  <2>6. e.type = "read_cursor.updated" => messages'[e.of].cs <= cursors'[e.chan][e.by]
    <3> SUFFICES ASSUME e.type = "read_cursor.updated"
                 PROVE  messages'[e.of].cs <= cursors'[e.chan][e.by]
      OBVIOUS
    <3>0. e.of \in MessageIds /\ messages[e.of] # None
      BY <2>3
    <3>1. messages'[e.of].cs = messages[e.of].cs
      BY <1>0, <3>0, MessagesKept
    <3>3. messages[e.of].cs \in Nat
      BY <3>0 DEF Typed, Messages
    <3>2. cursors'[e.chan][e.by] = messages[e.of].cs
      BY <1>0, RowsKept
    <3> QED
      BY <3>1, <3>2, <3>3
  <2> QED
    BY <1>0, <2>2, <2>4, <2>5, <2>6
<1> HIDE DEF Fits
<1>3. \A i \in Indices' : Fits(log'[i])
  BY <1>1, <1>2, LogNext
<1> QED
  BY <1>3 DEF Recorded, Fits

LEMMA ToldNext ==
  ASSUME Typed, log \in Seq(Events), NEW e \in Events, Writes(e), Recorded, Told
  PROVE  Told'
<1>0. Names(e) /\ MessagesFollow(e)
  BY DEF Writes
<1>1. ASSUME NEW m \in MessageIds, messages'[m] # None
      PROVE  \E i \in Indices' : log'[i].type = "message.created" /\ log'[i].of = m
  <2>1. CASE messages[m] # None
    BY <2>1, LogNext DEF Told
  <2>2. CASE messages[m] = None
    <3>1. e.type = "message.created" /\ e.of = m
      BY <1>0, <1>1, <2>2, MessagesKept
    <3> QED
      BY <3>1, LogNext
  <2> QED
    BY <2>1, <2>2
<1>2. ASSUME NEW m \in MessageIds, messages'[m] # None, messages'[m].deleted
      PROVE  \E i \in Indices' : log'[i].type = "message.retracted" /\ log'[i].of = m
  <2>1. messages[m] # None
    BY <1>0, <1>2, MessagesKept
  <2>2. messages[m].deleted \/ (e.type = "message.retracted" /\ e.of = m)
    BY <1>0, <1>2, <2>1, MessagesKept
  <2>3. CASE messages[m].deleted
    BY <2>1, <2>3, LogNext DEF Told
  <2>4. CASE e.type = "message.retracted" /\ e.of = m
    BY <2>4, LogNext
  <2> QED
    BY <2>2, <2>3, <2>4
<1>3. ASSUME NEW i \in Indices', NEW j \in Indices', log'[i].type = "message.created",
             log'[j].type = "message.created", log'[i].of = log'[j].of
      PROVE  i = j
  <2>1. \A k \in Indices : log[k].type = "message.created" =>
          ~(e.type = "message.created" /\ e.of = log[k].of)
    BY <1>0 DEF Recorded, OfMessage, MessagesFollow
  <2> QED
    BY <1>3, <2>1, LogNext DEF Told
<1> QED
  BY <1>1, <1>2, <1>3 DEF Told

LEMMA HasLatestNext ==
  ASSUME NEW s \in Seq(Events), NEW e \in Events, HasLatest(s)
  PROVE  HasLatest(Append(s, e))
<1> DEFINE t == Append(s, e)
<1>1. Extends(s, t) /\ Len(s) \in Nat /\ Len(t) = Len(s) + 1
  BY Appended
<1> HIDE DEF t
<1> SUFFICES ASSUME NEW u \in Users, NEW c \in Channels, NEW i \in 1..(Len(t) + 1),
                    SeatChanges(t, u, c, i) # {}
             PROVE  \E j \in SeatChanges(t, u, c, i) : \A k \in SeatChanges(t, u, c, i) : k <= j
  BY DEF HasLatest, t
<1>2. CASE i = Len(s) + 2
  <2>1. Len(s) + 1 + 1 = Len(s) + 2
    BY <1>1
  <2> QED
    BY <1>2, <2>1, SeatedNext DEF t
<1>3. CASE i # Len(s) + 2
  <2>1. i \in 1..(Len(s) + 1)
    BY <1>1, <1>3
  <2>2. SeatChanges(t, u, c, i) = SeatChanges(s, u, c, i)
    BY <1>1, <2>1, BeforeKept
  <2> QED
    BY <2>1, <2>2 DEF HasLatest
<1> QED
  BY <1>2, <1>3

LEMMA CurrentNext ==
  ASSUME Typed, cursors \in [Channels -> [Users -> Nat]], log \in Seq(Events), HasLatest(log),
         NEW e \in Events, Writes(e), Current
  PROVE  Current'
<1>1. log' = Append(log, e) /\ Len(log) \in Nat /\ Len(log') + 1 = Len(log) + 2
      /\ Len(log) + 1 + 1 = Len(log) + 2
  BY LogNext DEF Writes
<1>2. Names(e) /\ MessagesFollow(e) /\ Permitted(e) /\ RowsFollow(e)
  BY DEF Writes
<1>3. ASSUME NEW u \in Users
      PROVE  status'[u] = "active" <=> ActiveIn(log', u, Len(log') + 1)
  <2>1. ActiveIn(log', u, Len(log') + 1) <=>
          ActiveIn(log, u, Len(log) + 1) /\ ~(e.type = "member.updated" /\ e.of = u)
    BY <1>1, ActiveNext
  <2>2. status'[u] = "active" <=>
          status[u] = "active" /\ ~(e.type = "member.updated" /\ e.of = u)
    BY <1>2, RowsKept
  <2> QED
    BY <2>1, <2>2 DEF Current
<1>4. ASSUME NEW u \in Users, NEW c \in Channels
      PROVE  Visible(u, c)' <=> SeatedIn(log', u, c, Len(log') + 1)
  <2>1. SeatedIn(log', u, c, Len(log') + 1) <=>
          IF e.type = "channel.membership_changed" /\ e.chan = c /\ e.of = u
          THEN e.action # "removed" ELSE SeatedIn(log, u, c, Len(log) + 1)
    BY <1>1, SeatedNext
  <2>2. Visible(u, c)' <=>
          IF e.type = "channel.membership_changed" /\ e.chan = c /\ e.of = u
          THEN e.action # "removed" ELSE Visible(u, c)
    BY <1>2, RowsKept
  <2>3. Visible(u, c) <=> SeatedIn(log, u, c, Len(log) + 1)
    BY DEF Current
  <2> QED
    BY <2>1, <2>2, <2>3
<1> QED
  BY <1>3, <1>4 DEF Current

(* Whom the log before it lets hear an event. *)
MembersIn(s, c, i) == {u \in Users : ActiveIn(s, u, i) /\ SeatedIn(s, u, c, i)}

HearersIn(s, i) ==
  CASE s[i].type = "read_cursor.updated" -> {s[i].by}
    [] s[i].type = "member.updated" -> {u \in Users \ {s[i].of} : ActiveIn(s, u, i)}
    [] s[i].type = "channel.membership_changed" /\ s[i].action = "added" ->
         MembersIn(s, s[i].chan, i) \cup {s[i].of}
    [] OTHER -> MembersIn(s, s[i].chan, i)

LEMMA HearersAreAudience ==
  /\ AudienceFollowsLog <=> \A i \in Indices : log[i].audience = HearersIn(log, i)
  /\ AudienceFollowsLog' <=> \A i \in Indices' : log'[i].audience = HearersIn(log', i)
BY DEF AudienceFollowsLog, HearersIn, MembersIn, SeatedBefore, SeatedIn, SeatChanges, Latest,
       ActiveBefore, ActiveIn

LEMMA MembersKept ==
  ASSUME NEW s, NEW t, Extends(s, t), HasLatest(s), NEW i \in 1..(Len(s) + 1)
  PROVE  /\ \A c \in Channels : MembersIn(t, c, i) = MembersIn(s, c, i)
         /\ \A u \in Users : ActiveIn(t, u, i) <=> ActiveIn(s, u, i)
<1>1. \A u \in Users : ActiveIn(t, u, i) <=> ActiveIn(s, u, i)
  BY ActiveKept
<1>2. \A u \in Users, c \in Channels : SeatedIn(t, u, c, i) <=> SeatedIn(s, u, c, i)
  BY BeforeKept
<1>3. \A c \in Channels : MembersIn(t, c, i) = MembersIn(s, c, i)
  BY <1>1, <1>2 DEF MembersIn
<1> QED
  BY <1>1, <1>3

LEMMA AudienceNext ==
  ASSUME Typed, log \in Seq(Events), HasLatest(log), Recorded, NEW e \in Events, Writes(e),
         Current, AudienceFollowsLog
  PROVE  AudienceFollowsLog'
<1>1. ASSUME NEW i \in Indices PROVE log'[i].audience = HearersIn(log', i)
  <2>1. /\ log'[i] = log[i] /\ log[i] \in Events /\ Names(log[i]) /\ Extends(log, log')
        /\ i \in 1..(Len(log) + 1)
    BY LogNext DEF Recorded, Indices
  <2>2. log[i].type # "member.updated" => MembersIn(log', log[i].chan, i) = MembersIn(log, log[i].chan, i)
    BY <2>1, MembersKept DEF Names
  <2>3. {u \in Users \ {log[i].of} : ActiveIn(log', u, i)} = {u \in Users \ {log[i].of} : ActiveIn(log, u, i)}
    <3>1. \A u \in Users : ActiveIn(log', u, i) <=> ActiveIn(log, u, i)
      BY <2>1, MembersKept
    <3> QED
      BY <3>1
  <2>4. HearersIn(log', i) = HearersIn(log, i)
    BY <2>1, <2>2, <2>3 DEF HearersIn
  <2> QED
    BY <2>1, <2>4, HearersAreAudience
<1>2. log'[Len(log) + 1].audience = HearersIn(log', Len(log) + 1)
  <2> DEFINE n == Len(log) + 1
  <2>1. log'[n] = e /\ Extends(log, log') /\ n \in 1..(Len(log) + 1)
    BY LogNext
  <2>2. Names(e) /\ Addressed(e)
    BY DEF Writes
  <2>3. \A u \in Users : status[u] = "active" <=> ActiveIn(log, u, n)
    BY DEF Current
  <2>4. \A u \in Users, c \in Channels : Visible(u, c) <=> SeatedIn(log, u, c, n)
    BY DEF Current
  <2> HIDE DEF n
  <2>5. e.type # "member.updated" => Audience(e.chan) = MembersIn(log', e.chan, n)
    <3>1. \A c \in Channels : Audience(c) = MembersIn(log, c, n)
      BY <2>3, <2>4 DEF Audience, MembersIn
    <3> QED
      BY <2>1, <2>2, <3>1, MembersKept DEF Names
  <2>6. {u \in Users \ {e.of} : status[u] = "active"} = {u \in Users \ {e.of} : ActiveIn(log', u, n)}
    <3>1. \A u \in Users : ActiveIn(log', u, n) <=> ActiveIn(log, u, n)
      BY <2>1, MembersKept
    <3> QED
      BY <2>3, <3>1
  <2>7. e.audience = HearersIn(log', n)
    BY <2>1, <2>2, <2>5, <2>6 DEF Addressed, HearersIn
  <2> QED
    BY <2>1, <2>7 DEF n
<1> QED
  BY <1>1, <1>2, LogNext, HearersAreAudience

LEMMA EndsNext ==
  ASSUME Typed, log \in Seq(Events), NEW e \in Events, Writes(e), Recorded, EndsAreFinal
  PROVE  EndsAreFinal'
<1> DEFINE Ends(x, y) ==
      /\ x.type = "channel.archived" /\ y.chan = x.chan =>
           y.type \in {"message.retracted", "read_cursor.updated"}
      /\ /\ x.type = "message.retracted"
         /\ y.type \in {"reaction.added", "reaction.removed", "message.retracted"}
         => y.of # x.of
<1>1. \A i, j \in Indices : i < j => Ends(log[i], log[j])
  BY DEF EndsAreFinal
<1>2. ASSUME NEW i \in Indices PROVE Ends(log[i], e)
  <2> DEFINE x == log[i]
  <2>1. /\ Names(x) /\ (x.type = "message.retracted" => messages[x.of].deleted)
        /\ (x.type = "channel.archived" => archived[x.chan])
    BY DEF Recorded
  <2>2. Names(e) /\ Permitted(e) /\ e.type \in Types
    BY DEF Writes, Events
  <2>3. x.type = "channel.archived" => x.chan # None
    BY <2>1 DEF Names
  <2> QED
    BY <2>1, <2>2, <2>3 DEF Names, Permitted, Types
<1> HIDE DEF Ends
<1>3. ASSUME NEW i \in Indices', NEW j \in Indices', i < j PROVE Ends(log'[i], log'[j])
  <2>1. i \in Indices
    BY <1>3, LogNext DEF Indices
  <2> QED
    BY <1>1, <1>2, <1>3, <2>1, LogNext
<1> QED
  BY <1>3 DEF EndsAreFinal, Ends

(* Counting along a one-to-one map. *)
LEMMA SameCount ==
  ASSUME NEW S, NEW T, IsFiniteSet(S), NEW f \in [S -> T],
         \A a, b \in S : f[a] = f[b] => a = b, \A t \in T : \E a \in S : f[a] = t
  PROVE  Cardinality(T) = Cardinality(S)
<1>1. f \in Bijection(S, T)
  BY DEF Bijection, Injection, Surjection, IsInjective
<1>2. ExistsBijection(S, T)
  BY <1>1 DEF ExistsBijection
<1> QED
  BY <1>2, FS_Bijection

(* The created events a read event at place i counts. *)
CountedBy(i) ==
  {j \in 1..(i - 1) :
     /\ log[j].type = "message.created"
     /\ log[j].chan = log[i].chan
     /\ log[j].by # log[i].by
     /\ messages[log[j].of].cs > messages[log[i].of].cs
     /\ \A k \in 1..(i - 1) :
          ~(log[k].type = "message.retracted" /\ log[k].of = log[j].of)}

Advances(i) ==
  \A j \in 1..(i - 1) :
    /\ log[j].type = "read_cursor.updated"
    /\ log[j].chan = log[i].chan
    /\ log[j].by = log[i].by
    => messages[log[j].of].cs < messages[log[i].of].cs

LEMMA ReadsCount ==
  /\ ReadsCountTheLog <=>
       \A i \in Indices : log[i].type = "read_cursor.updated" =>
         log[i].unread = Cardinality(CountedBy(i)) /\ Advances(i)
  /\ ReadsCountTheLog' <=>
       \A i \in Indices' : log'[i].type = "read_cursor.updated" =>
         log'[i].unread = Cardinality(CountedBy(i)') /\ Advances(i)'
BY DEF ReadsCountTheLog, CountedBy, Advances

(* The messages of others in c above n that the log has not retracted. *)
LiveEvents(u, c, n) ==
  {j \in Indices :
     /\ log[j].type = "message.created" /\ log[j].chan = c /\ log[j].by # u
     /\ messages[log[j].of].cs > n
     /\ \A k \in Indices : ~(log[k].type = "message.retracted" /\ log[k].of = log[j].of)}

(* A read is counted as its event is written. *)
LEMMA CountIsUnread ==
  ASSUME Typed, log \in Seq(Events), Recorded, Told,
         NEW u \in Users, NEW c \in Channels, NEW n \in Nat
  PROVE  Unread(u, c, n) = Cardinality(LiveEvents(u, c, n))
<1> DEFINE S == {j \in Indices :
             /\ log[j].type = "message.created" /\ log[j].chan = c /\ log[j].by # u
             /\ messages[log[j].of].cs > n
             /\ \A k \in Indices : ~(log[k].type = "message.retracted" /\ log[k].of = log[j].of)}
           T == {m \in InChannel(c) : m[1] # u /\ ~messages[m].deleted /\ messages[m].cs > n}
           f == [j \in S |-> log[j].of]
<1>1. IsFiniteSet(S)
  <2>1. Len(log) \in Nat
    OBVIOUS
  <2>2. IsFiniteSet(1..Len(log)) /\ S \in SUBSET (1..Len(log))
    BY <2>1, FS_Interval DEF Indices
  <2> QED
    BY <2>2, FS_Subset
<1>2. ASSUME NEW j \in Indices, log[j].type = "message.created"
      PROVE  /\ log[j].of \in MessageIds /\ messages[log[j].of] # None
             /\ messages[log[j].of].chan = log[j].chan /\ log[j].of[1] = log[j].by
  BY <1>2 DEF Recorded, Names, OfMessage
<1>3. ASSUME NEW m \in MessageIds, messages[m] # None
      PROVE  messages[m].deleted <=>
               \E k \in Indices : log[k].type = "message.retracted" /\ log[k].of = m
  BY <1>3 DEF Recorded, Told
<1>4. ASSUME NEW j \in S PROVE log[j].of \in T
  <2>1. j \in Indices /\ log[j].type = "message.created" /\ log[j].chan = c /\ log[j].by # u
        /\ messages[log[j].of].cs > n
        /\ \A k \in Indices : ~(log[k].type = "message.retracted" /\ log[k].of = log[j].of)
    OBVIOUS
  <2>2. log[j].of \in InChannel(c) /\ log[j].of[1] # u
    BY <1>2, <2>1 DEF InChannel
  <2>3. ~messages[log[j].of].deleted
    BY <1>2, <1>3, <2>1
  <2> QED
    BY <2>1, <2>2, <2>3
<1>5. ASSUME NEW m \in T PROVE \E j \in S : log[j].of = m
  <2>1. m \in MessageIds /\ messages[m] # None /\ messages[m].chan = c /\ m[1] # u
        /\ ~messages[m].deleted /\ messages[m].cs > n
    BY DEF InChannel
  <2>2. PICK j \in Indices : log[j].type = "message.created" /\ log[j].of = m
    BY <2>1 DEF Told
  <2>3. log[j].chan = c /\ log[j].by # u
    BY <1>2, <2>1, <2>2
  <2>4. \A k \in Indices : ~(log[k].type = "message.retracted" /\ log[k].of = log[j].of)
    BY <1>3, <2>1, <2>2
  <2> QED
    BY <2>1, <2>2, <2>3, <2>4
<1>6. ASSUME NEW a \in S, NEW b \in S, log[a].of = log[b].of PROVE a = b
  BY <1>6 DEF Told
<1> HIDE DEF S, T
<1>7. f \in [S -> T] /\ (\A a, b \in S : f[a] = f[b] => a = b) /\ \A t \in T : \E a \in S : f[a] = t
  BY <1>4, <1>5, <1>6
<1>8. Cardinality(T) = Cardinality(S)
  BY <1>1, <1>7, SameCount, ZenonT(40)
<1> QED
  BY <1>8 DEF Unread, LiveEvents, S, T

LEMMA ReadsNext ==
  ASSUME Typed, cursors \in [Channels -> [Users -> Nat]], log \in Seq(Events),
         NEW e \in Events, Writes(e), Recorded, Told, ReadsCountTheLog
  PROVE  ReadsCountTheLog'
<1>0. Names(e) /\ MessagesFollow(e) /\ Permitted(e)
  BY DEF Writes
<1>1. \A j \in Indices : log[j].type \in OfMessage =>
        log[j].of \in MessageIds /\ messages[log[j].of] # None
        /\ messages'[log[j].of].cs = messages[log[j].of].cs
  <2>1. \A j \in Indices : log[j].type \in OfMessage =>
          log[j].of \in MessageIds /\ messages[log[j].of] # None
    BY DEF Recorded, Names
  <2> QED
    BY <1>0, <2>1, MessagesKept
<1>2. ASSUME NEW i \in Indices, log[i].type = "read_cursor.updated"
      PROVE  log'[i].unread = Cardinality(CountedBy(i)') /\ Advances(i)'
  <2>1. \A j \in 1..(i - 1) : j \in Indices /\ log'[j] = log[j]
    BY LogNext DEF Indices
  <2>2. log'[i] = log[i]
    BY LogNext
  <2>3. messages'[log[i].of].cs = messages[log[i].of].cs
    BY <1>1, <1>2 DEF OfMessage
  <2>4. CountedBy(i)' = CountedBy(i)
    <3> DEFINE Withdrawn(j) == \E k \in 1..(i - 1) :
                            log[k].type = "message.retracted" /\ log[k].of = log[j].of
               WithdrawnNext(j) == \E k \in 1..(i - 1) :
                                log'[k].type = "message.retracted" /\ log'[k].of = log'[j].of
               Above(j) == messages[log[j].of].cs > messages[log[i].of].cs
               AboveNext(j) == messages'[log'[j].of].cs > messages'[log'[i].of].cs
    <3>1. \A j \in 1..(i - 1) : WithdrawnNext(j) <=> Withdrawn(j)
      BY <2>1
    <3>2. \A j \in 1..(i - 1) : log[j].type = "message.created" => (AboveNext(j) <=> Above(j))
      BY <1>1, <2>1, <2>2, <2>3 DEF OfMessage
    <3>3. CountedBy(i) = {j \in 1..(i - 1) : /\ log[j].type = "message.created"
                            /\ log[j].chan = log[i].chan /\ log[j].by # log[i].by
                            /\ Above(j) /\ ~Withdrawn(j)}
      BY DEF CountedBy
    <3>4. CountedBy(i)' = {j \in 1..(i - 1) : /\ log'[j].type = "message.created"
                            /\ log'[j].chan = log'[i].chan /\ log'[j].by # log'[i].by
                            /\ AboveNext(j) /\ ~WithdrawnNext(j)}
      BY DEF CountedBy
    <3> HIDE DEF Withdrawn, WithdrawnNext, Above, AboveNext
    <3> QED
      BY <2>1, <2>2, <3>1, <3>2, <3>3, <3>4
  <2>5. Advances(i)' <=> Advances(i)
    <3>1. ASSUME NEW j \in 1..(i - 1), log[j].type = "read_cursor.updated"
          PROVE  (messages'[log'[j].of].cs < messages'[log'[i].of].cs)
                   <=> (messages[log[j].of].cs < messages[log[i].of].cs)
      BY <1>1, <2>1, <2>2, <2>3, <3>1 DEF OfMessage
    <3> QED
      BY <2>1, <2>2, <3>1 DEF Advances
  <2> QED
    BY <1>2, <2>2, <2>4, <2>5, ReadsCount
<1>3. ASSUME NEW n, n = Len(log) + 1, e.type = "read_cursor.updated"
      PROVE  e.unread = Cardinality(CountedBy(n)') /\ Advances(n)'
  <2>1. /\ messages' = messages /\ messages[e.of] # None /\ e.of \in MessageIds
        /\ e.unread = Unread(e.by, e.chan, messages[e.of].cs)
        /\ cursors[e.chan][e.by] < messages[e.of].cs
        /\ e.by \in Users /\ e.chan \in Channels
    BY <1>0, <1>3 DEF Names, MessagesFollow, Permitted, OfMessage, Events
  <2>2. messages[e.of].cs \in Nat
    BY <2>1 DEF Typed, Messages
  <2>3. /\ 1..(n - 1) = Indices /\ log'[n] = e /\ \A j \in Indices : log'[j] = log[j]
    BY <1>3, LogNext DEF Indices
  <2>4. CountedBy(n)' = LiveEvents(e.by, e.chan, messages[e.of].cs)
    <3> DEFINE Withdrawn(j) == \E k \in Indices :
                            log[k].type = "message.retracted" /\ log[k].of = log[j].of
               WithdrawnNext(j) == \E k \in 1..(n - 1) :
                                log'[k].type = "message.retracted" /\ log'[k].of = log'[j].of
    <3>1. \A j \in Indices : WithdrawnNext(j) <=> Withdrawn(j)
      BY <2>3
    <3> DEFINE Live(j) == /\ log[j].type = "message.created"
                          /\ log[j].chan = e.chan /\ log[j].by # e.by
                          /\ messages[log[j].of].cs > messages[e.of].cs /\ ~Withdrawn(j)
               LiveNext(j) == /\ log'[j].type = "message.created"
                              /\ log'[j].chan = log'[n].chan /\ log'[j].by # log'[n].by
                              /\ messages'[log'[j].of].cs > messages'[log'[n].of].cs
                              /\ ~WithdrawnNext(j)
    <3>2. LiveEvents(e.by, e.chan, messages[e.of].cs) = {j \in Indices : Live(j)}
      BY DEF LiveEvents
    <3>3. CountedBy(n)' = {j \in 1..(n - 1) : LiveNext(j)}
      BY DEF CountedBy
    <3>4. ASSUME NEW j \in Indices PROVE LiveNext(j) <=> Live(j)
      <4> HIDE DEF Withdrawn, WithdrawnNext
      <4>1. log'[j] = log[j] /\ log'[n] = e /\ messages' = messages /\ (WithdrawnNext(j) <=> Withdrawn(j))
        BY <2>1, <2>3, <3>1
      <4> QED
        BY <4>1
    <3> HIDE DEF Live, LiveNext
    <3>5. {j \in 1..(n - 1) : LiveNext(j)} = {j \in Indices : LiveNext(j)}
      BY <2>3, Zenon
    <3>6. {j \in Indices : LiveNext(j)} = {j \in Indices : Live(j)}
      BY <3>4, Zenon
    <3> QED
      BY <3>2, <3>3, <3>5, <3>6, Zenon
  <2>5. e.unread = Cardinality(CountedBy(n)')
    <3>1. e.by \in Users /\ e.chan \in Channels
      BY <2>1
    <3>2. Unread(e.by, e.chan, messages[e.of].cs)
            = Cardinality(LiveEvents(e.by, e.chan, messages[e.of].cs))
      BY <2>2, <3>1, CountIsUnread
    <3>3. e.unread = Unread(e.by, e.chan, messages[e.of].cs)
      BY <2>1
    <3> QED
      BY <2>4, <3>2, <3>3, Zenon
  <2>6. ASSUME NEW j \in Indices, log[j].type = "read_cursor.updated", log[j].chan = e.chan,
               log[j].by = e.by
        PROVE  messages[log[j].of].cs < messages[e.of].cs
    <3>1. messages[log[j].of].cs <= cursors[e.chan][e.by]
      BY <2>6 DEF Recorded
    <3>2. messages[log[j].of].cs \in Nat
      BY <1>1, <2>6 DEF Typed, Messages, OfMessage
    <3>3. cursors[e.chan][e.by] \in Nat
      BY <2>1
    <3> QED
      BY <2>1, <2>2, <3>1, <3>2, <3>3
  <2>7. Advances(n)'
    BY <2>1, <2>3, <2>6 DEF Advances
  <2> QED
    BY <2>5, <2>7
<1> QED
  BY <1>2, <1>3, LogNext, ReadsCount

-----------------------------------------------------------------------------
(* The bounds, and the sessions that are idle.                             *)

Busy == {r \in Requests : work[r].at # "idle"}

(* Every call is written at most once, and every session is of a call. *)
Counted ==
  /\ IsFiniteSet(Busy) /\ calls \in Nat
  /\ Len(log) + Cardinality(Busy) <= calls /\ calls <= MaxCalls

Settled(r) == work[r].at = "idle" => work[r] = Idle /\ locks[r] = {}

Bounded ==
  /\ reactions \subseteq MessageIds \X Users
  /\ \A m \in MessageIds : messages[m] # None => messages[m].cs \in 1..MaxCalls
  /\ \A c \in Channels, u \in Users : cursors[c][u] \in 0..MaxCalls

HistoryInv == Informed /\ History /\ Bounded /\ Counted /\ \A r \in Requests : Settled(r)

(* A channel has no more messages than the log has events. *)
LEMMA MessagesInLog ==
  ASSUME log \in Seq(Events), Recorded, Told, NEW c \in Channels
  PROVE  Cardinality(InChannel(c)) \in Nat /\ Cardinality(InChannel(c)) <= Len(log)
<1> DEFINE S == {j \in Indices : log[j].type = "message.created" /\ log[j].chan = c}
           T == InChannel(c)
           f == [j \in S |-> log[j].of]
<1>1. Len(log) \in Nat
  OBVIOUS
<1>2. IsFiniteSet(1..Len(log)) /\ Cardinality(1..Len(log)) = Len(log)
  <2> DEFINE n == Len(log)
  <2>1. 1 \in Int /\ n \in Int /\ n \in Nat
    BY <1>1
  <2> HIDE DEF n
  <2>2. IsFiniteSet(1..n) /\ Cardinality(1..n) = IF 1 > n THEN 0 ELSE n - 1 + 1
    BY <2>1, FS_Interval
  <2>3. Cardinality(1..n) = n
    BY <2>1, <2>2
  <2> QED
    BY <2>2, <2>3 DEF n
<1>3. S \in SUBSET (1..Len(log))
  BY DEF Indices
<1>4. IsFiniteSet(S) /\ Cardinality(S) <= Len(log)
  BY <1>2, <1>3, FS_Subset
<1>5. ASSUME NEW j \in S PROVE log[j].of \in T
  BY DEF Recorded, Names, OfMessage, InChannel
<1>6. ASSUME NEW m \in T PROVE \E j \in S : log[j].of = m
  <2>1. m \in MessageIds /\ messages[m] # None /\ messages[m].chan = c
    BY DEF InChannel
  <2>2. PICK j \in Indices : log[j].type = "message.created" /\ log[j].of = m
    BY <2>1 DEF Told
  <2>3. log[j].chan = c
    BY <2>1, <2>2 DEF Recorded, OfMessage
  <2> QED
    BY <2>2, <2>3
<1> HIDE DEF S, T
<1>7. f \in [S -> T] /\ \A t \in T : \E j \in S : f[j] = t
  BY <1>5, <1>6
<1>8. f \in Surjection(S, T)
  BY <1>7 DEF Surjection
<1>9. IsFiniteSet(T) /\ Cardinality(T) <= Cardinality(S)
  BY <1>4, <1>8, FS_Surjection
<1>10. Cardinality(T) \in Nat /\ Cardinality(S) \in Nat
  BY <1>4, <1>9, FS_CardinalityType
<1> QED
  BY <1>1, <1>4, <1>9, <1>10 DEF T

LEMMA PreparesSettled ==
  ASSUME NEW r \in Requests, IInv, Prepares(r)
  PROVE  work[r].at # "idle" /\ (End(r) \/ work'[r].at # "idle")
<1>1. Typed
  BY DEF IInv
<1>2. ASSUME NEW stage, Goto(r, stage) PROVE work'[r].at = stage
  BY <1>1, <1>2 DEF Goto, Typed, WorkRecords
<1>3. ASSUME NEW audience, NEW unread, Publish(r, audience, unread)
      PROVE  work'[r].at \in {"event_ref", "fanout"}
  BY <1>1, <1>3 DEF Publish, Typed, WorkRecords
<1>4. CASE \/ LockKey(r) \/ LockSender(r) \/ Authorize(r) \/ LockChannel(r)
           \/ LockPrincipal(r) \/ LockTarget(r) \/ LockWorkspace(r)
           \/ LockCursor(r) \/ CheckReference(r)
  <2>1. /\ work[r].at # "idle"
        /\ End(r) \/ \E stage \in {"chan", "sender", "authorize", "sequence", "principal",
                                   "workspace", "apply", "chan_ref", "member_ref", "fanout"} :
                       Goto(r, stage)
    BY <1>4 DEF LockKey, LockSender, Authorize, LockChannel, LockPrincipal, LockTarget,
                LockWorkspace, LockCursor, CheckReference, At
  <2> QED
    BY <1>2, <2>1
<1>5. CASE AllocateForMessage(r) \/ AllocateForCursor(r)
  <2>1. work[r].at # "idle" /\ \E audience, unread : Publish(r, audience, unread)
    BY <1>5 DEF AllocateForMessage, AllocateForCursor, At
  <2> QED
    BY <1>3, <2>1
<1>6. CASE \/ Retract(r) \/ AddReaction(r) \/ RemoveReaction(r)
           \/ UpsertChannelMember(r) \/ RemoveChannelMember(r)
           \/ ArchiveChannel(r) \/ DisableAgent(r)
  <2>1. \E op, changes, audience : Proceed(r, op, changes, audience)
    BY <1>6 DEF Retract, AddReaction, RemoveReaction, UpsertChannelMember, RemoveChannelMember,
                ArchiveChannel, DisableAgent
  <2>2. work[r].at # "idle" /\ (End(r) \/ \E audience : Publish(r, audience, 0))
    BY <2>1 DEF Proceed, At
  <2> QED
    BY <1>3, <2>2
<1>7. CASE FanOut(r)
  BY <1>1, <1>7 DEF FanOut, At, Typed, WorkRecords
<1> QED
  BY <1>4, <1>5, <1>6, <1>7 DEF Prepares

LEMMA BusyEnds ==
  ASSUME NEW r \in Requests, Typed, IsFiniteSet(Busy), work[r].at # "idle", End(r)
  PROVE  /\ Busy' = Busy \ {r} /\ IsFiniteSet(Busy')
         /\ Cardinality(Busy') + 1 = Cardinality(Busy) /\ Cardinality(Busy') \in Nat
<1>1. Busy' = Busy \ {r}
  <2>1. work'[r] = Idle /\ \A q \in Requests \ {r} : work'[q] = work[q]
    BY DEF End, Typed
  <2>2. work'[r].at = "idle"
    BY <2>1 DEF Idle
  <2> QED
    BY <2>1, <2>2 DEF Busy
<1>2. r \in Busy
  BY DEF Busy
<1>3. IsFiniteSet(Busy \ {r}) /\ Cardinality(Busy \ {r}) = Cardinality(Busy) - 1
  BY <1>2, FS_RemoveElement
<1>4. Cardinality(Busy) \in Nat /\ Cardinality(Busy \ {r}) \in Nat
  BY <1>3, FS_CardinalityType
<1> QED
  BY <1>1, <1>3, <1>4

(* A session that is another's business stays settled. *)
LEMMA OthersSettled ==
  ASSUME NEW r \in Requests, Apart(r), Settled(r)', \A q \in Requests : Settled(q)
  PROVE  \A q \in Requests : Settled(q)'
BY DEF Apart, Settled

LEMMA EndsSettled ==
  ASSUME NEW r \in Requests, Typed, End(r), \A q \in Requests : Settled(q)
  PROVE  \A q \in Requests : Settled(q)'
<1>1. Apart(r)
  BY EndsIdle
<1>2. Settled(r)'
  BY DEF End, Typed, Settled
<1> QED
  BY <1>1, <1>2, OthersSettled

LEMMA HistoryNext ==
  ASSUME Typed, cursors \in [Channels -> [Users -> Nat]], History, NEW e \in Events, Writes(e)
  PROVE  History'
<1>1. log' = Append(log, e)
  BY DEF Writes
<1>2. log' \in Seq(Events) /\ HasLatest(log')
  BY <1>1, HasLatestNext, LogNext DEF History
<1>3. Recorded' /\ Told' /\ Current'
  BY RecordedNext, ToldNext, CurrentNext DEF History
<1>4. AudienceFollowsLog' /\ EndsAreFinal' /\ ReadsCountTheLog'
  BY AudienceNext, EndsNext, ReadsNext DEF History
<1> QED
  BY <1>2, <1>3, <1>4 DEF History

LEMMA HistoryKept ==
  ASSUME History, UNCHANGED data
  PROVE  History'
<1>1. UNCHANGED <<status, seats, archived, messages, cursors, log>> /\ Indices' = Indices
  BY DEF data, Indices
<1>2. log' \in Seq(Events) /\ HasLatest(log')
  BY <1>1 DEF History
<1>3. Recorded' /\ Told' /\ EndsAreFinal'
  BY <1>1 DEF History, Recorded, Told, EndsAreFinal
<1>4. Current'
  BY <1>1 DEF History, Current, Visible
<1>5. AudienceFollowsLog'
  BY <1>1, HearersAreAudience DEF History
<1>6. ReadsCountTheLog'
  <2>1. \A i : CountedBy(i)' = CountedBy(i) /\ (Advances(i)' <=> Advances(i))
    BY <1>1 DEF CountedBy, Advances
  <2> QED
    BY <1>1, <2>1, ReadsCount DEF History
<1> QED
  BY <1>2, <1>3, <1>4, <1>5, <1>6 DEF History

LEMMA BoundedNext ==
  ASSUME Typed, cursors \in [Channels -> [Users -> Nat]], History, Bounded,
         NEW e \in Events, Writes(e), Len(log) + 1 <= MaxCalls,
         reactions' \subseteq MessageIds \X Users
  PROVE  Bounded'
<1>1. Names(e) /\ MessagesFollow(e) /\ Permitted(e) /\ RowsFollow(e)
  BY DEF Writes
<1>2. ASSUME NEW m \in MessageIds, messages'[m] # None PROVE messages'[m].cs \in 1..MaxCalls
  <2>1. CASE messages[m] # None
    BY <1>1, <2>1, MessagesKept DEF Bounded
  <2>2. CASE messages[m] = None
    <3> DEFINE row == [chan |-> e.chan, deleted |-> FALSE,
                       cs |-> Cardinality(InChannel(e.chan)) + 1]
    <3>1. e.type = "message.created" /\ e.of = m
      BY <1>1, <1>2, <2>2, MessagesKept
    <3>2. messages' = [messages EXCEPT ![m] = row] /\ e.chan \in Channels
      BY <1>1, <3>1 DEF MessagesFollow, Names
    <3>3. row.cs = Cardinality(InChannel(e.chan)) + 1
      OBVIOUS
    <3> HIDE DEF row
    <3>4. messages'[m] = row
      BY <3>2 DEF Typed
    <3>5. /\ Cardinality(InChannel(e.chan)) \in Nat /\ Cardinality(InChannel(e.chan)) <= Len(log)
          /\ Len(log) \in Nat
      BY <3>2, MessagesInLog DEF History
    <3> QED
      BY <3>3, <3>4, <3>5, CallsBoundAssumption
  <2> QED
    BY <2>1, <2>2
<1>3. ASSUME NEW c \in Channels, NEW u \in Users PROVE cursors'[c][u] \in 0..MaxCalls
  <2>1. CASE e.type = "read_cursor.updated"
    <3>1. /\ e.chan \in Channels /\ e.by \in Users /\ e.of \in MessageIds /\ messages[e.of] # None
          /\ cursors' = [cursors EXCEPT ![e.chan][e.by] = messages[e.of].cs]
      BY <1>1, <2>1 DEF Names, RowsFollow, Events, MessagesFollow, OfMessage
    <3>2. messages[e.of].cs \in 1..MaxCalls
      BY <3>1 DEF Bounded
    <3>3. cursors'[c][u] = IF c = e.chan /\ u = e.by THEN messages[e.of].cs ELSE cursors[c][u]
      BY <3>1
    <3> QED
      BY <3>2, <3>3, CallsBoundAssumption DEF Bounded
  <2>2. CASE e.type # "read_cursor.updated"
    BY <1>1, <2>2 DEF RowsFollow, Bounded
  <2> QED
    BY <2>1, <2>2
<1> QED
  BY <1>2, <1>3 DEF Bounded

LEMMA ReactionsTyped ==
  ASSUME NEW r \in Requests, Informed, Bounded, Commits(r)
  PROVE  reactions' \subseteq MessageIds \X Users
<1>1. CASE CommitReaction(r)
  <2>1. work[r].at = "fanout" /\ work[r].call.op \in {"react", "unreact"}
    BY <1>1 DEF CommitReaction, Committing, At, Does
  <2>2. work[r].call \in Calls /\ work[r].call.msg \in MessageIds
    BY <2>1, NamedExist DEF OnMessages
  <2>3. work[r].call.by \in Users
    BY <2>2, CallTypes
  <2>4. {<<work[r].call.msg, work[r].call.by>>} \subseteq MessageIds \X Users
    BY <2>2, <2>3
  <2>5. \/ reactions' = reactions \cup {<<work[r].call.msg, work[r].call.by>>}
        \/ reactions' = reactions \ {<<work[r].call.msg, work[r].call.by>>}
    BY <1>1 DEF CommitReaction
  <2>6. reactions \subseteq MessageIds \X Users
    BY DEF Bounded
  <2> QED
    BY <2>4, <2>5, <2>6
<1>2. CASE ~CommitReaction(r)
  <2>1. reactions' = reactions
    BY <1>2 DEF Commits, CommitMessage, CommitRetract, CommitMembership, CommitArchive,
                CommitDisable, CommitCursor
  <2> QED
    BY <2>1, SMTT(30) DEF Bounded
<1> QED
  BY <1>1, <1>2

LEMMA BoundedKept ==
  ASSUME Bounded, UNCHANGED data
  PROVE  Bounded'
BY DEF Bounded, data

LEMMA NextHistory == HistoryInv /\ [Next]_vars => HistoryInv'
<1> SUFFICES ASSUME HistoryInv, [Next]_vars PROVE HistoryInv'
  OBVIOUS
<1>0. Informed' /\ Informed /\ IInv /\ Typed /\ cursors \in [Channels -> [Users -> Nat]]
  BY NextInformed DEF HistoryInv, Informed, IInv
<1>a. IsFiniteSet(Busy) /\ calls \in Nat /\ Cardinality(Busy) \in Nat /\ Len(log) \in Nat
      /\ Len(log) + Cardinality(Busy) <= calls /\ calls <= MaxCalls
  BY FS_CardinalityType DEF HistoryInv, Counted, History
<1>b. History /\ Bounded /\ \A q \in Requests : Settled(q)
  BY DEF HistoryInv
<1>1. CASE UNCHANGED vars
  <2>1. UNCHANGED data /\ UNCHANGED <<log, work, locks, calls>>
    BY <1>1 DEF vars, data
  <2>2. Counted' /\ \A q \in Requests : Settled(q)'
    BY <2>1, <1>b DEF HistoryInv, Counted, Busy, Settled
  <2> QED
    BY <1>0, <1>b, <2>1, <2>2, HistoryKept, BoundedKept DEF HistoryInv
<1>2. ASSUME NEW r \in Requests, Begin(r) PROVE HistoryInv'
  <2>1. /\ UNCHANGED data /\ UNCHANGED <<log, locks>> /\ calls' = calls + 1 /\ calls < MaxCalls
        /\ work[r].at = "idle"
        /\ \E call \in Calls : work' = [work EXCEPT ![r].at = FirstStage(call), ![r].call = call]
    BY <1>2 DEF Begin, At, data
  <2>2. work'[r].at # "idle" /\ \A q \in Requests \ {r} : work'[q] = work[q]
    <3>1. PICK call \in Calls : work' = [work EXCEPT ![r].at = FirstStage(call), ![r].call = call]
      BY <2>1
    <3>2. FirstStage(call) # "idle"
      BY DEF FirstStage
    <3>3. work'[r].at = FirstStage(call)
      BY <1>0, <3>1 DEF Typed, WorkRecords
    <3> QED
      BY <1>0, <3>1, <3>2, <3>3 DEF Typed
  <2>3. Busy' = Busy \cup {r} /\ r \notin Busy
    BY <2>1, <2>2 DEF Busy
  <2>4. IsFiniteSet(Busy') /\ Cardinality(Busy') = Cardinality(Busy) + 1
    BY <1>a, <2>3, FS_AddElement
  <2>5. Counted'
    BY <1>a, <2>1, <2>4, CallsBoundAssumption DEF Counted
  <2>6. \A q \in Requests : Settled(q)'
    BY <1>b, <2>1, <2>2 DEF Settled
  <2> QED
    BY <1>0, <1>b, <2>1, <2>5, <2>6, HistoryKept, BoundedKept DEF HistoryInv
<1>3. ASSUME NEW r \in Requests, Prepares(r) \/ Rollback(r) PROVE HistoryInv'
  <2>1. Kept(r) /\ UNCHANGED calls
    BY <1>0, <1>3, PreparesKeep, RollbackKeeps
  <2>2. UNCHANGED data /\ log' = log /\ Apart(r)
    BY <2>1 DEF Kept, data
  <2>3. work[r].at # "idle" /\ (End(r) \/ work'[r].at # "idle")
    BY <1>0, <1>3, PreparesSettled DEF Rollback, At
  <2>4. Counted' /\ \A q \in Requests : Settled(q)'
    <3>1. CASE End(r)
      <4>1. IsFiniteSet(Busy') /\ Cardinality(Busy') + 1 = Cardinality(Busy)
            /\ Cardinality(Busy') \in Nat
        BY <1>0, <1>a, <2>3, <3>1, BusyEnds
      <4>2. Counted'
        BY <1>a, <2>1, <2>2, <4>1, CallsBoundAssumption DEF Counted
      <4> QED
        BY <1>0, <1>b, <3>1, <4>2, EndsSettled
    <3>2. CASE work'[r].at # "idle"
      <4>1. Busy' = Busy
        BY <2>2, <2>3, <3>2 DEF Busy, Apart
      <4>2. Counted'
        BY <2>1, <2>2, <4>1 DEF HistoryInv, Counted
      <4>3. Settled(r)'
        BY <3>2 DEF Settled
      <4> QED
        BY <1>b, <2>2, <4>2, <4>3, OthersSettled
    <3> QED
      BY <2>3, <3>1, <3>2
  <2> QED
    BY <1>0, <1>b, <2>2, <2>4, HistoryKept, BoundedKept DEF HistoryInv
<1>4. ASSUME NEW r \in Requests, Commits(r) PROVE HistoryInv'
  <2>1. work[r].at = "fanout" /\ End(r) /\ UNCHANGED calls
    BY <1>4, CommitsEnd
  <2>2. PICK e \in Events : Writes(e)
    BY <1>0, <1>4, CommitWrites
  <2>3. Len(log') = Len(log) + 1
    BY <1>b, <2>2, LogNext DEF History
  <2>4. IsFiniteSet(Busy') /\ Cardinality(Busy') + 1 = Cardinality(Busy)
        /\ Cardinality(Busy') \in Nat
    BY <1>0, <1>a, <2>1, BusyEnds
  <2>5. Counted' /\ Len(log) + 1 <= MaxCalls
    BY <1>a, <2>1, <2>3, <2>4, CallsBoundAssumption DEF Counted
  <2>6. Bounded'
    BY <1>0, <1>4, <1>b, <2>2, <2>5, ReactionsTyped, BoundedNext
  <2>7. History'
    BY <1>0, <1>b, <2>2, HistoryNext
  <2>8. \A q \in Requests : Settled(q)'
    BY <1>0, <1>b, <2>1, EndsSettled
  <2> QED
    BY <1>0, <2>5, <2>6, <2>7, <2>8 DEF HistoryInv
<1> QED
  BY <1>1, <1>2, <1>3, <1>4, StepsSplit DEF Next, Finished

LEMMA InitHistory == Init => HistoryInv
<1> SUFFICES ASSUME Init PROVE HistoryInv
  OBVIOUS
<1>1. Informed
  BY InitInformed
<1>2. log = <<>> /\ log \in Seq(Events) /\ Len(log) = 0 /\ Indices = {}
  BY DEF Init, Indices
<1>3. \A u, c : SeatChanges(log, u, c, 1) = {}
  BY DEF SeatChanges
<1>4. HasLatest(log)
  <2>1. \A i \in 1..(Len(log) + 1) : i = 1
    BY <1>2
  <2> QED
    BY <1>3, <2>1 DEF HasLatest
<1>5. Recorded /\ EndsAreFinal /\ ReadsCountTheLog /\ AudienceFollowsLog
  BY <1>2 DEF Recorded, EndsAreFinal, ReadsCountTheLog, AudienceFollowsLog
<1>6. Told
  <2>1. \A m \in MessageIds : messages[m] = None
    BY DEF Init
  <2> QED
    BY <1>2, <2>1 DEF Told
<1>7. Current
  <2>1. \A u \in Users, c \in Channels : SeatedIn(log, u, c, 1) <=> InitialSeats[c][u] # "none"
    BY <1>3 DEF SeatedIn
  <2>2. \A u \in Users : ActiveIn(log, u, 1) /\ status[u] = "active"
    BY DEF ActiveIn, Init
  <2>3. Len(log) + 1 = 1 /\ seats = InitialSeats
    BY <1>2 DEF Init
  <2> QED
    BY <2>1, <2>2, <2>3 DEF Current, Visible
<1>8. Bounded
  BY CallsBoundAssumption DEF Init, Bounded
<1>9. Counted
  <2>1. Busy = {}
    BY DEF Busy, Init, Idle
  <2>2. IsFiniteSet(Busy) /\ Cardinality(Busy) = 0
    BY <2>1, FS_EmptySet
  <2> QED
    BY <1>2, <2>2, CallsBoundAssumption DEF Counted, Init
<1>10. \A r \in Requests : Settled(r)
  BY DEF Settled, Init
<1> QED
  BY <1>1, <1>2, <1>4, <1>5, <1>6, <1>7, <1>8, <1>9, <1>10 DEF HistoryInv, History

LEMMA HistoryIsTrue == HistoryInv => LogIsTrue
<1> SUFFICES ASSUME HistoryInv PROVE TypeOK
  BY DEF HistoryInv, History, LogIsTrue
<1>1. /\ status \in [Users -> {"active", "revoked"}]
      /\ seats \in [Channels -> [Users -> {"none", "member", "owner"}]]
      /\ archived \in [Channels -> BOOLEAN]
      /\ messages \in [MessageIds -> Messages \cup {None}]
      /\ cursors \in [Channels -> [Users -> Nat]]
  BY DEF HistoryInv, Informed, IInv, Typed
<1>2. messages \in [MessageIds ->
                      [chan : Channels, deleted : BOOLEAN, cs : 1..MaxCalls] \cup {None}]
  <2>1. ASSUME NEW m \in MessageIds, messages[m] # None
        PROVE  messages[m] \in [chan : Channels, deleted : BOOLEAN, cs : 1..MaxCalls]
    <3>1. messages[m] \in Messages /\ messages[m].cs \in 1..MaxCalls
      BY <1>1, <2>1 DEF HistoryInv, Bounded
    <3> QED
      BY <3>1 DEF Messages
  <2> QED
    BY <1>1, <2>1
<1>3. cursors \in [Channels -> [Users -> 0..MaxCalls]]
  <2>1. \A c \in Channels, u \in Users : cursors[c][u] \in 0..MaxCalls
    BY DEF HistoryInv, Bounded
  <2> QED
    BY <1>1, <2>1
<1>4. Len(log) <= calls /\ calls <= MaxCalls
  <2>1. /\ IsFiniteSet(Busy) /\ Cardinality(Busy) \in Nat /\ calls \in Nat /\ Len(log) \in Nat
        /\ Len(log) + Cardinality(Busy) <= calls /\ calls <= MaxCalls
    BY FS_CardinalityType DEF HistoryInv, Counted, History
  <2> QED
    BY <2>1
<1>5. \A r \in Requests : At(r, "idle") => work[r] = Idle /\ locks[r] = {}
  BY DEF HistoryInv, Settled, At
<1>6. reactions \subseteq MessageIds \X Users
  BY DEF HistoryInv, Bounded
<1> QED
  BY <1>1, <1>2, <1>3, <1>4, <1>5, <1>6 DEF TypeOK

(* What the log tells its readers is what happened: whom an event reaches    *)
(* is what the events before it say, what an event has ended stays ended,   *)
(* and a read counts the messages the log has created and not retracted,    *)
(* however the transactions interleave.                                    *)
THEOREM LogIsTrueHolds == Spec => []LogIsTrue
BY InitHistory, NextHistory, HistoryIsTrue, PTL DEF Spec

-----------------------------------------------------------------------------
(* The event table, for any number of writers, epochs, events and clock    *)
(* ticks.  The invariant ties the uncommitted work of the lock holder to   *)
(* the committed counter: with it, a commit extends the retained suffix    *)
(* and the order of created_at, and retention, which looks at created_at   *)
(* only, removes a prefix.                                                 *)

(* Only the lock holder has work in progress. *)
IdleWriters == \A w \in Writers : lock # w => tip[w] = 0 /\ inserted[w] = {}

(* The holder has allocated the sequences after last up to tip, and has     *)
(* inserted all of them, or all but the newest.                            *)
HolderAllocates ==
  \A w \in Writers : lock = w =>
    /\ last < tip[w]
    /\ \/ inserted[w] = (last + 1)..tip[w]
       \/ inserted[w] = (last + 1)..(tip[w] - 1)

(* Stamps, committed or not, lie in the past and follow the sequence. *)
CommittedStamps == \A s \in rows : createdAt[s] <= clock

HolderStamps ==
  \A w \in Writers : \A s \in inserted[w] :
    /\ createdAt[s] <= clock
    /\ \A t \in rows \cup inserted[w] : t <= s => createdAt[t] <= createdAt[s]

(* A transaction has only inserted events if the workspace was cut over. *)
EventsHaveEpoch == \A w \in Writers : inserted[w] # {} => epoch # NoEpoch

TableInv ==
  /\ TableTypeOK
  /\ IdleWriters
  /\ HolderAllocates
  /\ RetainedSuffix
  /\ StampsFollowSequence
  /\ CommittedStamps
  /\ HolderStamps
  /\ FloorInHistory
  /\ EventsHaveEpoch

USE NoWriterAssumption, NoEpochAssumption, BoundsAssumption

LEMMA InitTableInv == TableInit => TableInv
<1> SUFFICES ASSUME TableInit PROVE TableInv
  OBVIOUS
<1> PICK n \in 0..LegacyEvents : last = n /\ rows = 1..n
  BY DEF TableInit
<1>1. TableTypeOK
  BY DEF TableInit, TableTypeOK, Sequences
<1>2. IdleWriters /\ HolderAllocates /\ HolderStamps
  BY DEF TableInit, IdleWriters, HolderAllocates, HolderStamps
<1>3. RetainedSuffix /\ FloorInHistory
  BY DEF TableInit, RetainedSuffix, FloorInHistory
<1>4. StampsFollowSequence /\ CommittedStamps
  BY DEF TableInit, StampsFollowSequence, CommittedStamps, Sequences
<1>5. EventsHaveEpoch
  BY DEF TableInit, EventsHaveEpoch
<1> QED
  BY <1>1, <1>2, <1>3, <1>4, <1>5 DEF TableInv

LEMMA NextTableInv == TableInv /\ [TableNext]_tableState => TableInv'
<1> SUFFICES ASSUME TableInv, [TableNext]_tableState PROVE TableInv'
  OBVIOUS
<1> USE DEF TableInv
<1>e. EventsHaveEpoch'
  BY DEF TableTypeOK, EventsHaveEpoch, TableNext, tableState, Allocate, InsertEvent, Commit, RollsBack, Release,
         DeleteExpiredState, RecordPlan, Establish, Tick, Plan
<1>1. ASSUME NEW w \in Writers, Allocate(w) PROVE TableInv'
  <2> USE <1>1 DEF Allocate, Holds, Allocated
  <2>1. TableTypeOK'
    BY DEF TableTypeOK
  <2>2. IdleWriters'
    BY DEF TableTypeOK, IdleWriters
  <2>3. HolderAllocates'
    <3>1. CASE lock = w
      BY <3>1 DEF TableTypeOK, HolderAllocates, IdleWriters
    <3>2. CASE lock = NoWriter
      <4>1. inserted[w] = {} /\ tip'[w] = last + 1 /\ last \in Nat
        BY <3>2 DEF TableTypeOK, IdleWriters
      <4>2. inserted'[w] = (last' + 1)..(tip'[w] - 1) /\ last' < tip'[w]
        BY <4>1
      <4> QED BY <4>2 DEF HolderAllocates
    <3> QED BY <3>1, <3>2
  <2>4. RetainedSuffix' /\ StampsFollowSequence' /\ CommittedStamps' /\ HolderStamps'
    BY DEF RetainedSuffix, StampsFollowSequence, CommittedStamps, HolderStamps
  <2>5. FloorInHistory'
    BY DEF FloorInHistory
  <2> QED BY <1>e, <2>1, <2>2, <2>3, <2>4, <2>5
<1>2. ASSUME NEW w \in Writers, InsertEvent(w) PROVE TableInv'
  <2> USE <1>2 DEF InsertEvent, Holds, Allocated
  <2>1. /\ tip[w] \in Sequences /\ last < tip[w] /\ tip[w] \notin inserted[w]
        /\ inserted[w] = (last + 1)..(tip[w] - 1)
    BY DEF TableTypeOK, HolderAllocates, Sequences
  <2>2. TableTypeOK'
    BY <2>1 DEF TableTypeOK
  <2>3. IdleWriters'
    BY DEF TableTypeOK, IdleWriters
  <2>4. HolderAllocates'
    BY <2>1 DEF TableTypeOK, HolderAllocates
  <2>5. RetainedSuffix' /\ FloorInHistory'
    BY DEF RetainedSuffix, FloorInHistory
  <2>6. \A s \in rows : s # tip[w] /\ createdAt'[s] = createdAt[s]
    BY <2>1 DEF TableTypeOK, RetainedSuffix, Sequences
  <2>7. StampsFollowSequence' /\ CommittedStamps'
    BY <2>6 DEF StampsFollowSequence, CommittedStamps, TableTypeOK
  <2>8. HolderStamps'
    <3> SUFFICES ASSUME NEW v \in Writers, NEW s \in inserted'[v]
                 PROVE  /\ createdAt'[s] <= clock'
                        /\ \A t \in rows' \cup inserted'[v] :
                             t <= s => createdAt'[t] <= createdAt'[s]
      BY DEF HolderStamps
    <3>1. v = w
      BY DEF TableTypeOK, IdleWriters
    <3>2. createdAt'[tip[w]] = clock /\ clock \in Nat
      BY <2>1 DEF TableTypeOK
    <3>3. \A t \in inserted[w] :
            t # tip[w] /\ t < tip[w] /\ createdAt'[t] = createdAt[t] /\ createdAt[t] <= clock
      BY <2>1, SMTT(30) DEF TableTypeOK, HolderStamps, Sequences
    <3>4. \A t \in rows : t < tip[w] /\ createdAt'[t] = createdAt[t] /\ createdAt[t] <= clock
      BY <2>1, <2>6, SMTT(30) DEF TableTypeOK, RetainedSuffix, CommittedStamps, Sequences
    <3>5. inserted'[w] = inserted[w] \cup {tip[w]}
      BY DEF TableTypeOK
    <3>6. CASE s = tip[w]
      BY <3>1, <3>2, <3>3, <3>4, <3>5, <3>6
    <3>7. CASE s \in inserted[w]
      <4>1. ~(tip[w] <= s)
        BY <3>3, <3>7, <2>1 DEF TableTypeOK, Sequences
      <4> QED BY <3>1, <3>3, <3>4, <3>5, <3>7, <4>1 DEF HolderStamps
    <3> QED BY <3>1, <3>5, <3>6, <3>7
  <2> QED BY <1>e, <2>2, <2>3, <2>4, <2>5, <2>7, <2>8
<1>3. ASSUME NEW w \in Writers, Commit(w) PROVE TableInv'
  <2> USE <1>3 DEF Commit, Release, Holds, Allocated
  <2>1. /\ last < tip[w] /\ tip[w] \in 0..MaxSequence
        /\ inserted[w] = (last + 1)..tip[w]
    BY DEF TableTypeOK, HolderAllocates
  <2>2. TableTypeOK'
    BY <2>1 DEF TableTypeOK
  <2>3. IdleWriters' /\ HolderAllocates'
    BY DEF TableTypeOK, IdleWriters, HolderAllocates
  <2>4. RetainedSuffix'
    BY <2>1 DEF TableTypeOK, RetainedSuffix, Sequences
  <2>5. StampsFollowSequence'
    <3> SUFFICES ASSUME NEW s \in rows \cup inserted[w], NEW t \in rows \cup inserted[w], s <= t
                 PROVE  createdAt[s] <= createdAt[t]
      BY DEF StampsFollowSequence
    <3>1. CASE t \in inserted[w]
      BY <3>1 DEF HolderStamps
    <3>2. CASE t \in rows
      <4>1. s \in rows
        BY <2>1, <3>2 DEF TableTypeOK, RetainedSuffix, Sequences
      <4> QED BY <3>2, <4>1 DEF StampsFollowSequence
    <3> QED BY <3>1, <3>2
  <2>6. CommittedStamps' /\ HolderStamps'
    BY DEF TableTypeOK, CommittedStamps, HolderStamps, IdleWriters
  <2>7. FloorInHistory'
    BY <2>1 DEF FloorInHistory, TableTypeOK
  <2> QED BY <1>e, <2>2, <2>3, <2>4, <2>5, <2>6, <2>7
<1>4. ASSUME NEW w \in Writers, RollsBack(w) PROVE TableInv'
  <2> USE <1>4 DEF RollsBack, Release, Holds
  <2>1. TableTypeOK'
    BY DEF TableTypeOK
  <2>2. IdleWriters' /\ HolderAllocates' /\ HolderStamps'
    BY DEF TableTypeOK, IdleWriters, HolderAllocates, HolderStamps
  <2>3. RetainedSuffix' /\ StampsFollowSequence' /\ CommittedStamps' /\ FloorInHistory'
    BY DEF RetainedSuffix, StampsFollowSequence, CommittedStamps, FloorInHistory
  <2> QED BY <1>e, <2>1, <2>2, <2>3
<1>5. ASSUME DeleteExpiredState PROVE TableInv'
  <2> USE <1>5 DEF DeleteExpiredState, Expired
  <2>1. TableTypeOK'
    BY DEF TableTypeOK
  <2>2. IdleWriters' /\ HolderAllocates' /\ HolderStamps'
    BY DEF IdleWriters, HolderAllocates, HolderStamps
  <2>3. RetainedSuffix'
    <3> SUFFICES ASSUME NEW s \in rows', NEW t \in s..last PROVE s <= last /\ t \in rows'
      BY DEF RetainedSuffix, TableTypeOK, Sequences
    <3>1. s \in rows /\ t \in rows /\ s <= t /\ s <= last
      BY DEF RetainedSuffix, TableTypeOK, Sequences
    <3>2. createdAt[s] <= createdAt[t] /\ ~(createdAt[s] + RetentionAge < clock)
      BY <3>1 DEF StampsFollowSequence
    <3>3. createdAt[s] \in Nat /\ createdAt[t] \in Nat /\ clock \in Nat
      BY <3>1 DEF TableTypeOK
    <3>4. ~(createdAt[t] + RetentionAge < clock)
      BY <3>2, <3>3
    <3> QED BY <3>1, <3>4
  <2>4. StampsFollowSequence' /\ CommittedStamps' /\ FloorInHistory'
    BY DEF StampsFollowSequence, CommittedStamps, FloorInHistory
  <2> QED BY <1>e, <2>1, <2>2, <2>3, <2>4
<1>6. ASSUME NEW e \in Epochs, RecordPlan(e) PROVE TableInv'
  <2> USE <1>6 DEF RecordPlan
  <2>1. TableTypeOK'
    BY DEF TableTypeOK, Plan
  <2> QED BY <1>e, <2>1 DEF IdleWriters, HolderAllocates, HolderStamps, RetainedSuffix,
                      StampsFollowSequence, CommittedStamps, FloorInHistory
<1>7. ASSUME NEW p \in plans, Establish(p) PROVE TableInv'
  <2> USE <1>7 DEF Establish
  <2>1. p \in Plan
    BY DEF TableTypeOK
  <2>2. TableTypeOK' /\ FloorInHistory'
    BY <2>1 DEF TableTypeOK, FloorInHistory, Plan
  <2> QED BY <1>e, <2>2 DEF IdleWriters, HolderAllocates, HolderStamps, RetainedSuffix,
                      StampsFollowSequence, CommittedStamps
<1>8. ASSUME Tick PROVE TableInv'
  <2> USE <1>8 DEF Tick
  <2>1. TableTypeOK'
    BY DEF TableTypeOK
  <2>2. CommittedStamps' /\ HolderStamps'
    BY DEF TableTypeOK, CommittedStamps, HolderStamps
  <2> QED BY <1>e, <2>1, <2>2 DEF IdleWriters, HolderAllocates, RetainedSuffix,
                      StampsFollowSequence, FloorInHistory
<1>9. ASSUME UNCHANGED tableState PROVE TableInv'
  BY <1>9, <1>e DEF tableState, TableTypeOK, IdleWriters, HolderAllocates, HolderStamps, RetainedSuffix,
              StampsFollowSequence, CommittedStamps, FloorInHistory
<1> QED
  BY <1>1, <1>2, <1>3, <1>4, <1>5, <1>6, <1>7, <1>8, <1>9 DEF TableNext

THEOREM TableInvHolds == TableSpec => []TableInv
  BY InitTableInv, NextTableInv, PTL DEF TableSpec

(* Type correctness of the table, the lock and the uncommitted work. *)
THEOREM TypeCorrect == TableSpec => []TableTypeOK
<1>1. TableInv => TableTypeOK
  BY DEF TableInv
<1> QED BY <1>1, TableInvHolds, PTL

(* Retention by age never leaves a hole: sync may trust the oldest row. *)
THEOREM RetainedSuffixHolds == TableSpec => []RetainedSuffix
<1>1. TableInv => RetainedSuffix
  BY DEF TableInv
<1> QED BY <1>1, TableInvHolds, PTL

(* created_at is ordered like the sequence, however transactions overlap. *)
THEOREM StampsFollowSequenceHolds == TableSpec => []StampsFollowSequence
<1>1. TableInv => StampsFollowSequence
  BY DEF TableInv
<1> QED BY <1>1, TableInvHolds, PTL

(* The replay floor stays inside history, as migration 0032 demands. *)
THEOREM FloorInHistoryHolds == TableSpec => []FloorInHistory
<1>1. TableInv => FloorInHistory
  BY DEF TableInv
<1> QED BY <1>1, TableInvHolds, PTL

(* All that readers of the table rely on, together. *)
THEOREM LogHoldsAlways == TableSpec => []LogHolds
<1> QED BY TypeCorrect, RetainedSuffixHolds, StampsFollowSequenceHolds, FloorInHistoryHolds,
          PTL DEF LogHolds

-----------------------------------------------------------------------------
(* Commit order is sequence order.                                         *)

LEMMA CommitStep ==
  ASSUME TableInv, NEW w \in Writers, Commit(w)
  PROVE  /\ last < last' /\ last' \in Nat
         /\ rows' = rows \cup (last + 1)..last'
         /\ UNCHANGED <<epoch, floor>>
         /\ epoch # NoEpoch
<1> USE DEF TableInv, TableTypeOK, HolderAllocates, Commit, Holds, Allocated
<1>1. inserted[w] = (last + 1)..tip[w] /\ last < tip[w] /\ last' = tip[w]
  OBVIOUS
<1>2. last + 1 \in inserted[w]
  BY <1>1
<1>3. epoch # NoEpoch
  BY <1>2 DEF EventsHaveEpoch
<1> QED BY <1>1, <1>3

(* Apart from a commit no step adds rows or moves the counter. *)
LEMMA OtherSteps ==
  ASSUME TableInv, [TableNext]_tableState, \A w \in Writers : ~Commit(w)
  PROVE  last' = last /\ rows' \subseteq rows
BY DEF TableInv, TableNext, tableState, Allocate, InsertEvent, RollsBack, DeleteExpiredState, RecordPlan,
       Establish, Tick

(* No event is ever committed at or below a head that was visible before,  *)
(* so no cursor a reader was given can be overtaken from behind.           *)
THEOREM CommitOrderIsSequenceOrder == TableSpec => CommitsAboveHead
<1>1. ASSUME TableInv, [TableNext]_tableState
      PROVE  [last <= last' /\ \A s \in rows' \ rows : last < s]_tableState
  <2>1. CASE \E w \in Writers : Commit(w)
    <3> PICK w \in Writers : Commit(w)
      BY <2>1
    <3>1. last < last' /\ last' \in Nat /\ rows' = rows \cup (last + 1)..last'
      BY <1>1, CommitStep
    <3>2. last \in Nat
      BY <1>1 DEF TableInv, TableTypeOK
    <3> QED BY <3>1, <3>2
  <2>2. CASE \A w \in Writers : ~Commit(w)
    <3>1. last' = last /\ rows' \subseteq rows
      BY <1>1, <2>2, OtherSteps
    <3>2. last \in Nat
      BY <1>1 DEF TableInv, TableTypeOK
    <3> QED BY <3>1, <3>2
  <2> QED BY <2>1, <2>2
<1> QED BY <1>1, TableInvHolds, PTL DEF TableSpec, CommitsAboveHead

-----------------------------------------------------------------------------
(* The table implements the abstract log.                                  *)

(* The least-number principle for a set. *)
LEMMA LeastOf ==
  ASSUME NEW S \in SUBSET Nat, S # {}
  PROVE  \E m \in S : \A n \in S : m <= n
<1> DEFINE T == {1..s : s \in S}
<1>1. T \subseteq FiniteSubsetsOf(Nat) /\ T # {}
  <2>1. \A s \in S : 1..s \subseteq Nat /\ IsFiniteSet(1..s)
    BY FS_Interval
  <2> QED BY <2>1 DEF FiniteSubsetsOf
<1>2. \E x \in T : \A y \in T : ~(<<y, x>> \in StrictSubsetOrdering(Nat))
  BY <1>1, FS_StrictSubsetOrderingWellFounded, WFMin
<1>3. PICK m \in S : \A y \in T : ~(<<y, 1..m>> \in StrictSubsetOrdering(Nat))
  BY <1>2
<1>4. ASSUME NEW n \in S, n < m PROVE FALSE
  <2>1. 1..n \in T /\ 1..n \subseteq 1..m /\ 1..m \subseteq Nat
    BY <1>4
  <2>2. m \in 1..m /\ m \notin 1..n
    BY <1>4
  <2>3. <<1..n, 1..m>> \in StrictSubsetOrdering(Nat)
    BY <2>1, <2>2 DEF StrictSubsetOrdering
  <2> QED BY <1>3, <2>1, <2>3
<1> QED BY <1>4

(* A retained suffix is the interval above the floor sync computes. *)
LEMMA SuffixIsInterval ==
  TableTypeOK /\ RetainedSuffix =>
    /\ RetainedCursorFloor \in 0..last
    /\ rows = (RetainedCursorFloor + 1)..last
<1> SUFFICES ASSUME TableTypeOK, RetainedSuffix
             PROVE  /\ RetainedCursorFloor \in 0..last
                    /\ rows = (RetainedCursorFloor + 1)..last
  OBVIOUS
<1>1. CASE rows = {}
  BY <1>1 DEF RetainedCursorFloor, TableTypeOK
<1>2. CASE rows # {}
  <2> DEFINE m == CHOOSE s \in rows : \A t \in rows : s <= t
  <2>1. rows \in SUBSET Nat
    BY DEF TableTypeOK, Sequences
  <2>2. m \in rows /\ \A t \in rows : m <= t
    BY <1>2, <2>1, LeastOf
  <2>3. RetainedCursorFloor = m - 1
    BY <1>2 DEF RetainedCursorFloor
  <2> HIDE DEF m
  <2>4. m \in 1..last /\ last \in Nat
    BY <2>2 DEF RetainedSuffix, TableTypeOK, Sequences
  <2>5. \A t \in m..last : t \in rows
    BY <2>2 DEF RetainedSuffix
  <2>6. \A t \in rows : t \in m..last
    BY <2>2, <2>4 DEF RetainedSuffix, TableTypeOK, Sequences
  <2>7. rows = m..last
    BY <2>5, <2>6
  <2> QED BY <2>3, <2>4, <2>7
<1> QED BY <1>1, <1>2

(* Intervals that end at the same number. *)
LEMMA IntervalGrows ==
  ASSUME NEW a \in Nat, NEW b \in Nat, NEW c \in Nat, a <= b, b < c
  PROVE  ((a + 1)..b) \cup ((b + 1)..c) = (a + 1)..c
OBVIOUS

LEMMA IntervalFloorUnique ==
  ASSUME NEW a \in Nat, NEW b \in Nat, NEW c \in Nat, a < c, (a + 1)..c = (b + 1)..c
  PROVE  a = b
<1>1. a + 1 \in (b + 1)..c
  OBVIOUS
<1>2. b + 1 \in (b + 1)..c
  BY <1>1
<1>3. b + 1 \in (a + 1)..c
  BY <1>2
<1> QED BY <1>1, <1>3

LEMMA IntervalShrinks ==
  ASSUME NEW a \in Nat, NEW b \in Nat, NEW c \in Nat,
         (b + 1)..c \subseteq (a + 1)..c, (b + 1)..c # (a + 1)..c
  PROVE  a < b
<1>1. ASSUME b <= a PROVE FALSE
  <2>1. (a + 1)..c \subseteq (b + 1)..c
    BY <1>1
  <2> QED BY <2>1
<1> QED BY <1>1

LEMMA InitRefines == TableInit => Log!LogInit
<1> SUFFICES ASSUME TableInit PROVE Log!LogInit
  OBVIOUS
<1> PICK n \in 0..LegacyEvents : last = n /\ rows = 1..n
  BY DEF TableInit
<1>1. TableTypeOK /\ RetainedSuffix
  BY InitTableInv DEF TableInv
<1>2. RetainedCursorFloor \in 0..last
  BY <1>1, SuffixIsInterval
<1> QED BY <1>2 DEF TableInit, Log!LogInit

(* A commit is one Extend, retention one Trim, an established plan one     *)
(* Cutover; every other step leaves the abstract log alone.                *)
LEMMA StepRefines == TableInv /\ TableInv' /\ [TableNext]_tableState => [Log!LogNext]_(Log!logVars)
<1> SUFFICES ASSUME TableInv, TableInv', [TableNext]_tableState PROVE [Log!LogNext]_(Log!logVars)
  OBVIOUS
<1> DEFINE k == RetainedCursorFloor
<1>0. TableTypeOK /\ RetainedSuffix /\ (TableTypeOK /\ RetainedSuffix)'
  BY DEF TableInv
<1>1. k \in 0..last /\ rows = (k + 1)..last /\ last \in Nat
  BY <1>0, SuffixIsInterval DEF TableTypeOK
<1>2. k' \in 0..last' /\ rows' = (k' + 1)..last' /\ last' \in Nat
  <2>1. (TableTypeOK /\ RetainedSuffix =>
           RetainedCursorFloor \in 0..last /\ rows = (RetainedCursorFloor + 1)..last)'
    BY SuffixIsInterval, PTL
  <2> QED BY <1>0, <2>1 DEF TableTypeOK
<1>3. ASSUME NEW w \in Writers, Commit(w) PROVE Log!Extend
  <2>1. last < last' /\ rows' = rows \cup (last + 1)..last' /\ epoch # NoEpoch
        /\ UNCHANGED <<epoch, floor>>
    BY <1>3, CommitStep
  <2> HIDE DEF k
  <2>a. k \in 0..last /\ last \in Nat /\ last' \in Nat /\ last < last'
    BY <1>1, <1>2, <2>1
  <2>b. (k + 1)..last \cup (last + 1)..last' = (k + 1)..last' /\ k < last'
    BY ONLY <2>a, IntervalGrows
  <2>2. rows' = (k + 1)..last' /\ k < last'
    BY <1>1, <2>1, <2>b
  <2>3. k' = k
    BY <1>1, <1>2, <2>2, IntervalFloorUnique
  <2> QED BY <1>1, <1>2, <2>1, <2>3 DEF Log!Extend, k
<1>4. ASSUME DeleteExpiredState PROVE Log!Trim
  <2>1. last' = last /\ epoch' = epoch /\ floor' = floor /\ rows' \subseteq rows /\ rows' # rows
    BY <1>4 DEF DeleteExpiredState, Expired
  <2> HIDE DEF k
  <2>2. k < k'
    <3>1. (k' + 1)..last \subseteq (k + 1)..last /\ (k' + 1)..last # (k + 1)..last
      BY <1>1, <1>2, <2>1
    <3>2. k \in Nat /\ k' \in Nat
      BY <1>1, <1>2
    <3> DEFINE low == k'
    <3>3. low \in Nat /\ (low + 1)..last \subseteq (k + 1)..last /\ (low + 1)..last # (k + 1)..last
      BY <3>1, <3>2
    <3> HIDE DEF low
    <3>4. k < low
      BY <1>1, <3>2, <3>3, IntervalShrinks
    <3> QED BY <3>4 DEF low
  <2> QED BY <1>1, <1>2, <2>1, <2>2 DEF Log!Trim, k
<1>5. ASSUME NEW p \in plans, Establish(p) PROVE Log!Cutover \/ UNCHANGED Log!logVars
  <2>1. last' = last /\ rows' = rows
    BY <1>5 DEF Establish
  <2>2. k' = k
    BY <2>1 DEF RetainedCursorFloor
  <2>3. p.target # NoEpoch
    BY DEF TableInv, TableTypeOK, Plan
  <2> QED BY <1>5, <2>1, <2>2, <2>3 DEF Establish, Log!Cutover, Log!logVars
<1>6. ASSUME UNCHANGED <<last, epoch, floor, rows>> PROVE UNCHANGED Log!logVars
  BY <1>6 DEF Log!logVars, RetainedCursorFloor
<1> QED
  BY <1>3, <1>4, <1>5, <1>6
     DEF TableNext, tableState, Allocate, InsertEvent, RollsBack, RecordPlan, Tick, Log!LogNext

(* The sync_events table with its row locks, age-based retention and       *)
(* cutovers is an abstract log.                                            *)
THEOREM WorkspaceLogImplementsEventLog == TableSpec => ImplementsEventLog
BY InitRefines, StepRefines, TableInvHolds, PTL DEF TableSpec, ImplementsEventLog, Log!LogSpec

=============================================================================
