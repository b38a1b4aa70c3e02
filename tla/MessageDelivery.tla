--------------------------- MODULE MessageDelivery ---------------------------
(***************************************************************************)
(* The transactions of the server that write into a members channel        *)
(* (apps/server/src/modules/workspace) and the one that disables an agent  *)
(* (modules/identity), interleaved statement by statement under            *)
(* PostgreSQL's READ COMMITTED: a statement sees what was committed when    *)
(* it began, a row lock is held to the end of the transaction, and a        *)
(* statement that waited for a row it locks looks again at that row only.   *)
(*                                                                         *)
(* A request takes its locks one by one; the reads that no other            *)
(* transaction can change under the locks already held share a step with    *)
(* the lock before them.  Its writes are made together at its commit.       *)
(* The references an event row and its audience rows make to the           *)
(* workspace_memberships are checked by the database with KEY SHARE locks,  *)
(* one row at a time.                                                      *)
(***************************************************************************)
EXTENDS Naturals, Sequences, FiniteSets

CONSTANTS
  Users,                   \* user ids, numbers because rows are locked in id order
  Owner,                   \* the human workspace owner
  Channels,                \* members channels, in chat mode
  Keys,                    \* client message ids
  InitialSeats,            \* conversation_memberships of live seats: role or "none"
  Requests,                \* database sessions of the pool
  None,
  Calls,                   \* API calls that may be made
  MaxCalls                 \* bound: API calls made

ASSUME UsersAssumption == Users \subseteq Nat /\ Owner \in Users
ASSUME SeatsAssumption ==
  InitialSeats \in [Channels -> [Users -> {"none", "member", "owner"}]]
ASSUME CallsBoundAssumption == MaxCalls \in Nat
ASSUME FiniteAssumption == IsFiniteSet(Users) /\ IsFiniteSet(Keys)

VARIABLES
  status,                  \* workspace_memberships.status by user
  seats,                   \* conversation_memberships by channel and user
  archived,                \* conversations.is_archived
  messages,                \* messages by author and client message id
  reactions,               \* message_reactions: message and user
  cursors,                 \* last_read_conversation_sequence; 0 is no row
  log,                     \* sync_events in the order of their sequence
  locks,                   \* locks each session holds
  work,                    \* what each session is doing
  calls                    \* API calls made

data == <<status, seats, archived, messages, reactions, cursors, log>>
vars == <<data, locks, work, calls>>

MessageIds == Users \X Keys
Messages == [chan : Channels, deleted : BOOLEAN, cs : Nat]

(* An API call after its input is parsed: what it names need not exist. *)
CallRecords ==
  [op : {"send"}, by : Users, chan : Channels, key : Keys]
    \cup [op : {"retract", "react", "unreact", "read"}, by : Users, msg : MessageIds]
    \cup [op : {"seat"}, by : Users, chan : Channels, who : Users,
          role : {"member", "owner"}]
    \cup [op : {"remove"}, by : Users, chan : Channels, who : Users]
    \cup [op : {"archive"}, by : Users, chan : Channels]
    \cup [op : {"disable"}, by : Users, who : Users]

ASSUME CallsAssumption == Calls \subseteq CallRecords
ASSUME NoneAssumption == None \notin Messages \cup Channels

Idle == [at |-> "idle", call |-> None, audience |-> {}, refs |-> {}, unread |-> 0]

Init ==
  /\ status = [u \in Users |-> "active"]
  /\ seats = InitialSeats
  /\ archived = [c \in Channels |-> FALSE]
  /\ messages = [m \in MessageIds |-> None]
  /\ reactions = {}
  /\ cursors = [c \in Channels |-> [u \in Users |-> 0]]
  /\ log = <<>>
  /\ locks = [r \in Requests |-> {}]
  /\ work = [r \in Requests |-> Idle]
  /\ calls = 0

-----------------------------------------------------------------------------
(* What the statements read.                                               *)

(* conversationVisibilitySql of a members channel: a live seat, whatever    *)
(* the workspace membership says.                                          *)
Visible(u, c) == seats[c][u] # "none"

(* Mutant: the join with workspace_memberships is lost. *)
AudienceOfSeats(c) == {u \in Users : Visible(u, c)}

(* conversationAudience of a members channel. *)
Audience(c) == {u \in Users : Visible(u, c) /\ status[u] = "active"}

(* Mutant: an owner who left the workspace still counts. *)
AnotherSeatedOwner(c, u) == \E o \in Users \ {u} : seats[c][o] = "owner"

(* requireAnotherChannelOwner *)
AnotherOwner(c, u) ==
  \E o \in Users \ {u} : seats[c][o] = "owner" /\ status[o] = "active"

InChannel(c) == {m \in MessageIds : messages[m] # None /\ messages[m].chan = c}

(* readUnreadCounts with the cursor at n. *)
Unread(u, c, n) ==
  Cardinality({m \in InChannel(c) :
                 m[1] # u /\ ~messages[m].deleted /\ messages[m].cs > n})

(* The conversation a call names, or the one its message was found in. *)
ChanOf(call) ==
  IF call.op \in {"retract", "react", "unreact", "read"}
  THEN messages[call.msg].chan ELSE call.chan

-----------------------------------------------------------------------------
(* Locks.                                                                  *)

(* PostgreSQL's row lock conflicts; advisory locks are taken as "update". *)
Conflicts(held, wanted) ==
  \/ "update" \in {held, wanted}
  \/ "no_key_update" \in {held, wanted} /\ "key_share" \notin {held, wanted}

Lock(row, mode) == [row |-> row, mode |-> mode]
Member(u, mode) == Lock(<<"member", u>>, mode)

(* The lock the next statement of a session takes, at each of its stages. *)
Wanted(r) ==
  LET call == work[r].call
      refs == work[r].refs
  IN  CASE work[r].at = "key" -> Lock(<<"key", call.by, call.key>>, "update")
        [] work[r].at = "chan" -> Lock(<<"chan", ChanOf(call)>>, "update")
        [] work[r].at = "sender" -> Member(call.by, "share")
        [] work[r].at = "principal" -> Member(call.by, "update")
        [] work[r].at = "target" -> Member(call.who, "update")
        [] work[r].at = "workspace" -> Lock(<<"workspace">>, "update")
        [] work[r].at = "sequence" -> Lock(<<"workspace">>, "no_key_update")
        [] work[r].at = "cursor" ->
             Lock(<<"cursor", ChanOf(call), call.by>>, "update")
        [] work[r].at \in {"chan_ref", "event_ref"} ->
             Lock(<<"chan", ChanOf(call)>>, "key_share")
        [] work[r].at = "member_ref" -> Member(call.by, "key_share")
        [] work[r].at = "fanout" ->
             Member(IF call.by \in refs THEN call.by
                    ELSE CHOOSE u \in refs : \A v \in refs : u <= v, "key_share")

Locking(r) ==
  \/ work[r].at \in {"key", "chan", "sender", "principal", "target", "workspace",
                     "sequence", "cursor", "chan_ref", "member_ref", "event_ref"}
  \/ work[r].at = "fanout" /\ work[r].refs # {}

(* The sessions whose locks keep r's next statement waiting. *)
Blockers(r) ==
  IF Locking(r)
  THEN {q \in Requests \ {r} :
          \E l \in locks[q] :
            l.row = Wanted(r).row /\ Conflicts(l.mode, Wanted(r).mode)}
  ELSE {}

(* Sessions that all wait for one another: what PostgreSQL calls a deadlock. *)
WaitTogether(S) == S # {} /\ \A r \in S : Blockers(r) \cap S # {}

Take(r) ==
  /\ Blockers(r) = {}
  /\ locks' = [locks EXCEPT ![r] = @ \cup {Wanted(r)}]

Goto(r, stage) == work' = [work EXCEPT ![r].at = stage]

(* Mutant: the session goes back to the pool inside its transaction. *)
EndHolding(r) ==
  /\ work' = [work EXCEPT ![r] = Idle]
  /\ UNCHANGED locks

(* COMMIT and ROLLBACK both let every lock go. *)
End(r) ==
  /\ work' = [work EXCEPT ![r] = Idle]
  /\ locks' = [locks EXCEPT ![r] = {}]

At(r, stage) == work[r].at = stage
Does(r, ops) == work[r].call.op \in ops

-----------------------------------------------------------------------------
(* The statements up to the workspace lock.                                *)

(* What the first statement of a call must find, in its own snapshot; a     *)
(* call that finds less ends there and has changed nothing.                 *)
Found(call) ==
  LET op == call.op
  IN  /\ op \in {"retract", "react", "unreact", "read"} => messages[call.msg] # None
      /\ op \notin {"send", "disable"} => Visible(call.by, ChanOf(call))
      /\ op \in {"react", "unreact", "seat", "remove"} => ~archived[ChanOf(call)]
      /\ op = "disable" => call.by = Owner /\ status[call.by] = "active"

FirstStage(call) ==
  CASE call.op = "send" -> "key"
    [] call.op = "read" -> "cursor"
    [] call.op = "disable" -> "target"
    [] OTHER -> "chan"

Begin(r) ==
  /\ At(r, "idle")
  /\ calls < MaxCalls
  /\ \E call \in Calls :
       /\ Found(call)
       /\ work' = [work EXCEPT ![r].at = FirstStage(call), ![r].call = call]
  /\ calls' = calls + 1
  /\ UNCHANGED <<data, locks>>

(* Mutant: without the advisory lock on the author's key. *)
LockNoKey(r) ==
  /\ At(r, "key")
  /\ Goto(r, "chan")
  /\ UNCHANGED <<data, locks, calls>>

(* sendMessage: pg_advisory_xact_lock(user:clientMessageId). *)
LockKey(r) ==
  /\ At(r, "key")
  /\ Take(r)
  /\ Goto(r, "chan")
  /\ UNCHANGED <<data, calls>>

(* Mutant: the conversation is read without FOR UPDATE. *)
ReadChannel(r) ==
  /\ At(r, "chan")
  /\ Goto(r, IF Does(r, {"send"}) THEN "sender" ELSE "principal")
  /\ UNCHANGED <<data, locks, calls>>

(* Mutant: what the first statement saw is not looked at again. *)
LockChannelAsSeen(r) ==
  /\ At(r, "chan")
  /\ Take(r)
  /\ Goto(r, IF Does(r, {"send"}) THEN "sender" ELSE "principal")
  /\ UNCHANGED <<data, calls>>

(* SELECT ... FROM conversations FOR UPDATE.  The locked row is looked at   *)
(* again (is_archived), the seats of the WHERE clause are not.  A reaction  *)
(* then reads its message.                                                  *)
LockChannel(r) ==
  LET c == ChanOf(work[r].call)
      refused == \/ Does(r, {"react", "unreact", "seat", "remove"}) /\ archived[c]
                 \/ Does(r, {"react", "unreact"}) /\ messages[work[r].call.msg].deleted
  IN  /\ At(r, "chan")
      /\ IF refused
         THEN Blockers(r) = {} /\ End(r)
         ELSE /\ Take(r)
              /\ Goto(r, IF Does(r, {"send"}) THEN "sender" ELSE "principal")
      /\ UNCHANGED <<data, calls>>

(* sendMessage: the sender's workspace membership FOR SHARE. *)
LockSender(r) ==
  /\ At(r, "sender")
  /\ IF status[work[r].call.by] = "active"
     THEN Take(r) /\ Goto(r, "authorize")
     ELSE Blockers(r) = {} /\ End(r)
  /\ UNCHANGED <<data, calls>>

(* sendMessage: access is read in a statement of its own after the lock     *)
(* waits; a committed message of this key is replayed or refused, and an    *)
(* archived channel takes no new one.                                       *)
Authorize(r) ==
  LET call == work[r].call
  IN  /\ At(r, "authorize")
      /\ IF /\ Visible(call.by, call.chan)
            /\ messages[<<call.by, call.key>>] = None
            /\ ~archived[call.chan]
         THEN Goto(r, "sequence") /\ UNCHANGED locks
         ELSE End(r)
      /\ UNCHANGED <<data, calls>>

(* requireActivePrincipal: the caller's workspace membership FOR UPDATE. *)
LockPrincipal(r) ==
  /\ At(r, "principal")
  /\ IF status[work[r].call.by] = "active"
     THEN Take(r) /\ Goto(r, "workspace")
     ELSE Blockers(r) = {} /\ End(r)
  /\ UNCHANGED <<data, calls>>

(* disableAgent: lockWorkspaceMembership of the agent. *)
LockTarget(r) ==
  /\ At(r, "target")
  /\ Take(r)
  /\ Goto(r, "workspace")
  /\ UNCHANGED <<data, calls>>

(* requireActivePrincipal, requireLockedOwner: the workspace row. *)
LockWorkspace(r) ==
  /\ At(r, "workspace")
  /\ Take(r)
  /\ Goto(r, "apply")
  /\ UNCHANGED <<data, calls>>

(* Mutant: the unread count is read first and the event insert allocates   *)
(* the sequence.                                                           *)
LockCursorAndCount(r) ==
  LET call == work[r].call
      c == ChanOf(call)
      n == messages[call.msg].cs
  IN  /\ At(r, "cursor")
      /\ IF cursors[c][call.by] < n
         THEN /\ Take(r)
              /\ work' = [work EXCEPT ![r].at = "fanout", ![r].audience = {call.by},
                                      ![r].refs = {call.by},
                                      ![r].unread = Unread(call.by, c, n)]
         ELSE Blockers(r) = {} /\ End(r)
      /\ UNCHANGED <<data, calls>>

(* advanceReadCursor: INSERT ... ON CONFLICT DO UPDATE WHERE the cursor is  *)
(* lower.  A first row refers to the channel and to the membership.         *)
LockCursor(r) ==
  LET call == work[r].call
      read == cursors[ChanOf(call)][call.by]
  IN  /\ At(r, "cursor")
      /\ IF read < messages[call.msg].cs
         THEN Take(r) /\ Goto(r, IF read = 0 THEN "chan_ref" ELSE "sequence")
         ELSE Blockers(r) = {} /\ End(r)
      /\ UNCHANGED <<data, calls>>

(* KEY SHARE checks of rows that are not held already: the cursor's          *)
(* references, and the conversation of its event.                          *)
CheckReference(r) ==
  /\ \/ At(r, "chan_ref") /\ Goto(r, "member_ref")
     \/ At(r, "member_ref") /\ Goto(r, "sequence")
     \/ At(r, "event_ref") /\ Goto(r, "fanout")
  /\ Take(r)
  /\ UNCHANGED <<data, calls>>

-----------------------------------------------------------------------------
(* The statements under the workspace lock.                                *)

(* The event and its audience rows are about to be inserted.  All but a     *)
(* read hold the event's conversation.                                     *)
Publish(r, audience, unread) ==
  LET by == work[r].call.by
  IN  work' = [work EXCEPT ![r].at = IF Does(r, {"read"}) THEN "event_ref" ELSE "fanout",
                           ![r].audience = audience, ![r].refs = {by} \cup audience,
                           ![r].unread = unread]

(* sendMessage: nextWorkspaceSequence, then conversationAudience. *)
AllocateForMessage(r) ==
  /\ At(r, "sequence")
  /\ Does(r, {"send"})
  /\ Take(r)
  /\ Publish(r, Audience(work[r].call.chan), 0)
  /\ UNCHANGED <<data, calls>>

(* advanceReadCursor: nextWorkspaceSequence, then the unread counts. *)
AllocateForCursor(r) ==
  LET call == work[r].call
  IN  /\ At(r, "sequence")
      /\ Does(r, {"read"})
      /\ Take(r)
      /\ Publish(r, {call.by}, Unread(call.by, ChanOf(call), messages[call.msg].cs))
      /\ UNCHANGED <<data, calls>>

(* With the workspace held: publish, or end with nothing to change. *)
Proceed(r, op, changes, audience) ==
  /\ At(r, "apply")
  /\ Does(r, {op})
  /\ IF changes THEN Publish(r, audience, 0) /\ UNCHANGED locks ELSE End(r)
  /\ UNCHANGED <<data, calls>>

(* retractMessage: the author's own message, not retracted yet.  The five   *)
(* minute window may have closed: Rollback.                                 *)
Retract(r) ==
  LET call == work[r].call
  IN  Proceed(r, "retract", call.by = call.msg[1] /\ ~messages[call.msg].deleted,
              Audience(ChanOf(call)))

AddReaction(r) ==
  LET call == work[r].call
  IN  Proceed(r, "react", <<call.msg, call.by>> \notin reactions, Audience(ChanOf(call)))

RemoveReaction(r) ==
  LET call == work[r].call
  IN  Proceed(r, "unreact", <<call.msg, call.by>> \in reactions, Audience(ChanOf(call)))

(* upsertChannelMember after requireManagedChannel. *)
UpsertChannelMember(r) ==
  LET call == work[r].call
      seat == seats[call.chan]
  IN  Proceed(r, "seat",
              /\ seat[call.by] = "owner"
              /\ status[call.who] = "active"
              /\ seat[call.who] # call.role
              /\ seat[call.who] = "owner" => AnotherOwner(call.chan, call.who),
              Audience(call.chan) \cup {call.who})

(* removeChannelMember after requireManagedChannel. *)
RemoveChannelMember(r) ==
  LET call == work[r].call
      seat == seats[call.chan]
  IN  Proceed(r, "remove",
              /\ seat[call.by] = "owner"
              /\ seat[call.who] # "none"
              /\ seat[call.who] = "owner" => AnotherOwner(call.chan, call.who),
              Audience(call.chan))

ArchiveChannel(r) ==
  LET call == work[r].call
  IN  Proceed(r, "archive", call.by = Owner /\ ~archived[call.chan], Audience(call.chan))

(* disableAgent after requireLockedOwner. *)
DisableAgent(r) ==
  LET call == work[r].call
  IN  Proceed(r, "disable", status[call.who] = "active",
              {u \in Users \ {call.who} : status[u] = "active"})

(* One KEY SHARE check of an event or audience row's membership. *)
FanOut(r) ==
  /\ At(r, "fanout")
  /\ work[r].refs # {}
  /\ Take(r)
  /\ work' = [work EXCEPT ![r].refs = @ \ {Wanted(r).row[2]}]
  /\ UNCHANGED <<data, calls>>

-----------------------------------------------------------------------------
(* COMMIT.                                                                 *)

Appends(r, type, chan, of, action) ==
  log' = Append(log, [type |-> type, chan |-> chan, by |-> work[r].call.by, of |-> of,
                      action |-> action, audience |-> work[r].audience,
                      unread |-> work[r].unread])

Committing(r, op) ==
  /\ At(r, "fanout")
  /\ work[r].refs = {}
  /\ Does(r, {op})
  /\ End(r)
  /\ UNCHANGED calls

(* UNIQUE (author_id, client_message_id) admits a first row only. *)
CommitMessage(r) ==
  LET call == work[r].call
      m == <<call.by, call.key>>
  IN  /\ Committing(r, "send")
      /\ messages[m] = None
      /\ messages' = [messages EXCEPT ![m] =
                        [chan |-> call.chan, deleted |-> FALSE,
                         cs |-> Cardinality(InChannel(call.chan)) + 1]]
      /\ Appends(r, "message.created", call.chan, m, None)
      /\ UNCHANGED <<status, seats, archived, reactions, cursors>>

CommitRetract(r) ==
  LET m == work[r].call.msg
  IN  /\ Committing(r, "retract")
      /\ messages' = [messages EXCEPT ![m].deleted = TRUE]
      /\ Appends(r, "message.retracted", messages[m].chan, m, None)
      /\ UNCHANGED <<status, seats, archived, reactions, cursors>>

CommitReaction(r) ==
  LET call == work[r].call
      mine == {<<call.msg, call.by>>}
      chan == messages[call.msg].chan
  IN  /\ \/ /\ Committing(r, "react")
            /\ reactions' = reactions \cup mine
            /\ Appends(r, "reaction.added", chan, call.msg, None)
         \/ /\ Committing(r, "unreact")
            /\ reactions' = reactions \ mine
            /\ Appends(r, "reaction.removed", chan, call.msg, None)
      /\ UNCHANGED <<status, seats, archived, messages, cursors>>

CommitMembership(r) ==
  LET call == work[r].call
      Changed(role, action) ==
        /\ seats' = [seats EXCEPT ![call.chan][call.who] = role]
        /\ Appends(r, "channel.membership_changed", call.chan, call.who, action)
  IN  /\ \/ /\ Committing(r, "seat")
            /\ Changed(call.role,
                       IF seats[call.chan][call.who] = "none" THEN "added" ELSE "updated")
         \/ Committing(r, "remove") /\ Changed("none", "removed")
      /\ UNCHANGED <<status, archived, messages, reactions, cursors>>

CommitArchive(r) ==
  LET c == work[r].call.chan
  IN  /\ Committing(r, "archive")
      /\ archived' = [archived EXCEPT ![c] = TRUE]
      /\ Appends(r, "channel.archived", c, None, None)
      /\ UNCHANGED <<status, seats, messages, reactions, cursors>>

CommitDisable(r) ==
  LET who == work[r].call.who
  IN  /\ Committing(r, "disable")
      /\ status' = [status EXCEPT ![who] = "revoked"]
      /\ Appends(r, "member.updated", None, who, None)
      /\ UNCHANGED <<seats, archived, messages, reactions, cursors>>

CommitCursor(r) ==
  LET call == work[r].call
      c == messages[call.msg].chan
  IN  /\ Committing(r, "read")
      /\ cursors' = [cursors EXCEPT ![c][call.by] = messages[call.msg].cs]
      /\ Appends(r, "read_cursor.updated", c, call.msg, None)
      /\ UNCHANGED <<status, seats, archived, messages, reactions>>

-----------------------------------------------------------------------------
(* An error, a lost connection, or PostgreSQL ending a deadlock by aborting *)
(* one of its sessions: nothing was written.                               *)
Rollback(r) ==
  /\ ~At(r, "idle")
  /\ End(r)
  /\ UNCHANGED <<data, calls>>

(* All the calls of the bound are answered. *)
Finished ==
  /\ calls = MaxCalls
  /\ \A r \in Requests : At(r, "idle")
  /\ UNCHANGED vars

Step(r) ==
  \/ LockKey(r) \/ LockChannel(r) \/ LockSender(r) \/ Authorize(r)
  \/ LockPrincipal(r) \/ LockTarget(r) \/ LockWorkspace(r)
  \/ LockCursor(r) \/ CheckReference(r)
  \/ AllocateForMessage(r) \/ AllocateForCursor(r)
  \/ Retract(r) \/ AddReaction(r) \/ RemoveReaction(r)
  \/ UpsertChannelMember(r) \/ RemoveChannelMember(r)
  \/ ArchiveChannel(r) \/ DisableAgent(r)
  \/ FanOut(r)
  \/ CommitMessage(r) \/ CommitRetract(r) \/ CommitReaction(r) \/ CommitMembership(r)
  \/ CommitArchive(r) \/ CommitDisable(r) \/ CommitCursor(r)

Next ==
  \/ \E r \in Requests : Begin(r) \/ Step(r) \/ Rollback(r)
  \/ Finished

Spec == Init /\ [][Next]_vars

-----------------------------------------------------------------------------
(* Properties.                                                             *)

Indices == 1..Len(log)

(* Every variable has its type, and a session that is idle holds no lock. *)
TypeOK ==
  /\ status \in [Users -> {"active", "revoked"}]
  /\ seats \in [Channels -> [Users -> {"none", "member", "owner"}]]
  /\ archived \in [Channels -> BOOLEAN]
  /\ messages \in [MessageIds ->
                      [chan : Channels, deleted : BOOLEAN, cs : 1..MaxCalls] \cup {None}]
  /\ reactions \subseteq MessageIds \X Users
  /\ cursors \in [Channels -> [Users -> 0..MaxCalls]]
  /\ Len(log) <= calls /\ calls <= MaxCalls
  /\ \A r \in Requests : At(r, "idle") => work[r] = Idle /\ locks[r] = {}

(* The seat and the workspace membership the log tells of before event i. *)
SeatedBefore(u, c, i) ==
  LET changes == {j \in 1..(i - 1) : /\ log[j].type = "channel.membership_changed"
                                     /\ log[j].chan = c /\ log[j].of = u}
      latest == CHOOSE j \in changes : \A k \in changes : k <= j
  IN  IF changes = {} THEN InitialSeats[c][u] # "none"
      ELSE log[latest].action # "removed"

ActiveBefore(u, i) ==
  \A j \in 1..(i - 1) : ~(log[j].type = "member.updated" /\ log[j].of = u)

(* A send that has passed its authorization never meets a committed message *)
(* of its author and key, so UNIQUE never turns a retry or a second use of  *)
(* the key into an unexpected error, whatever conversations the two name.   *)
KeyStaysFree ==
  \A r \in Requests :
    /\ At(r, "sequence") \/ At(r, "fanout")
    /\ Does(r, {"send"})
    => messages[<<work[r].call.by, work[r].call.key>>] = None

(* Sends, archives and removals may arrive in any order: a message commits  *)
(* only while its author still has a workspace membership and a seat and    *)
(* the channel is open, although all three were read several statements     *)
(* and lock waits earlier.                                                  *)
CommitsWhileAllowed ==
  [][\A m \in MessageIds :
       messages[m] = None /\ messages'[m] # None =>
         /\ status[m[1]] = "active"
         /\ Visible(m[1], messages'[m].chan)
         /\ ~archived[messages'[m].chan]]_vars

(* Who receives an event is what the log before it says: the active members *)
(* with a seat, and the member the event itself seats.  A replica that      *)
(* lost its seat or its membership at one sequence gets no later event of   *)
(* the channel, and no member misses one.                                   *)
AudienceFollowsLog ==
  \A i \in Indices :
    LET e == log[i]
        members == {u \in Users : ActiveBefore(u, i) /\ SeatedBefore(u, e.chan, i)}
    IN  e.audience =
          CASE e.type = "read_cursor.updated" -> {e.by}
            [] e.type = "member.updated" ->
                 {u \in Users \ {e.of} : ActiveBefore(u, i)}
            [] e.type = "channel.membership_changed" /\ e.action = "added" ->
                 members \cup {e.of}
            [] OTHER -> members

(* Nothing but reads and retractions follows a channel.archived in the      *)
(* channel, and no reaction follows a message.retracted on the message,     *)
(* also when the two waited for the same row.                               *)
EndsAreFinal ==
  \A i, j \in Indices :
    i < j =>
      /\ log[i].type = "channel.archived" /\ log[j].chan = log[i].chan =>
           log[j].type \in {"message.retracted", "read_cursor.updated"}
      /\ /\ log[i].type = "message.retracted"
         /\ log[j].type \in {"reaction.added", "reaction.removed", "message.retracted"}
         => log[j].of # log[i].of

(* Two owners who remove or demote each other at the same time cannot leave *)
(* a channel without an active owner: only a revocation in the workspace    *)
(* takes the last one away.                                                 *)
ActiveOwners(c) == {u \in Users : seats[c][u] = "owner" /\ status[u] = "active"}

KeepsAnOwner ==
  [][\A c \in Channels :
       ActiveOwners(c) # {} /\ status' = status => ActiveOwners(c)' # {}]_vars

(* A read event carries the unread count of exactly the messages that the   *)
(* events before it created and did not retract, so a client that adds the  *)
(* later events to it is right; and a member's cursor only advances.        *)
ReadsCountTheLog ==
  \A i \in Indices :
    log[i].type = "read_cursor.updated" =>
      LET upto == messages[log[i].of].cs
          Live(j) == /\ log[j].type = "message.created"
                     /\ log[j].chan = log[i].chan
                     /\ log[j].by # log[i].by
                     /\ messages[log[j].of].cs > upto
                     /\ \A k \in 1..(i - 1) :
                          ~(log[k].type = "message.retracted" /\ log[k].of = log[j].of)
      IN  /\ log[i].unread = Cardinality({j \in 1..(i - 1) : Live(j)})
          /\ \A j \in 1..(i - 1) :
               /\ log[j].type = "read_cursor.updated"
               /\ log[j].chan = log[i].chan
               /\ log[j].by = log[i].by
               => messages[log[j].of].cs < upto

(* What the log tells its readers is what happened, together. *)
LogIsTrue == TypeOK /\ AudienceFollowsLog /\ EndsAreFinal /\ ReadsCountTheLog

-----------------------------------------------------------------------------
(* What the comments of the code promise.                                  *)

(* The lock order of delivery and revocation lets no two transactions wait  *)
(* for each other: the comments at identity/service.ts:418-419 and          *)
(* workspace/authorization.ts:176-177.                                      *)
NoDeadlock == \A S \in SUBSET Requests : ~WaitTogether(S)
=============================================================================
