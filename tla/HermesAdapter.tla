---------------------------- MODULE HermesAdapter ----------------------------
(* The Hermes gateway's adapter: it follows the workspace's log through a watch child, *)
(* hands every message to a model's session and moves its read cursors behind them.    *)
(* One file keeps its position, the read targets it still owes, and the ambient wakes  *)
(* (channel messages that do not mention it) whose turn has not been decided. Three    *)
(* tasks share that state between their awaits: the watch, the recovery of ambient     *)
(* wakes, and the retry of read targets. Hermes itself is external: a conversation has *)
(* one running turn and a bounded queue behind it.                                     *)
(* Code: integrations/hermes-hype-comms/adapter.py.                                    *)
EXTENDS Integers, Sequences, FiniteSets, SequencesExt

CONSTANTS
  Events,      \* bound: the events, each with its conversation and its kind
  Capacity,    \* turns that may wait behind the running one
  MaxWakes,    \* MAX_PENDING_AMBIENT_WAKES
  MaxFailures, \* bound: failed commands, writes and turns
  MaxCrashes,  \* bound: ends of the process
  MaxStops,    \* bound: disconnects asked for
  MaxResyncs   \* bound: positions the server no longer serves

VARIABLES
  adapter,   \* the adapter's memory and where its tasks stand
  disk,      \* the cursor file
  head,      \* events the server has published
  server,    \* the read cursor of each conversation
  sessions,  \* the turns of each conversation: the running one and those behind it
  draining,  \* Hermes refuses new turns
  seen,      \* history: what became of each message
  used       \* what the bounds count

vars == <<adapter, disk, head, server, sessions, draining, seen, used>>

Positions == 1..Len(Events)
Conversations == {Events[m].conversation : m \in Positions}
Conv(m) == Events[m].conversation
Ambient(m) == Events[m].kind = "ambient"
Tasks == {"watch", "replay", "retry"}
Flying == [by : Tasks \cup {"none"}, target : 0..Len(Events)]
NoFlight == [by |-> "none", target |-> 0]
NoReplay == [at |-> "none", msg |-> 0, todo |-> <<>>, blocked |-> {}]
Larger(i, j) == IF i > j THEN i ELSE j

Kept(a) == [cursor |-> a.cursor, reads |-> a.reads, wakes |-> a.wakes]

TypeOK ==
  /\ adapter.cursor \in 0..Len(Events) /\ ToSet(adapter.wakes) \subseteq Positions
  /\ \A c \in Conversations : adapter.reads[c] \in 0..Len(Events)
                              /\ adapter.flight[c] \in Flying
  /\ adapter.watch.at \in {"off", "connecting", "recovering", "reading", "fetching",
                           "handing", "flushing", "backoff", "resync", "ended"}
  /\ adapter.replay.at \in {"none", "waiting", "scanning", "fetching", "handing", "flushing"}
  /\ adapter.retrying \in {"none", "waiting", "flushing"}
  /\ Len(adapter.wakes) <= MaxWakes /\ head \in 0..Len(Events)

Nothing == [c \in Conversations |-> 0]
(* A process that has just started: what __init__ leaves for connect.                  *)
Fresh(file) ==
  [cursor |-> file.cursor, reads |-> file.reads, wakes |-> file.wakes, parked |-> Nothing,
   admitted |-> {}, admissions |-> {}, delayed |-> {}, stopped |-> FALSE,
   watch |-> [at |-> "off", msg |-> 0, next |-> 1], replay |-> NoReplay,
   retrying |-> "none", want |-> [p \in Tasks |-> {}],
   flight |-> [c \in Conversations |-> NoFlight]]

(* The first installation has stored the bootstrap position.                           *)
Init ==
  /\ disk = [cursor |-> 0, reads |-> Nothing, wakes |-> <<>>] /\ adapter = Fresh(disk)
  /\ head = 0 /\ server = Nothing /\ sessions = [c \in Conversations |-> <<>>]
  /\ draining = FALSE
  /\ seen = [handed |-> {}, decided |-> {}, refused |-> {}, dropped |-> {}, jumped |-> {}]
  /\ used = [failures |-> 0, crashes |-> 0, stops |-> 0, resyncs |-> 0]

-----------------------------------------------------------------------------
(* Steps of the memory, as functions of it.                                            *)
CanFail == used.failures < MaxFailures
Failing == CanFail /\ used' = [used EXCEPT !.failures = @ + 1]

Waiting(a) == {m \in a.admissions : m \in ToSet(a.wakes) /\ m \notin a.admitted}
(* _has_pending_ambient_admission                                                      *)
HasPendingAdmission(a, c) == \E m \in Waiting(a) : Conv(m) = c
HasRetryableRead(a) == \E c \in Conversations : a.reads[c] # 0 /\ a.parked[c] # a.reads[c]
ScheduleRetry(a) ==
  IF HasRetryableRead(a) /\ ~a.stopped /\ a.retrying = "none"
  THEN [a EXCEPT !.retrying = "waiting"] ELSE a
ScheduleReplay(a) ==
  IF a.admissions # {} /\ ~a.stopped /\ a.replay.at = "none"
  THEN [a EXCEPT !.replay.at = "waiting"] ELSE a

Landed(a, p) == [c \in Conversations |-> IF a.flight[c].by = p THEN NoFlight ELSE a.flight[c]]
\* A defect: the reservation is given back whenever the task ends.
UnreservedAlways(a, task) == a.admitted \ {task.msg}
Unreserved(a, task) == IF task.at = "handing" THEN a.admitted \ {task.msg} ELSE a.admitted
CancelRetry(a) ==
  [a EXCEPT !.retrying = "none", !.want["retry"] = {}, !.flight = Landed(a, "retry")]
CancelReplay(a) ==
  [a EXCEPT !.replay = NoReplay, !.want["replay"] = {}, !.flight = Landed(a, "replay"),
            !.delayed = {}, !.admitted = Unreserved(a, a.replay)]
CancelWatch(a) ==
  [a EXCEPT !.watch.at = "off", !.want["watch"] = {}, !.flight = Landed(a, "watch"),
            !.admitted = Unreserved(a, a.watch)]
StopTasks(a) == CancelReplay(CancelRetry([a EXCEPT !.stopped = TRUE]))

(* _supervisor_fatal: of the watch, or of the recovery, which leaves the watch to the   *)
(* disconnect it asks for. While connect runs the first recovery, the start fails.     *)
Fatal(a, p) ==
  IF a.watch.at \in {"connecting", "recovering"} THEN CancelWatch(CancelReplay(a))
  ELSE IF p = "watch" THEN CancelWatch(StopTasks(a)) ELSE StopTasks(a)

(* The task has done with its message: the watch reads on unless it was stopped.       *)
Resumed(a, p) ==
  IF p = "watch"
  THEN [a EXCEPT !.watch.at = IF a.stopped THEN "ended" ELSE "reading"]
  ELSE [a EXCEPT !.replay.at = "scanning"]
(* A retryable failure: the watch is started again where the file stands; the recovery *)
(* leaves the conversation until its delay is over.                                    *)
Later(a, p, m) ==
  IF p = "watch" THEN [a EXCEPT !.watch.at = "backoff"]
  ELSE [a EXCEPT !.replay.at = "scanning", !.replay.blocked = @ \cup {Conv(m)},
                 !.delayed = @ \cup {Conv(m)}]

(* _retain_ambient_wake, idempotent; _complete_ambient_wake.                           *)
Retain(a, m) == IF m \in ToSet(a.wakes) THEN a ELSE [a EXCEPT !.wakes = Append(@, m)]
NoRoom(a, m) == m \notin ToSet(a.wakes) /\ Len(a.wakes) >= MaxWakes
Complete(a, m) == [a EXCEPT !.wakes = Remove(@, m), !.admitted = @ \ {m}]
Passed(a, m) == [a EXCEPT !.cursor = m]
(* _queue_read_cursor with _checkpoint_after_handoff: only a newer target or position  *)
(* replaces, and a newer target is not parked.                                         *)
\* A defect: the position of the message, whatever was stored.
QueueReadRewinds(a, m) ==
  [a EXCEPT !.cursor = m, !.reads[Conv(m)] = Larger(@, m),
            !.parked[Conv(m)] = IF m > a.reads[Conv(m)] THEN 0 ELSE @]
QueueRead(a, m) ==
  [a EXCEPT !.cursor = Larger(@, m), !.reads[Conv(m)] = Larger(@, m),
            !.parked[Conv(m)] = IF m > a.reads[Conv(m)] THEN 0 ELSE @]

(* The next state is a and the file holds it; or a write failed, what it was to store   *)
(* was taken back, and the next state is b.                                            *)
Stored(a) == adapter' = a /\ disk' = Kept(a)
Unstored(b) == Failing /\ adapter' = b /\ UNCHANGED disk
Save(a, b) == (Stored(a) /\ UNCHANGED used) \/ Unstored(b)

(* The process ends with this file.                                                    *)
EndsWith(file) ==
  /\ used.crashes < MaxCrashes /\ used' = [used EXCEPT !.crashes = @ + 1]
  /\ disk' = file /\ adapter' = Fresh(file) /\ draining' = FALSE
  /\ sessions' = [c \in Conversations |-> <<>>]
  /\ UNCHANGED <<head, server, seen>>

Outside == UNCHANGED <<head, server, sessions, draining, seen>>
-----------------------------------------------------------------------------
(* connect: the file is read again, its read targets are tried, its wakes are admitted *)
(* for a first time, and only then the watch starts.                                   *)
Connect ==
  LET a == [Fresh(disk) EXCEPT !.admitted = adapter.admitted, !.retrying = adapter.retrying,
              !.want = adapter.want, !.flight = adapter.flight,
              !.admissions = adapter.admissions] IN
  /\ adapter.watch.at = "off"
  /\ adapter' = [a EXCEPT !.watch.at = "connecting",
                   !.want["watch"] = {c \in Conversations : a.reads[c] # 0}]
  /\ UNCHANGED <<disk, used>> /\ Outside

Recover ==
  /\ adapter.watch.at = "connecting" /\ adapter.want["watch"] = {}
  /\ adapter' = [adapter EXCEPT !.watch.at = "recovering",
                   !.admissions = ToSet(adapter.wakes),
                   !.replay = [NoReplay EXCEPT !.at = "scanning", !.todo = adapter.wakes]]
  /\ UNCHANGED <<disk, used>> /\ Outside

(* _replay_pending_ambient_wakes, up to the next wake it dispatches: settled ones leave *)
(* the batch, and a conversation that waits keeps all of its wakes behind it.          *)
Skipped(a, m) ==
  \/ m \notin ToSet(a.wakes) \/ m \in a.admitted
  \/ Conv(m) \in a.replay.blocked \cup a.delayed
Scan ==
  LET a == adapter
      todo == a.replay.todo
      open == {i \in DOMAIN todo : ~Skipped(a, todo[i])}
      upTo == IF open = {} THEN Len(todo) + 1 ELSE CHOOSE i \in open : \A j \in open : i <= j
      passed == {todo[i] : i \in 1..(upTo - 1)}
      settled == {m \in passed : m \notin ToSet(a.wakes) \/ m \in a.admitted}
      left == a.admissions \ settled
      next == [a EXCEPT !.admissions = left,
                 !.replay.blocked = @ \cup {Conv(m) : m \in passed \ settled}]
      waits == {m \in left : m \in ToSet(a.wakes)}
      after == [a EXCEPT !.admissions = waits,
                  !.delayed = @ \cap {Conv(m) : m \in waits},
                  !.replay = [NoReplay EXCEPT !.at = IF waits = {} \/ a.stopped
                                                     THEN "none" ELSE "waiting"]] IN
  /\ a.replay.at = "scanning"
  /\ \/ /\ open # {}
        /\ adapter' = [next EXCEPT !.replay.at = "fetching", !.replay.msg = todo[upTo],
                         !.replay.todo = SubSeq(todo, upTo + 1, Len(todo))]
     \/ /\ open = {}
        /\ adapter' = IF a.watch.at = "recovering"
                      THEN ScheduleRetry([after EXCEPT !.watch.at = "reading",
                                                       !.watch.next = a.cursor + 1])
                      ELSE after
  /\ UNCHANGED <<disk, used>> /\ Outside

(* _wait_for_ambient_replay: until some conversation's delay is over, or nothing waits. *)
ReplayWakes ==
  LET a == adapter IN
  /\ a.replay.at = "waiting"
  /\ Waiting(a) = {} \/ \E m \in Waiting(a) : Conv(m) \notin a.delayed
  /\ adapter' = [a EXCEPT !.replay = [NoReplay EXCEPT !.at = "scanning",
                   !.todo = SelectSeq(a.wakes, LAMBDA m : m \in a.admissions)]]
  /\ UNCHANGED <<disk, used>> /\ Outside
ReplayDue(c) ==
  /\ c \in adapter.delayed /\ adapter' = [adapter EXCEPT !.delayed = @ \ {c}]
  /\ UNCHANGED <<disk, used>> /\ Outside

-----------------------------------------------------------------------------
(* _accept_event: what the watch reads next; a position at or below the file's is a     *)
(* duplicate, and a message nobody may wake the agent with is only passed.              *)
Accept ==
  LET m == adapter.watch.next
      a == [adapter EXCEPT !.watch.next = m + 1, !.watch.msg = m] IN
  /\ adapter.watch.at = "reading" /\ m <= head
  /\ \/ /\ m <= a.cursor /\ adapter' = Resumed(a, "watch") /\ UNCHANGED <<disk, used>>
     \/ /\ m > a.cursor /\ Events[m].kind = "ignored"
        /\ Save(Resumed(Passed(a, m), "watch"), Fatal(a, "watch"))
     \/ /\ m > a.cursor /\ Events[m].kind # "ignored"
        /\ ~(Ambient(m) /\ HasPendingAdmission(a, Conv(m)))
        /\ adapter' = [a EXCEPT !.watch.at = "fetching"] /\ UNCHANGED <<disk, used>>
  /\ Outside

(* _dispatch_message: behind an older wake of its channel that is not admitted yet, a    *)
(* newer one is only retained; the watch goes on and the recovery will fetch it.        *)
Deferred ==
  LET m == adapter.watch.next
      a == [adapter EXCEPT !.watch.next = m + 1, !.watch.msg = m]
      retained == Retain(a, m)
      joined == ScheduleReplay([retained EXCEPT !.admissions = @ \cup {m}]) IN
  /\ adapter.watch.at = "reading" /\ m <= head /\ m > a.cursor
  /\ Ambient(m) /\ HasPendingAdmission(a, Conv(m))
  /\ \/ NoRoom(a, m) /\ adapter' = Later(a, "watch", m) /\ UNCHANGED <<disk, used>> /\ Outside
     \/ /\ ~NoRoom(a, m)
        /\ \/ Stored(Resumed(Passed(joined, m), "watch")) /\ UNCHANGED used /\ Outside
           \/ Unstored(Fatal(a, "watch")) /\ Outside
           \/ Failing /\ adapter' = Fatal(joined, "watch") /\ disk' = Kept(joined) /\ Outside
           \/ EndsWith(Kept(retained))

(* The message is with Hermes: position and read target are stored together, and only    *)
(* then the target is advanced. "a" is the memory of which the file holds all.          *)
Checkpoint(a, p, m) ==
  LET handed == [a EXCEPT ![p].at = "flushing"] IN
  \/ Stored([QueueRead(handed, m) EXCEPT !.want[p] = {Conv(m)}]) /\ UNCHANGED used
  \/ Failing /\ adapter' = Fatal(handed, p) /\ disk' = Kept(a)
Takes(m) ==
  /\ sessions' = [sessions EXCEPT ![Conv(m)] = Append(@, m)]
  /\ seen' = [seen EXCEPT !.handed = @ \cup {m}]
  /\ UNCHANGED <<head, server, draining>>
Busy(c) == sessions[c] # <<>>
Full(c) == Len(sessions[c]) > Capacity

(* _dispatch_message, once the context has come. An ambient wake is stored before it is *)
(* handed over, and reserved before the task yields; a running conversation takes it at *)
(* once into its queue, an idle one after handle_message has yielded.                   *)
Fetched(p) ==
  LET m == adapter[p].msg
      a == IF Ambient(m) THEN Retain(adapter, m) ELSE adapter
      reserved == [a EXCEPT !.admitted = @ \cup {m}] IN
  /\ adapter[p].at = "fetching"
  /\ \/ /\ ~Ambient(m)
        /\ adapter' = [a EXCEPT ![p].at = "handing"] /\ UNCHANGED <<disk, used>> /\ Outside
     \/ /\ Ambient(m) /\ NoRoom(adapter, m)
        /\ adapter' = Later(adapter, p, m) /\ UNCHANGED <<disk, used>> /\ Outside
     \/ /\ Ambient(m) /\ ~NoRoom(adapter, m)
        /\ \/ a # adapter /\ Unstored(Fatal(adapter, p)) /\ Outside
           \/ a # adapter /\ EndsWith(Kept(a))
           \/ m \in a.admitted /\ Checkpoint(a, p, m) /\ Outside
           \/ /\ m \notin a.admitted /\ (draining \/ Full(Conv(m)))
              /\ Stored(Later(a, p, m)) /\ UNCHANGED used /\ Outside
           \/ /\ m \notin a.admitted /\ ~draining /\ ~Busy(Conv(m))
              /\ Stored([reserved EXCEPT ![p].at = "handing"]) /\ UNCHANGED used /\ Outside
           \/ /\ m \notin a.admitted /\ ~draining /\ Busy(Conv(m)) /\ ~Full(Conv(m))
              /\ Checkpoint(reserved, p, m) /\ Takes(m)

(* handle_message has yielded: the conversation may have become busy meanwhile, and the *)
(* installed busy handler queues an ambient wake or refuses it.                         *)
Handed(p) ==
  LET m == adapter[p].msg IN
  /\ adapter[p].at = "handing"
  /\ \/ /\ Ambient(m) /\ Busy(Conv(m)) /\ (draining \/ Full(Conv(m)))
        /\ adapter' = [Later(adapter, p, m) EXCEPT !.admitted = @ \ {m}]
        /\ seen' = [seen EXCEPT !.refused = @ \cup {m}]
        /\ UNCHANGED <<disk, used, head, server, sessions, draining>>
     \/ /\ ~(Ambient(m) /\ Busy(Conv(m)) /\ (draining \/ Full(Conv(m))))
        /\ Checkpoint(adapter, p, m) /\ Takes(m)

(* The message is no longer the agent's to read: the watch passes it, the recovery       *)
(* forgets its wake.                                                                    *)
Gone(p) ==
  LET m == adapter[p].msg
      forgotten == [Complete(adapter, m) EXCEPT !.admissions = @ \ {m}] IN
  /\ adapter[p].at = "fetching"
  /\ \/ p = "watch" /\ Save(Resumed(Passed(adapter, m), p), Fatal(adapter, p))
     \/ p = "replay" /\ Save(Resumed(forgotten, p), Fatal(adapter, p))
  /\ seen' = [seen EXCEPT !.dropped = @ \cup {m}]
  /\ UNCHANGED <<head, server, sessions, draining>>

FetchFails(p) ==
  LET m == adapter[p].msg IN
  /\ adapter[p].at = "fetching" /\ Failing
  /\ adapter' \in {Later(adapter, p, m), Fatal(adapter, p)}
  /\ UNCHANGED disk /\ Outside

(* The watch has flushed: _accept_event stores its position once more if it is not the  *)
(* file's. The recovery goes on to its next wake.                                       *)
Flushed(p) ==
  LET m == adapter[p].msg
      a == ScheduleRetry(adapter) IN
  /\ adapter[p].at = "flushing" /\ adapter.want[p] = {}
  /\ \/ p = "watch" /\ a.cursor = m /\ adapter' = Resumed(a, p) /\ UNCHANGED <<disk, used>>
     \/ p = "watch" /\ a.cursor # m /\ Save(Resumed(Passed(a, m), p), Fatal(a, p))
     \/ /\ p = "replay" /\ UNCHANGED <<disk, used>>
        /\ adapter' = Resumed([a EXCEPT !.admissions = @ \ {m}], p)
  /\ Outside

-----------------------------------------------------------------------------
(* _flush_one_read_cursor: one command per conversation at a time; a target that is     *)
(* parked is left.                                                                      *)
Advance(p, c) ==
  LET a == adapter
      none == a.reads[c] = 0 \/ a.parked[c] = a.reads[c] IN
  /\ c \in a.want[p] /\ a.flight[c] = NoFlight
  /\ \/ none /\ adapter' = [a EXCEPT !.want[p] = @ \ {c}]
     \/ ~none /\ adapter' = [a EXCEPT !.flight[c] = [by |-> p, target |-> a.reads[c]]]
  /\ UNCHANGED <<disk, used>> /\ Outside

(* Its answer: only the target that was sent is completed, or parked when it or the     *)
(* write of its removal failed for good; a lost answer may have moved the server's.     *)
Answer(c) ==
  LET p == adapter.flight[c].by
      sent == adapter.flight[c].target
      same == adapter.reads[c] = sent
      a == [adapter EXCEPT !.flight[c] = NoFlight, !.want[p] = @ \ {c}]
      done == [a EXCEPT !.reads[c] = 0, !.parked[c] = 0]
      parks == [a EXCEPT !.parked[c] = IF same THEN sent ELSE @]
      moved == [server EXCEPT ![c] = Larger(@, sent)] IN
  /\ p # "none"
  /\ \/ same /\ Save(done, parks) /\ server' = moved
     \/ ~same /\ adapter' = a /\ UNCHANGED <<disk, used>> /\ server' = moved
     \/ /\ Failing /\ adapter' \in {a, parks} /\ UNCHANGED disk
        /\ server' \in {server, moved}
  /\ UNCHANGED <<head, sessions, draining, seen>>

(* _read_cursor_retry_loop.                                                             *)
RetryReads ==
  LET a == adapter IN
  /\ \/ /\ a.retrying = "waiting"
        /\ adapter' = IF HasRetryableRead(a) /\ ~a.stopped
                      THEN [a EXCEPT !.retrying = "flushing",
                              !.want["retry"] = {c \in Conversations : a.reads[c] # 0}]
                      ELSE [a EXCEPT !.retrying = "none"]
     \/ /\ a.retrying = "flushing" /\ a.want["retry"] = {}
        /\ adapter' = [a EXCEPT !.retrying = IF HasRetryableRead(a) /\ ~a.stopped
                                             THEN "waiting" ELSE "none"]
  /\ UNCHANGED <<disk, used>> /\ Outside

-----------------------------------------------------------------------------
(* _watch_supervisor: after a delay the child is started where the file stands.         *)
Respawn ==
  LET a == adapter IN
  /\ a.watch.at = "backoff"
  /\ adapter' = IF a.stopped THEN [a EXCEPT !.watch.at = "ended"]
                ELSE [a EXCEPT !.watch.at = "reading", !.watch.next = a.cursor + 1]
  /\ UNCHANGED <<disk, used>> /\ Outside
ChildExits ==
  /\ adapter.watch.at = "reading" /\ Failing
  /\ adapter' = [adapter EXCEPT !.watch.at = "backoff"] /\ UNCHANGED disk /\ Outside

(* The server no longer serves the position: the directory is read and the file moves   *)
(* to the head it came with, whatever was not seen before it.                           *)
ResyncRequired ==
  /\ adapter.watch.at = "reading" /\ used.resyncs < MaxResyncs
  /\ used' = [used EXCEPT !.resyncs = @ + 1]
  /\ adapter' = [adapter EXCEPT !.watch.at = "resync"] /\ UNCHANGED disk /\ Outside
Resync ==
  /\ adapter.watch.at = "resync" /\ ~adapter.stopped
  /\ Save([Passed(adapter, head) EXCEPT !.watch.at = "backoff"], Fatal(adapter, "watch"))
  /\ seen' = [seen EXCEPT !.jumped = @ \cup ((adapter.cursor + 1)..disk'.cursor)]
  /\ UNCHANGED <<head, server, sessions, draining>>

(* disconnect, which the gateway also asks for after a fatal error: the tasks are       *)
(* cancelled, and the watch may end its event before it is cancelled too.               *)
Disconnect ==
  /\ adapter.watch.at \notin {"off", "connecting", "recovering"}
  /\ ~adapter.stopped /\ used.stops < MaxStops
  /\ used' = [used EXCEPT !.stops = @ + 1]
  /\ adapter' = StopTasks(adapter) /\ UNCHANGED disk /\ Outside
WatchStops ==
  /\ adapter.stopped /\ adapter.watch.at # "off" /\ adapter' = CancelWatch(adapter)
  /\ UNCHANGED <<disk, used>> /\ Outside

Crash == EndsWith(disk)

-----------------------------------------------------------------------------
(* External: the server publishes, and Hermes runs the turns of a conversation in order. *)
Publish ==
  /\ head < Len(Events) /\ head' = head + 1
  /\ UNCHANGED <<adapter, disk, server, sessions, draining, seen, used>>
Drain ==
  /\ ~draining /\ used.crashes < MaxCrashes /\ draining' = TRUE
  /\ UNCHANGED <<adapter, disk, head, server, sessions, seen, used>>

(* guarded_method: a decided turn retires its wake; a failed one, or a write that fails, *)
(* leaves it in the file for the next connection.                                       *)
TurnEnds(c) ==
  LET m == Head(sessions[c])
      released == [adapter EXCEPT !.admitted = @ \ {m}] IN
  /\ sessions[c] # <<>> /\ sessions' = [sessions EXCEPT ![c] = Tail(@)]
  /\ \/ /\ \/ m \in ToSet(adapter.wakes) /\ Save(Complete(adapter, m), released)
           \/ m \notin ToSet(adapter.wakes) /\ adapter' = released /\ UNCHANGED <<disk, used>>
        /\ seen' = [seen EXCEPT !.decided = @ \cup {m}]
     \/ Failing /\ adapter' = released /\ UNCHANGED <<disk, seen>>
  /\ UNCHANGED <<head, server, draining>>

RetrySteps ==
  \/ RetryReads
  \/ \E c \in Conversations : Advance("retry", c) \/ Answer(c)
Dispatches(p) ==
  Fetched(p) \/ Handed(p) \/ Flushed(p) \/ \E c \in Conversations : Advance(p, c)
WatchSteps ==
  \/ Connect \/ Recover \/ Accept \/ Deferred \/ Respawn \/ Resync \/ WatchStops
  \/ Dispatches("watch")
ReplaySteps == Scan \/ ReplayWakes \/ Dispatches("replay")
Elsewhere == \E c \in Conversations : ReplayDue(c) \/ TurnEnds(c)
Next ==
  \/ RetrySteps \/ WatchSteps \/ ReplaySteps \/ Elsewhere \/ ChildExits \/ ResyncRequired \/ Disconnect \/ Crash \/ Publish \/ Drain
  \/ \E p \in {"watch", "replay"} : Gone(p) \/ FetchFails(p)

Spec == Init /\ [][Next]_vars

(* The event loop runs what is ready, timers fire, commands answer, and the gateway     *)
(* connects the adapter again.                                                          *)
FairSpec == Spec /\ WF_vars(RetrySteps) /\ WF_vars(WatchSteps) /\ WF_vars(ReplaySteps)

-----------------------------------------------------------------------------
AmbientIn(c) == SelectSeq(sessions[c], Ambient)

(* At every await the file holds what the memory says: a write that failed left nothing *)
(* behind, in either.                                                                   *)
FileIsMemory == disk = Kept(adapter)

(* Nothing below the stored position is forgotten: an ambient wake is in the file until *)
(* it is decided, and any other message was handed over; only a resync jumps.           *)
NothingOverlooked ==
  \A m \in 1..disk.cursor :
    \/ m \in seen.dropped \cup seen.jumped \/ Events[m].kind = "ignored"
    \/ Ambient(m) /\ m \in ToSet(disk.wakes) \cup seen.decided
    \/ Events[m].kind = "mention" /\ m \in seen.handed

(* A live Hermes holds one copy of an ambient wake.                                     *)
OneCopy ==
  \A c \in Conversations : Cardinality(ToSet(AmbientIn(c))) = Len(AmbientIn(c))

(* A read cursor names a message Hermes was given, or one that the file still keeps for  *)
(* it: when the watch meets a wake the recovery has reserved and not handed over yet, it *)
(* takes it for handed over (the recovery may be refused afterwards).                   *)
ReadsFollow ==
  \A c \in Conversations :
    {server[c], disk.reads[c]} \subseteq
      {0} \cup {m \in seen.handed \cup seen.dropped \cup ToSet(disk.wakes) : Conv(m) = c}

(* The stored position never moves back.                                                *)
NeverBack == disk'.cursor >= disk.cursor

(* A read target that was not refused for good reaches the server.                      *)
ReadsSettle == HasRetryableRead(adapter) ~> ~HasRetryableRead(adapter)

(* An ambient wake enters its session behind the older ones of its conversation that    *)
(* the recovery still has to admit, except one that was reserved and refused after all: *)
(* a newer wake may have passed the check while it was reserved.                        *)
InOrder ==
  \A c \in Conversations : \A m \in Positions :
    (Len(sessions'[c]) > Len(sessions[c]) /\ sessions'[c][Len(sessions'[c])] = m /\ Ambient(m))
      => \A k \in Waiting(adapter) : Conv(k) = c => 
          k >= m \/ k \in seen.refused \/ adapter.stopped
=============================================================================
