-------------------------------- MODULE Tasks --------------------------------
(* A channel's task board (task-operations.ts): tasks are created, edited and moved with an *)
(* idempotency key and the version their author saw, while members are removed and the      *)
(* channel is archived (conversation-operations.ts).  Every one of these transactions       *)
(* locks the conversation's row first; whether its actor sees the channel is decided by the *)
(* snapshot of that statement, taken before it waits.  Number, rank, rows, record and       *)
(* events are written under the lock and appear at the commit.                             *)
EXTENDS Naturals, Sequences, FiniteSets

CONSTANTS
  Sessions,     \* connections that run a request
  Keys,         \* idempotency keys, from 1: a client makes them one after the other
  Members, Nobody,
  Authors,      \* the members who ask
  Assignees,    \* the members they name
  Boards,       \* the boards a behaviour may begin with: sequences of [status, rank]
  Step,         \* TASK_RANK_STEP
  RankLimit,    \* POSTGRES_BIGINT_MAX
  PageSize,
  MaxTasks, MaxAttempts, MaxSeatings

VARIABLES
  seated, archived, \* the channel: its members, whether it is closed
  tasks, lastNumber, \* tasks by number, conversations.last_task_number
  published,        \* the task events: [number, version]
  requests,         \* what a client asked under a key
  records,          \* api_idempotency_records
  answers,          \* what was answered to a key
  holder,           \* the session with the conversation's lock
  work,             \* what each session is in the middle of
  walk,             \* a client that loads the board page by page
  attempts, seatings

taskVars == <<seated, archived, tasks, lastNumber, published, requests, records, answers, holder,
              work, walk, attempts, seatings>>

Numbers == 1..MaxTasks
Statuses == {"todo", "done"}
NoTask == [status |-> "none", rank |-> 0, version |-> 0, assignee |-> Nobody, completed |-> FALSE]
NoRequest == [kind |-> "none", by |-> Nobody, task |-> 0, status |-> "none", before |-> 0,
              assignee |-> Nobody, expected |-> 0]
NoAnswer == [task |-> 0, version |-> 0]
Answered == [task : Numbers, version : Nat]
Idle == [key |-> 0, pc |-> "none", sees |-> FALSE, current |-> NoTask]
Resting == [pc |-> "none", from |-> 0, next |-> 0, got |-> [n \in Numbers |-> 0]]
NoHolder == Nobody

TypeOK ==
  /\ seated \subseteq Members /\ archived \in BOOLEAN /\ lastNumber \in 0..MaxTasks
  /\ \A n \in Numbers :
       /\ tasks[n].status \in {"none"} \cup Statuses /\ tasks[n].rank \in 0..RankLimit
       /\ tasks[n].version \in Nat /\ tasks[n].assignee \in Members \cup {Nobody}
  /\ published \in Seq([number : Numbers, version : Nat])
  /\ \A k \in Keys : /\ requests[k].kind \in {"none", "create", "update", "move"}
                     /\ records[k] \in Answered \cup {NoAnswer} /\ answers[k] \subseteq Answered
  /\ holder \in Sessions \cup {NoHolder}
  /\ \A s \in Sessions : work[s].pc \in {"none", "lock", "run"} /\ work[s].key \in {0} \cup Keys
  /\ walk.pc \in {"none", "walking", "done"}
  /\ attempts \in 0..MaxAttempts /\ seatings \in 0..MaxSeatings

Init ==
  /\ seated = Members /\ archived = FALSE
  /\ \E board \in Boards :
       /\ tasks = [n \in Numbers |-> IF n > Len(board) THEN NoTask
                   ELSE [board[n] EXCEPT !.completed = board[n].status = "done"]]
       /\ lastNumber = Len(board)
       /\ published = [n \in 1..Len(board) |-> [number |-> n, version |-> 1]]
  /\ requests = [k \in Keys |-> NoRequest] /\ records = [k \in Keys |-> NoAnswer]
  /\ answers = [k \in Keys |-> {}] /\ holder = NoHolder /\ work = [s \in Sessions |-> Idle]
  /\ walk = Resting /\ attempts = 0 /\ seatings = 0

Exists(n) == tasks[n].status # "none"
Column(status) == {n \in Numbers : tasks[n].status = status}
\* ORDER BY rank, id
Precedes(T, a, b) == T[a].rank < T[b].rank \/ (T[a].rank = T[b].rank /\ a < b)
Last(T, S) == {n \in S : \A m \in S : ~Precedes(T, n, m)}
RankOf(S) == IF S = {} THEN 0 ELSE CHOOSE r \in 0..RankLimit : \E n \in S : tasks[n].rank = r

\* asking, and asking again under the same key after an answer that was lost

Visible(m) == m \in seated
MayAsk(s) == \* the pool's connections are alike
  /\ attempts < MaxAttempts /\ work[s] = Idle /\ s = CHOOSE o \in Sessions : work[o] = Idle
Asks(s, k, request) ==
  /\ attempts' = attempts + 1
  /\ requests[k] \in {NoRequest, request} /\ \A j \in Keys : j < k => requests[j] # NoRequest
  /\ requests' = [requests EXCEPT ![k] = request]
  /\ work' = [work EXCEPT ![s] = [Idle EXCEPT !.key = k, !.pc = "lock", !.sees = Visible(request.by)]]
  /\ UNCHANGED <<seated, archived, tasks, lastNumber, published, records, answers, holder, walk, seatings>>
createTask(s, k, by, assignee) ==
  Asks(s, k, [NoRequest EXCEPT !.kind = "create", !.by = by, !.assignee = assignee])
updateTask(s, k, by, n, assignee) ==
  Exists(n) /\ Asks(s, k, [NoRequest EXCEPT !.kind = "update", !.by = by, !.task = n, !.assignee = assignee,
                                            !.expected = tasks[n].version])
moveTask(s, k, by, n, status, before) ==
  Exists(n) /\ before # n /\ (before # 0 => tasks[before].status = status)
  /\ Asks(s, k, [NoRequest EXCEPT !.kind = "move", !.by = by, !.task = n, !.status = status,
                                  !.before = before, !.expected = tasks[n].version])
Retry(s, k) == requests[k] # NoRequest /\ Asks(s, k, requests[k])

\* mutant: the task's row is read without waiting for the lock
FreeOrNot(s) == TRUE
Free(s) == holder = NoHolder
\* requireTaskTarget: the conversation FOR UPDATE, then the task's row as it is now
requireTaskTarget(s) ==
  LET request == requests[work[s].key] IN
  /\ work[s].pc = "lock" /\ Free(s)
  /\ IF work[s].sees /\ ~archived
     THEN /\ holder' = s
          /\ work' = [work EXCEPT ![s].pc = "run",
                                  ![s].current = IF request.task = 0 THEN NoTask ELSE tasks[request.task]]
     ELSE work' = [work EXCEPT ![s] = Idle] /\ UNCHANGED holder
  /\ UNCHANGED <<seated, archived, tasks, lastNumber, published, requests, records, answers, walk, attempts, seatings>>

\* the transaction ends; what it answers may be lost on the way
Releases(s) == holder' = (IF holder = s THEN NoHolder ELSE holder) /\ work' = [work EXCEPT ![s] = Idle]
Replies(k, answer) == \E arrives \in BOOLEAN :
  answers' = IF arrives THEN [answers EXCEPT ![k] = @ \cup {answer}] ELSE answers
ClientKept == UNCHANGED <<seated, archived, requests, walk, attempts, seatings>>
Runs(s, kind) == work[s].pc = "run" /\ requests[work[s].key].kind = kind /\ records[work[s].key] = NoAnswer
Event(n, T) == [number |-> n, version |-> T[n].version]
Commits(s, n, T, events) ==
  LET k == work[s].key
      answer == [task |-> n, version |-> T[n].version] IN
  /\ tasks' = T /\ published' = published \o events
  /\ records' = [records EXCEPT ![k] = answer] /\ Replies(k, answer) /\ Releases(s) /\ ClientKept
Edited(n, new) == [tasks EXCEPT ![n] = [new EXCEPT !.version = tasks[n].version + 1]]

\* runIdempotentMutation: a key that was answered is answered the same
Replayed(s) ==
  LET k == work[s].key IN
  /\ work[s].pc = "run" /\ records[k] # NoAnswer /\ Replies(k, records[k]) /\ Releases(s)
  /\ UNCHANGED <<tasks, lastNumber, published, records>> /\ ClientKept

MayBeAssigned(m) == m \in seated
validateTaskReferences(request) == request.assignee # Nobody => MayBeAssigned(request.assignee)

CommitCreate(s) ==
  LET request == requests[work[s].key]
      n == lastNumber + 1
      rank == RankOf(Last(tasks, Column("todo"))) + Step
      T == [tasks EXCEPT ![n] = [status |-> "todo", rank |-> rank, version |-> 1,
                                 assignee |-> request.assignee, completed |-> FALSE]] IN
  /\ Runs(s, "create") /\ validateTaskReferences(request) /\ rank <= RankLimit /\ n <= MaxTasks
  /\ lastNumber' = n /\ Commits(s, n, T, <<[number |-> n, version |-> 1]>>)

CommitUpdate(s) ==
  LET request == requests[work[s].key]
      n == request.task
      T == Edited(n, [tasks[n] EXCEPT !.assignee = request.assignee]) IN
  /\ Runs(s, "update") /\ work[s].current.version = request.expected /\ validateTaskReferences(request)
  /\ UNCHANGED lastNumber /\ Commits(s, n, T, <<Event(n, T)>>)

\* where a moved task goes: the others of the column in order, and its place among them
Ordered(status, n) ==
  LET others == Column(status) \ {n}
      before(m) == {o \in others : Precedes(tasks, o, m)} IN
  [i \in 1..Cardinality(others) |-> CHOOSE m \in others : Cardinality(before(m)) = i - 1]
Placed(column, at, n) == SubSeq(column, 1, at - 1) \o <<n>> \o SubSeq(column, at, Len(column))
HasGap(previous, next) == next > previous + 1
\* the end of the column, between two ranks that leave one, or the whole column anew
Moved(request, column, at) ==
  LET n == request.task
      previous == IF at = 1 THEN 0 ELSE tasks[column[at - 1]].rank
      atEnd == at = Len(column) + 1
      fits == IF atEnd THEN previous + Step <= RankLimit ELSE HasGap(previous, tasks[column[at]].rank)
      rank == IF atEnd THEN previous + Step ELSE (previous + tasks[column[at]].rank) \div 2
      row(r) == [tasks[n] EXCEPT !.status = request.status, !.rank = r, !.completed = request.status = "done"]
      anew == Placed(column, at, n) IN
  IF fits THEN [changed |-> <<n>>, board |-> Edited(n, row(rank))]
  ELSE [changed |-> anew,
        board |-> [m \in Numbers |->
          IF \E i \in DOMAIN anew : anew[i] = m
          THEN LET i == CHOOSE j \in DOMAIN anew : anew[j] = m
                   new == IF m = n THEN row(i * Step) ELSE [tasks[m] EXCEPT !.rank = i * Step] IN
               [new EXCEPT !.version = tasks[m].version + 1]
          ELSE tasks[m]]]
CommitMove(s) ==
  LET request == requests[work[s].key]
      column == Ordered(request.status, request.task)
      places == IF request.before = 0 THEN {Len(column) + 1}
                ELSE {i \in DOMAIN column : column[i] = request.before} IN
  /\ Runs(s, "move") /\ work[s].current.version = request.expected
  /\ \E at \in places :
       LET move == Moved(request, column, at) IN
       Commits(s, request.task, move.board,
               [i \in DOMAIN move.changed |-> Event(move.changed[i], move.board)])
  /\ UNCHANGED lastNumber

\* a refusal, an error or a lost connection: nothing is kept, the number included
Rollback(s) ==
  /\ work[s].pc = "run" /\ Releases(s)
  /\ UNCHANGED <<tasks, lastNumber, published, records, answers>> /\ ClientKept

\* the other transactions of the channel, which take the same lock

\* removeChannelMember: the member's tasks are nobody's, and the board is told
removeChannelMember(m) ==
  LET theirs == {n \in Numbers : Exists(n) /\ tasks[n].assignee = m}
      T == [n \in Numbers |-> IF n \in theirs
              THEN [tasks[n] EXCEPT !.assignee = Nobody, !.version = @ + 1] ELSE tasks[n]]
      inSomeOrder == {q \in [1..Cardinality(theirs) -> theirs] : \A n \in theirs : \E i \in DOMAIN q : q[i] = n} IN
  /\ holder = NoHolder /\ m \in seated /\ seatings < MaxSeatings /\ seatings' = seatings + 1
  /\ seated' = seated \ {m} /\ tasks' = T
  /\ \E order \in inSomeOrder : published' = published \o [i \in DOMAIN order |-> Event(order[i], T)]
  /\ UNCHANGED <<archived, lastNumber, requests, records, answers, holder, work, walk, attempts>>
Reseats(m) ==
  /\ holder = NoHolder /\ m \notin seated /\ seatings < MaxSeatings /\ seatings' = seatings + 1
  /\ seated' = seated \cup {m}
  /\ UNCHANGED <<archived, tasks, lastNumber, published, requests, records, answers, holder, work, walk, attempts>>
archiveChannel ==
  /\ holder = NoHolder /\ ~archived /\ seatings < MaxSeatings /\ seatings' = seatings + 1 /\ archived' = TRUE
  /\ UNCHANGED <<seated, tasks, lastNumber, published, requests, records, answers, holder, work, walk, attempts>>

\* pages, the newest first, each of its own snapshot; the first one's position is where the
\* client will follow the events from
listConversationTasks ==
  LET from == IF walk.pc = "none" THEN lastNumber ELSE walk.next
      page == {n \in Numbers : Exists(n) /\ n <= from /\ n > from - PageSize} IN
  /\ walk.pc # "done"
  /\ walk' = [pc |-> IF from <= PageSize THEN "done" ELSE "walking",
              from |-> IF walk.pc = "none" THEN Len(published) ELSE walk.from,
              next |-> IF from <= PageSize THEN 0 ELSE from - PageSize,
              got |-> [n \in Numbers |-> IF n \in page THEN tasks[n].version ELSE walk.got[n]]]
  /\ UNCHANGED <<seated, archived, tasks, lastNumber, published, requests, records, answers, holder, work,
                 attempts, seatings>>

Next ==
  \/ listConversationTasks \/ archiveChannel \/ \E m \in Members : removeChannelMember(m) \/ Reseats(m)
  \/ \E s \in Sessions :
       \/ requireTaskTarget(s) \/ Replayed(s) \/ CommitCreate(s) \/ CommitUpdate(s) \/ CommitMove(s) \/ Rollback(s)
       \/ MayAsk(s) /\ \E k \in Keys :
            \/ Retry(s, k)
            \/ \E by \in Authors, m \in Assignees \cup {Nobody} :
                 createTask(s, k, by, m) \/ \E n \in Numbers : updateTask(s, k, by, n, m)
            \/ \E by \in Authors, n \in Numbers, status \in Statuses, before \in {0} \cup Numbers :
                 moveTask(s, k, by, n, status, before)

Spec == Init /\ [][Next]_taskVars

-----------------------------------------------------------------------------
(* Numbers have no gaps whatever was rolled back, a column's ranks are distinct and in        *)
(* range, and what is done is marked completed.                                            *)
BoardHolds ==
  /\ \A n \in Numbers : Exists(n) <=> n <= lastNumber
  /\ \A a, b \in Numbers : Exists(a) /\ tasks[a].status = tasks[b].status /\ a # b => tasks[a].rank # tasks[b].rank
  /\ \A n \in Numbers : Exists(n) => tasks[n].rank > 0 /\ (tasks[n].completed <=> tasks[n].status = "done")

(* Nobody keeps a task of a channel they were removed from, though an assignment may have     *)
(* been asked for before the removal and committed after it.                               *)
AssigneesAreMembers == \A n \in Numbers : tasks[n].assignee \in seated \cup {Nobody}

(* The events carry every version of every task, in order, so a client that applies only      *)
(* newer versions ends with the board.                                                     *)
EventsFollowVersions ==
  \A n \in Numbers :
    LET own == {i \in DOMAIN published : published[i].number = n} IN
    /\ Cardinality(own) = tasks[n].version
    /\ \A i \in own : published[i].version = Cardinality({j \in own : j <= i})

(* A key creates, edits or moves once, all its answers are one, and an edit is made on the    *)
(* version its author saw.                                                                *)
OncePerKey ==
  \A k \in Keys :
    /\ answers[k] \subseteq {records[k]}
    /\ records[k] # NoAnswer /\ requests[k].kind # "create" => records[k].version = requests[k].expected + 1
    /\ \A j \in Keys \ {k} : records[k] # NoAnswer => records[j] # records[k]

(* A client that loaded the board page by page while it changed, and then follows the events  *)
(* from its first page, misses no version: each task it did not get is new since then, and    *)
(* what it got is no older than that position.                                            *)
WalkMissesNothing ==
  walk.pc = "done" =>
    \A n \in Numbers : walk.got[n] >= Cardinality({i \in 1..walk.from : published[i].number = n})

(* A move puts its task before the one it names, or last, and leaves every other pair of     *)
(* tasks in its order, though it may renumber the column; nothing else reorders the board,     *)
(* and a new task is the last to do.                                                       *)
MovesLand ==
  LET kept(a, b) == /\ tasks'[a].status = tasks[a].status /\ tasks'[b].status = tasks[b].status
                    /\ (tasks[a].status = tasks[b].status => (Precedes(tasks, a, b) <=> Precedes(tasks', a, b)))
      moves == {k \in Keys : records[k] = NoAnswer /\ records'[k] # NoAnswer /\ requests[k].kind = "move"}
      moved == {requests[k].task : k \in moves}
      column(status) == {m \in Numbers : tasks'[m].status = status} IN
  /\ \A a, b \in {n \in Numbers : Exists(n)} \ moved : kept(a, b)
  /\ \A k \in moves :
       LET n == requests[k].task
           y == requests[k].before
           after == {m \in column(requests[k].status) \ {n} : Precedes(tasks', n, m)} IN
       /\ tasks'[n].status = requests[k].status
       /\ IF y = 0 THEN after = {}
          ELSE y \in after /\ \A m \in after : ~Precedes(tasks', m, y)
  /\ \A n \in Numbers : ~Exists(n) /\ tasks'[n].status # "none" =>
       tasks'[n].status = "todo" /\ \A m \in column("todo") \ {n} : Precedes(tasks', m, n)
=============================================================================
