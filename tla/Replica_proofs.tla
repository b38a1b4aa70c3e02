--------------------------- MODULE Replica_proofs ---------------------------
(***************************************************************************)
(* The encrypted cache implements the atomic one, for every log the server *)
(* may write.  The first part says what the recursive definitions of the   *)
(* server's state and of a replayed page are; the second carries the       *)
(* inductive invariant of the replica through every action; the third maps *)
(* each action to an operation of ReplicaStore or to a stutter.            *)
(***************************************************************************)
EXTENDS Replica, FiniteSetTheorems, WellFoundedInduction, TLAPS

-----------------------------------------------------------------------------
(* The server's state and the pages it answers.                            *)

LEMMA SameServer == Store!ServerAt = ServerAt
BY Zenon DEF Store!ServerAt, ServerAt, Store!Opening, Opening, Store!AfterEvent, AfterEvent,
  Store!EmptyRows, EmptyRows, Store!Message, Message, Store!NewestLiveOf, NewestLiveOf,
  Store!UnreadOf, UnreadOf, Max, Store!Max, Cardinality, Store!Cardinality

LEMMA SamePages ==
  ASSUME NEW page, NEW h, NEW n, NEW events, NEW m
  PROVE  /\ Store!Replay(page, h, events) = Replay(page, h, events)
         /\ Store!PageAt(h, n) = PageAt(h, n)
         /\ Store!SummaryAt(h, n) = SummaryAt(h, n)
         /\ Store!Tombstone(m) = Tombstone(m)
<1>1. Store!Replay(page, h, events) = Replay(page, h, events)
  BY Zenon DEF Store!Replay, Replay, Store!ReplayEvent, ReplayEvent, Store!AcceptsTask, AcceptsTask,
    Store!ServerAt, ServerAt, Store!Opening, Opening, Store!AfterEvent, AfterEvent,
    Store!EmptyRows, EmptyRows, Store!Message, Message, Store!NewestLiveOf, NewestLiveOf,
    Store!UnreadOf, UnreadOf, Max, Store!Max, Cardinality, Store!Cardinality
<1>2. Store!PageAt(h, n) = PageAt(h, n) /\ Store!SummaryAt(h, n) = SummaryAt(h, n)
  BY SameServer, Zenon DEF Store!PageAt, PageAt, Store!SummaryAt, SummaryAt
<1>3. Store!Tombstone(m) = Tombstone(m)
  BY Zenon DEF Store!Tombstone, Tombstone, Store!EmptyRows, EmptyRows, Store!Message, Message
<1> QED
  BY <1>1, <1>2, <1>3

(* What the runtime stores as history is a page of the abstract cache. *)
LEMMA PagesStored ==
  ASSUME NEW h \in Histories
  PROVE  /\ \A p \in 0..Len(h), events \in SUBSET (1..Len(h)) :
              Replay(PageAt(h, p), h, events) \in Store!PagesOf[h]
         /\ \A m \in Message : Tombstone(m) \in Store!PagesOf[h]
<1>1. ASSUME NEW p \in 0..Len(h), NEW events \in SUBSET (1..Len(h))
      PROVE  Replay(PageAt(h, p), h, events) \in Store!PagesOf[h]
  <2> DEFINE page == Store!Replay(Store!PageAt(h, p), h, events)
  <2>1. page \in Store!PagesOf[h]
    <3>1. page \in {Store!Replay(Store!PageAt(h, q), h, s) :
                       q \in 0..Len(h), s \in SUBSET (1..Len(h))}
      OBVIOUS
    <3>2. Store!PagesOf[h] =
            {Store!Replay(Store!PageAt(h, q), h, s) : q \in 0..Len(h), s \in SUBSET (1..Len(h))}
              \cup {Store!Tombstone(m) : m \in Store!Message}
      BY DEF Store!PagesOf
    <3> QED
      BY <3>1, <3>2
  <2>2. Store!PageAt(h, p) = PageAt(h, p)
    BY SamePages
  <2>3. Store!Replay(PageAt(h, p), h, events) = Replay(PageAt(h, p), h, events)
    BY SamePages
  <2> QED
    BY <2>1, <2>2, <2>3
<1>2. ASSUME NEW m \in Message PROVE Tombstone(m) \in Store!PagesOf[h]
  <2>1. Store!Tombstone(m) \in Store!PagesOf[h]
    <3>1. m \in Store!Message
      BY DEF Store!Message, Message
    <3> QED
      BY <3>1 DEF Store!PagesOf
  <2>2. Store!Tombstone(m) = Tombstone(m)
    BY SamePages
  <2> QED
    BY <2>1, <2>2
<1> QED
  BY <1>1, <1>2

(* Every set of positions that has one has a first one. *)
LEMMA Least ==
  ASSUME NEW S \in SUBSET Nat, S # {}
  PROVE  \E x \in S : \A y \in S : x <= y
<1>1. PICK x \in S : \A y \in S : ~(<<y, x>> \in OpToRel(<, Nat))
  BY NatLessThanWellFounded, WFMin
<1>2. \A y \in S : ~(y < x)
  BY <1>1 DEF OpToRel
<1> QED
  BY <1>2

(* The recursion over a log has a solution up to every position. *)
LEMMA ServerFunctions ==
  ASSUME NEW h, NEW k \in Nat
  PROVE  \E g : g = [n \in 0..k |-> IF n = 0 THEN Opening(h)
                                    ELSE AfterEvent(g[n - 1], h[n], n)]
<1> DEFINE Solved(j) ==
      \E g : g = [n \in 0..j |-> IF n = 0 THEN Opening(h)
                                 ELSE AfterEvent(g[n - 1], h[n], n)]
<1> SUFFICES ASSUME ~Solved(k) PROVE FALSE
  OBVIOUS
<1> DEFINE Bad == {j \in Nat : ~Solved(j)}
<1>1. PICK j \in Bad : \A i \in Bad : j <= i
  <2>1. Bad \in SUBSET Nat /\ Bad # {}
    OBVIOUS
  <2> HIDE DEF Bad
  <2> QED
    BY <2>1, Least
<1>2. CASE j = 0
  <2>1. [n \in {0} |-> Opening(h)]
          = [n \in 0..0 |-> IF n = 0 THEN Opening(h)
               ELSE AfterEvent([i \in {0} |-> Opening(h)][n - 1], h[n], n)]
    OBVIOUS
  <2> QED
    BY <1>2, <2>1
<1>3. CASE j # 0
  <2>1. j - 1 \in Nat /\ Solved(j - 1)
    <3>1. j \in Nat /\ j - 1 \in Nat /\ ~(j <= j - 1)
      BY <1>1, <1>3
    <3>2. j - 1 \notin Bad
      BY <1>1, <3>1
    <3> QED
      BY <3>1, <3>2
  <2>2. PICK g : g = [n \in 0..(j - 1) |-> IF n = 0 THEN Opening(h)
                                           ELSE AfterEvent(g[n - 1], h[n], n)]
    BY <2>1
  <2> DEFINE f == [n \in 0..j |-> IF n < j THEN g[n] ELSE AfterEvent(g[j - 1], h[j], j)]
  <2>3. ASSUME NEW n \in 0..j
        PROVE f[n] = IF n = 0 THEN Opening(h) ELSE AfterEvent(f[n - 1], h[n], n)
    <3>1. CASE n = 0
      <4>1. f[n] = g[n] /\ n \in 0..(j - 1)
        BY <3>1, <1>3
      <4> QED
        BY <4>1, <2>2, <3>1
    <3>2. CASE n # 0 /\ n < j
      <4>1. f[n] = g[n] /\ n \in 0..(j - 1) /\ f[n - 1] = g[n - 1]
        BY <3>2
      <4> QED
        BY <4>1, <2>2, <3>2
    <3>3. CASE n = j
      <4>1. f[n] = AfterEvent(g[j - 1], h[j], j) /\ f[n - 1] = g[j - 1]
        BY <3>3, <1>3
      <4> QED
        BY <4>1, <3>3, <1>3
    <3> QED
      BY <3>1, <3>2, <3>3
  <2>4. f = [n \in 0..j |-> IF n = 0 THEN Opening(h) ELSE AfterEvent(f[n - 1], h[n], n)]
    BY <2>3
  <2> HIDE DEF f
  <2> QED
    BY <2>4, <1>1
<1> QED
  BY <1>2, <1>3

LEMMA ServerSteps ==
  ASSUME NEW h \in Histories
  PROVE  /\ ServerAt[h][0] = Opening(h)
         /\ \A n \in 1..Len(h) : ServerAt[h][n] = AfterEvent(ServerAt[h][n - 1], h[n], n)
<1>1. Len(h) \in Nat
  BY ReplicaAssumption DEF HistoriesAssumption
<1>2. PICK g : g = [n \in 0..Len(h) |-> IF n = 0 THEN Opening(h)
                                       ELSE AfterEvent(g[n - 1], h[n], n)]
  BY <1>1, ServerFunctions
<1>3. ServerAt[h] = [n \in 0..Len(h) |-> IF n = 0 THEN Opening(h)
                                        ELSE AfterEvent(ServerAt[h][n - 1], h[n], n)]
  BY <1>2 DEF ServerAt
<1> QED
  BY <1>1, <1>3

-----------------------------------------------------------------------------
(* Types of what the server holds.                                         *)

Rows == [Message -> {"none", "live", "dead"}]
Reaction == [id : Nat, message : Message]
ServerState(n) ==
  [member : BOOLEAN, rows : Rows, reacts : SUBSET Reaction, task : 0..n, people : BOOLEAN,
   last : 0..2, dead : BOOLEAN, unread : Nat, read : 0..2, others : SUBSET (0..2)]
Pages(n) == [rows : Rows, reacts : SUBSET Reaction, task : 0..n]

LEMMA Largest ==
  ASSUME NEW S \in SUBSET (0..2), S # {}
  PROVE  Max(S) \in S
<1>1. \E x \in S : \A y \in S : x >= y
  <2>1. CASE 2 \in S
    BY <2>1
  <2>2. CASE 2 \notin S /\ 1 \in S
    BY <2>2
  <2>3. CASE 2 \notin S /\ 1 \notin S
    <3>1. \A y \in S : y = 0
      BY <2>3
    <3>2. 0 \in S
      BY <3>1
    <3> QED
      BY <3>1, <3>2
  <2> QED
    BY <2>1, <2>2, <2>3
<1> QED
  BY <1>1 DEF Max

LEMMA Counters ==
  ASSUME NEW rows, NEW s, s.others \in SUBSET (0..2)
  PROVE  NewestLiveOf(rows) \in 0..2 /\ UnreadOf(s, rows) \in Nat
<1>1. NewestLiveOf(rows) \in 0..2
  <2> DEFINE S == {0} \cup {m \in Message : rows[m] = "live"}
  <2>1. S \in SUBSET (0..2) /\ S # {}
    BY DEF Message
  <2>2. Max(S) \in S
    <3> HIDE DEF S
    <3> QED BY <2>1, Largest
  <2> QED
    BY <2>1, <2>2 DEF NewestLiveOf
<1>2. UnreadOf(s, rows) \in Nat
  <2> DEFINE S == {m \in s.others : rows[m] = "live" /\ m > s.read}
  <2>1. S \in SUBSET (0..2)
    OBVIOUS
  <2>2. IsFiniteSet(0..2)
    <3>1. 0 \in Int /\ 2 \in Int
      OBVIOUS
    <3> QED
      BY <3>1, FS_Interval
  <2>3. IsFiniteSet(S)
    <3> HIDE DEF S
    <3> QED BY <2>1, <2>2, FS_Subset
  <2>4. Cardinality(S) \in Nat
    <3> HIDE DEF S
    <3> QED BY <2>3, FS_CardinalityType
  <2> QED
    BY <2>4 DEF UnreadOf
<1> QED
  BY <1>1, <1>2

LEMMA Logged ==
  ASSUME NEW h \in Histories, NEW n \in 1..Len(h)
  PROVE  /\ Len(h) \in Nat /\ h[n] \in Event
         /\ h[n].kind \in OfMessage => h[n].message \in Message
         /\ h[n].kind = "unreacted" => h[n].by \in 1..(n - 1)
BY ReplicaAssumption DEF HistoriesAssumption

LEMMA AfterEventTyped ==
  ASSUME NEW h \in Histories, NEW n \in 1..Len(h), NEW s \in ServerState(n - 1)
  PROVE  AfterEvent(s, h[n], n) \in ServerState(n)
<1> DEFINE e == h[n]
           rows == CASE e.kind = "created"   -> [s.rows EXCEPT ![e.message] = "live"]
                     [] e.kind = "retracted" -> [s.rows EXCEPT ![e.message] = "dead"]
                     [] OTHER -> s.rows
           reacts == CASE e.kind = "reacted"   -> s.reacts \cup {[id |-> n, message |-> e.message]}
                       [] e.kind = "unreacted" -> {r \in s.reacts : r.id # e.by}
                       [] e.kind = "retracted" -> {r \in s.reacts : r.message # e.message}
                       [] OTHER -> s.reacts
           others == IF e.kind = "created" /\ ~e.mine THEN s.others \cup {e.message} ELSE s.others
           moved == [s EXCEPT
             !.rows = rows,
             !.member = (@ \/ e.kind \in {"opened", "returned"}) /\ e.kind # "left",
             !.people = @ \/ e.kind = "member",
             !.task = IF e.kind = "task" THEN @ + 1 ELSE @,
             !.read = IF e.kind = "read" THEN e.message ELSE @,
             !.others = others,
             !.reacts = reacts]
<1>0. e \in Event /\ n \in Nat /\ (e.kind \in OfMessage => e.message \in Message)
  BY Logged
<1>1. rows \in Rows
  BY <1>0 DEF ServerState, Rows, OfMessage
<1>2. reacts \in SUBSET Reaction
  BY <1>0 DEF ServerState, Reaction, OfMessage
<1>3. others \in SUBSET (0..2)
  BY <1>0 DEF ServerState, Event
<1> HIDE DEF rows, reacts, others
<1>4. moved \in ServerState(n)
  <2>1. ((s.member \/ e.kind \in {"opened", "returned"}) /\ e.kind # "left") \in BOOLEAN
        /\ (s.people \/ e.kind = "member") \in BOOLEAN
    OBVIOUS
  <2>2. (IF e.kind = "task" THEN s.task + 1 ELSE s.task) \in 0..n
    BY <1>0 DEF ServerState
  <2>3. (IF e.kind = "read" THEN e.message ELSE s.read) \in 0..2
    BY <1>0 DEF ServerState, Event
  <2> QED
    BY <1>1, <1>2, <1>3, <2>1, <2>2, <2>3, ZenonT(40) DEF ServerState
<1>5. NewestLiveOf(rows) \in 0..2 /\ UnreadOf(moved, rows) \in Nat
  <2>1. moved.others \in SUBSET (0..2)
    BY <1>4 DEF ServerState
  <2> HIDE DEF moved
  <2> QED BY <2>1, Counters
<1>6. AfterEvent(s, h[n], n) = [moved EXCEPT !.last = NewestLiveOf(rows), !.unread = UnreadOf(moved, rows)]
  BY Zenon DEF AfterEvent, moved, rows, reacts, others
<1> HIDE DEF moved
<1> QED
  BY <1>4, <1>5, <1>6 DEF ServerState

LEMMA ServerTyped ==
  ASSUME NEW h \in Histories, NEW n \in 0..Len(h)
  PROVE  ServerAt[h][n] \in ServerState(n)
<1>0. Len(h) \in Nat
  BY ReplicaAssumption DEF HistoriesAssumption
<1> SUFFICES ASSUME ServerAt[h][n] \notin ServerState(n) PROVE FALSE
  OBVIOUS
<1> DEFINE Bad == {j \in 0..Len(h) : ServerAt[h][j] \notin ServerState(j)}
<1>1. PICK j \in Bad : \A i \in Bad : j <= i
  <2>1. Bad \in SUBSET Nat /\ Bad # {}
    BY <1>0
  <2> HIDE DEF Bad
  <2> QED
    BY <2>1, Least
<1>2. CASE j = 0
  <2>1. Opening(h) \in ServerState(0)
    BY DEF Opening, ServerState, EmptyRows, Rows
  <2> QED
    BY <1>1, <1>2, <2>1, ServerSteps
<1>3. CASE j # 0
  <2>1. j \in 1..Len(h) /\ j - 1 \in 0..Len(h) /\ ~(j <= j - 1)
    BY <1>0, <1>1, <1>3
  <2>2. ServerAt[h][j - 1] \in ServerState(j - 1)
    <3>1. j - 1 \notin Bad
      BY <1>1, <2>1
    <3> QED
      BY <2>1, <3>1
  <2>3. ServerAt[h][j] = AfterEvent(ServerAt[h][j - 1], h[j], j)
    BY <2>1, ServerSteps
  <2> QED
    BY <1>1, <2>1, <2>2, <2>3, AfterEventTyped
<1> QED
  BY <1>2, <1>3

(* A membership begins with the event that opens it and ends with the one *)
(* that takes it.                                                         *)
LEMMA Membership ==
  ASSUME NEW h \in Histories, NEW n \in 1..Len(h)
  PROVE  ServerAt[h][n].member =
           ((ServerAt[h][n - 1].member \/ h[n].kind \in {"opened", "returned"})
             /\ h[n].kind # "left")
<1>1. n - 1 \in 0..Len(h)
  BY Logged
<1>2. ServerAt[h][n - 1] \in ServerState(n - 1)
  BY <1>1, ServerTyped
<1>3. ServerAt[h][n] = AfterEvent(ServerAt[h][n - 1], h[n], n)
  BY ServerSteps
<1> QED
  BY <1>2, <1>3 DEF AfterEvent, ServerState

LEMMA SummaryTyped ==
  ASSUME NEW h \in Histories, NEW n \in 0..Len(h)
  PROVE  /\ SummaryAt(h, n) \in Summary \cup {None}
         /\ (SummaryAt(h, n) = None) = ~ServerAt[h][n].member
<1>1. ServerAt[h][n] \in ServerState(n)
  BY ServerTyped
<1> DEFINE s == ServerAt[h][n]
           row == [last |-> s.last, dead |-> FALSE, unread |-> s.unread, read |-> s.read,
                   people |-> s.people]
<1>2. row \in Summary /\ None \notin Summary
  BY <1>1, ReplicaAssumption DEF ServerState, Summary, NoneAssumption
<1>3. SummaryAt(h, n) = IF s.member THEN row ELSE None
  BY DEF SummaryAt
<1>4. s.member \in BOOLEAN
  BY <1>1 DEF ServerState
<1> HIDE DEF row, s
<1>5. CASE s.member
  BY <1>2, <1>3, <1>5 DEF s
<1>6. CASE ~s.member
  BY <1>2, <1>3, <1>6 DEF s
<1> QED
  BY <1>5, <1>6

LEMMA PageTyped ==
  ASSUME NEW h \in Histories, NEW n \in 0..Len(h)
  PROVE  PageAt(h, n) \in Pages(Len(h))
<1>1. ServerAt[h][n] \in ServerState(n) /\ Len(h) \in Nat
  BY ServerTyped, ReplicaAssumption DEF HistoriesAssumption
<1> QED
  BY <1>1 DEF PageAt, Pages, ServerState

(* A replayed page keeps the types of its page. *)
Replayed(page, h, events, g, k) ==
  g = [i \in 0..k |-> IF i = 0 THEN page
                      ELSE IF i \in events THEN ReplayEvent(g[i - 1], h, i) ELSE g[i - 1]]

LEMMA ReplayFunctions ==
  ASSUME NEW page, NEW h, NEW events, NEW k \in Nat
  PROVE  \E g : Replayed(page, h, events, g, k)
<1> DEFINE Solved(j) == \E g : Replayed(page, h, events, g, j)
           Bad == {j \in Nat : ~Solved(j)}
<1> SUFFICES ASSUME ~Solved(k) PROVE FALSE
  OBVIOUS
<1>1. PICK j \in Bad : \A i \in Bad : j <= i
  <2>1. Bad \in SUBSET Nat /\ Bad # {}
    OBVIOUS
  <2> HIDE DEF Bad
  <2> QED
    BY <2>1, Least
<1>2. CASE j = 0
  <2>1. Replayed(page, h, events, [i \in {0} |-> page], 0)
    BY DEF Replayed
  <2> QED
    BY <1>1, <1>2, <2>1
<1>3. CASE j # 0
  <2>1. j - 1 \in Nat /\ Solved(j - 1)
    <3>1. j \in Nat /\ j - 1 \in Nat /\ ~(j <= j - 1)
      BY <1>1, <1>3
    <3>2. j - 1 \notin Bad
      BY <1>1, <3>1
    <3> QED
      BY <3>1, <3>2
  <2>2. PICK g : Replayed(page, h, events, g, j - 1)
    BY <2>1
  <2> DEFINE last == IF j \in events THEN ReplayEvent(g[j - 1], h, j) ELSE g[j - 1]
             f == [i \in 0..j |-> IF i < j THEN g[i] ELSE last]
  <2>3. ASSUME NEW i \in 0..j
        PROVE f[i] = IF i = 0 THEN page
                     ELSE IF i \in events THEN ReplayEvent(f[i - 1], h, i) ELSE f[i - 1]
    <3>1. CASE i = 0
      <4>1. f[i] = g[i] /\ i \in 0..(j - 1)
        BY <3>1, <1>3
      <4> QED
        BY <4>1, <2>2, <3>1 DEF Replayed
    <3>2. CASE i # 0 /\ i < j
      <4>1. f[i] = g[i] /\ i \in 0..(j - 1) /\ f[i - 1] = g[i - 1]
        BY <3>2
      <4> QED
        BY <4>1, <2>2, <3>2 DEF Replayed
    <3>3. CASE i = j
      <4>1. f[i] = last /\ f[i - 1] = g[j - 1]
        BY <3>3, <1>3
      <4> QED
        BY <4>1, <3>3, <1>3
    <3> QED
      BY <3>1, <3>2, <3>3
  <2>4. Replayed(page, h, events, f, j)
    BY <2>3 DEF Replayed
  <2> HIDE DEF f
  <2> QED
    BY <2>4, <1>1
<1> QED
  BY <1>2, <1>3

LEMMA ReplayEventTyped ==
  ASSUME NEW h \in Histories, NEW k \in 1..Len(h), NEW q \in Pages(Len(h))
  PROVE  ReplayEvent(q, h, k) \in Pages(Len(h))
<1>0. h[k] \in Event /\ k \in Nat /\ (h[k].kind \in OfMessage => h[k].message \in Message)
      /\ Len(h) \in Nat
  BY Logged
<1>1. ServerAt[h][k].task \in 0..Len(h)
  <2>1. ServerAt[h][k] \in ServerState(k)
    BY <1>0, ServerTyped
  <2> QED
    BY <2>1, <1>0 DEF ServerState
<1>2. CASE h[k].kind = "reacted"
  BY <1>0, <1>2 DEF ReplayEvent, Pages, Reaction, OfMessage
<1>3. CASE h[k].kind = "unreacted"
  BY <1>3, SMTT(30) DEF ReplayEvent, Pages
<1>4. CASE h[k].kind = "retracted"
  BY <1>0, <1>4 DEF ReplayEvent, Pages, Rows, OfMessage
<1>5. CASE h[k].kind = "task"
  BY <1>1, <1>5 DEF ReplayEvent, Pages
<1>6. CASE h[k].kind \notin {"reacted", "unreacted", "retracted", "task"}
  BY <1>6 DEF ReplayEvent
<1> QED
  BY <1>2, <1>3, <1>4, <1>5, <1>6

LEMMA ReplayTyped ==
  ASSUME NEW h \in Histories, NEW page \in Pages(Len(h)), NEW events
  PROVE  Replay(page, h, events) \in Pages(Len(h))
<1>0. Len(h) \in Nat
  BY ReplicaAssumption DEF HistoriesAssumption
<1> DEFINE step == CHOOSE g : Replayed(page, h, events, g, Len(h))
<1>1. Replayed(page, h, events, step, Len(h))
  BY <1>0, ReplayFunctions
<1>2. Replay(page, h, events) = step[Len(h)]
  BY Zenon DEF Replay, Replayed
<1> HIDE DEF step
<1> SUFFICES ASSUME step[Len(h)] \notin Pages(Len(h)) PROVE FALSE
  BY <1>2
<1> DEFINE Bad == {j \in 0..Len(h) : step[j] \notin Pages(Len(h))}
<1>3. PICK j \in Bad : \A i \in Bad : j <= i
  <2>1. Bad \in SUBSET Nat /\ Bad # {}
    BY <1>0
  <2> HIDE DEF Bad
  <2> QED
    BY <2>1, Least
<1>4. CASE j = 0
  BY <1>1, <1>3, <1>4 DEF Replayed
<1>5. CASE j # 0
  <2>1. j \in 1..Len(h) /\ j - 1 \in 0..Len(h) /\ ~(j <= j - 1)
    BY <1>0, <1>3, <1>5
  <2>2. step[j - 1] \in Pages(Len(h))
    <3>1. j - 1 \notin Bad
      BY <1>3, <2>1
    <3> QED
      BY <2>1, <3>1
  <2>3. step[j] = IF j \in events THEN ReplayEvent(step[j - 1], h, j) ELSE step[j - 1]
    BY <1>1, <2>1 DEF Replayed
  <2> QED
    BY <1>3, <2>1, <2>2, <2>3, ReplayEventTyped
<1> QED
  BY <1>4, <1>5

-----------------------------------------------------------------------------
(* The inductive invariant.                                                *)

Dbs ==
  [cursor : Nat \cup {NoCursor}, marker : Nat, conv : Summary \cup {None}, rows : Rows,
   anchor : [Message -> Nat], reacts : SUBSET Reaction, task : Nat,
   reserved : SUBSET Message, known : SUBSET Nat, queued : {"none", "pending", "failed"},
   coll : [Collection -> [loaded : BOOLEAN, at : Nat, stale : Nat]]]
Tries ==
  [n : Nat, conv : Summary \cup {None}, rows : Rows, reserved : SUBSET Message,
   written : BOOLEAN]
LaneRecords == [on : BOOLEAN, next : Nat \ {0}, target : Nat, try : Tries \cup {None}]
Bases(h) ==
  [page : Pages(Len(h)), expected : Nat \cup {NoCursor}, rows : Rows,
   reserved : SUBSET Message]
Loads(h) ==
  [of : Collection, start : Nat \cup {NoCursor}, at : Nat \cup {NoCursor},
   journal : SUBSET (1..Len(h)), base : Bases(h) \cup {None}]
Sends == [reserved : SUBSET Message, applied : Nat]
Kinds == {"opened", "created", "retracted", "reacted", "unreacted", "task", "read", "left",
          "returned", "member", "direct"}
Answers == [kind : Kinds, k : Nat, from : Nat \cup {NoCursor}, base : Sends \cup {None}]
Catalogs == [mode : {"bootstrap", "refresh"}, at : Nat]

(* A tombstone is reserved, wherever rows are held. *)
DeadReserved(rows, reserved) == \A m \in Message : rows[m] = "dead" => m \in reserved

(* No event the member sees lies above c and below n. *)
Passed(h, c, n) == \A q \in (c + 1)..(n - 1) : ~Delivered(h, q)

(* What the stores hold: nothing of the future, every tombstone reserved, and *)
(* a member's conversation once a cursor says where the replica is.          *)
StoreOK(h, hd, d) ==
  /\ d \in Dbs
  /\ d.cursor <= hd /\ d.marker <= hd
  /\ \A k \in d.known : k <= d.cursor
  /\ DeadReserved(d.rows, d.reserved)
  /\ d.marker = 0 /\ d.cursor # NoCursor /\ ServerAt[h][d.cursor].member => d.conv # None

(* An applier works only outside a membership repair and skips nothing. *)
TryOK(h, hd, d, try) ==
  /\ try.n \in 1..hd /\ Passed(h, d.cursor, try.n) /\ Delivered(h, try.n)
  /\ ~SelfMembership(h[try.n])
  /\ DeadReserved(try.rows, try.reserved)
  /\ try.written => try.n <= d.cursor
LaneOK(h, hd, d, r) ==
  /\ r.on => d.marker = 0 /\ d.cursor # NoCursor /\ r.target <= hd /\ Passed(h, d.cursor, r.next)
  /\ r.try # None => r.on /\ TryOK(h, hd, d, r.try)

LoadOK(h, hd, r) ==
  /\ r \in Loads(h) /\ r.at <= hd
  /\ r.base # None =>
       /\ r.at # NoCursor /\ r.base.page \in Store!PagesOf[h]
       /\ DeadReserved(r.base.rows, r.base.reserved)
AnswerOK(h, hd, r) ==
  /\ r \in Answers /\ r.k \in 1..hd /\ r.from <= hd
  /\ \/ r.kind = h[r.k].kind /\ r.from # NoCursor
     \/ r.kind = "direct" /\ SummaryAt(h, r.k) # None
  /\ r.base # None => r.base.applied <= hd
CatalogOK(hd, r) == r \in Catalogs /\ r.at <= hd

IInv ==
  /\ history \in Histories /\ head \in 0..Len(history)
  /\ applied \in Nat \cup {NoCursor} /\ applied <= head
  /\ StoreOK(history, head, db)
  /\ lanes \in [Lane -> LaneRecords]
  /\ \A l \in Lane : LaneOK(history, head, db, lanes[l])
  /\ load # None => LoadOK(history, head, load)
  /\ answer # None => AnswerOK(history, head, answer)
  /\ catalog # None => CatalogOK(head, catalog)


LEMMA LogLength == \A h \in Histories : Len(h) \in Nat
BY ReplicaAssumption DEF HistoriesAssumption

LEMMA LargerOfTwo ==
  ASSUME NEW a \in Int, NEW b \in Int
  PROVE  Max({a, b}) = IF b > a THEN b ELSE a
<1>1. CASE b > a
  <2>1. \E x \in {a, b} : \A y \in {a, b} : x >= y
    BY <1>1
  <2>2. Max({a, b}) \in {a, b} /\ \A y \in {a, b} : Max({a, b}) >= y
    BY <2>1 DEF Max
  <2> QED
    BY <1>1, <2>2
<1>2. CASE ~(b > a)
  <2>1. \E x \in {a, b} : \A y \in {a, b} : x >= y
    BY <1>2
  <2>2. Max({a, b}) \in {a, b} /\ \A y \in {a, b} : Max({a, b}) >= y
    BY <2>1 DEF Max
  <2> QED
    BY <1>2, <2>2
<1> QED
  BY <1>1, <1>2

(* The event an applier is about to take is the first that it has not passed. *)
LEMMA FirstUpcoming ==
  ASSUME IInv, NEW l \in Lane, Turn(l)
  PROVE  /\ NextEvent(l) \in 1..head /\ lanes[l].on /\ lanes[l].try = None
         /\ NextEvent(l) \in Nat \ {0} /\ Delivered(history, NextEvent(l))
         /\ Passed(history, db.cursor, NextEvent(l))
         /\ db.marker = 0 /\ db.cursor # NoCursor
<1> DEFINE S == Upcoming(l)
<1>1. lanes[l] \in LaneRecords /\ LaneOK(history, head, db, lanes[l]) /\ head \in Nat
      /\ lanes[l].on /\ lanes[l].try = None /\ S # {}
  BY LogLength DEF IInv, Turn
<1>2. db.cursor \in Nat /\ db.cursor \in Int /\ Passed(history, db.cursor, lanes[l].next)
      /\ db.marker = 0 /\ db.cursor # NoCursor /\ lanes[l].target <= head
  BY <1>1 DEF IInv, LaneOK, StoreOK, Dbs, NoCursor
<1>3. \A n \in S : n \in Nat /\ lanes[l].next <= n /\ n <= head /\ Delivered(history, n)
  BY <1>1, <1>2 DEF Upcoming, LaneRecords
<1>4. \E x \in S : \A y \in S : x <= y
  <2>1. S \in SUBSET Nat
    BY <1>3
  <2> HIDE DEF S
  <2> QED
    BY <2>1, <1>1, Least
<1>5. NextEvent(l) \in S /\ \A y \in S : NextEvent(l) <= y
  <2>1. NextEvent(l) = CHOOSE x \in S : \A y \in S : x <= y
    BY DEF NextEvent, Min
  <2> HIDE DEF S
  <2> QED
    BY <1>4, <2>1
<1> DEFINE n == NextEvent(l)
<1>6. n \in Nat /\ lanes[l].next <= n /\ n <= head /\ Delivered(history, n)
  BY <1>3, <1>5
<1>7. \A q \in lanes[l].next..(n - 1) : ~Delivered(history, q)
  <2> TAKE q \in lanes[l].next..(n - 1)
  <2>1. q \in Nat /\ q < n /\ lanes[l].next <= q /\ q <= head
    BY <1>1, <1>6 DEF LaneRecords
  <2>2. q \notin S
    <3>1. ~(n <= q)
      BY <1>6, <2>1
    <3> HIDE DEF S
    <3> QED
      BY <1>5, <3>1
  <2>3. l # "sync" => q \in lanes[l].next..head
    BY <2>1, <1>1 DEF LaneRecords
  <2>4. l = "sync" => q \in lanes[l].next..lanes[l].target
    BY <2>1, <1>1, <1>5, <1>6 DEF LaneRecords, Upcoming
  <2> QED
    BY <2>2, <2>3, <2>4 DEF Upcoming
<1>8. Passed(history, db.cursor, n)
  BY <1>1, <1>2, <1>6, <1>7 DEF Passed, LaneRecords
<1>9. n # 0
  BY <1>1, <1>6 DEF LaneRecords
<1> QED
  BY <1>1, <1>2, <1>6, <1>8, <1>9

(* Appliers survive every commit that moves the cursor on. *)
LEMMA LaneKept ==
  ASSUME NEW h, NEW hd \in Nat, NEW d \in Dbs, NEW e \in Dbs, NEW r \in LaneRecords,
         LaneOK(h, hd, d, r), d.cursor <= e.cursor, d.cursor # NoCursor => e.cursor # NoCursor,
         r.on => e.marker = 0
  PROVE  LaneOK(h, hd, e, r)
<1>1. d.cursor \in Int /\ e.cursor \in Int
  BY DEF Dbs, NoCursor
<1>2. ASSUME NEW n \in Int, Passed(h, d.cursor, n) PROVE Passed(h, e.cursor, n)
  BY <1>1, <1>2 DEF Passed
<1>3. ASSUME r.try # None PROVE TryOK(h, hd, e, r.try)
  <2>1. TryOK(h, hd, d, r.try) /\ r.try \in Tries /\ r.try.n \in Nat
    BY <1>3 DEF LaneOK, LaneRecords, Tries
  <2>2. Passed(h, e.cursor, r.try.n)
    BY <1>2, <2>1 DEF TryOK
  <2> QED
    BY <1>1, <2>1, <2>2 DEF TryOK
<1>4. ASSUME r.on PROVE Passed(h, e.cursor, r.next)
  BY <1>2, <1>4 DEF LaneOK, LaneRecords
<1> QED
  BY <1>3, <1>4 DEF LaneOK

LEMMA LanesIdle ==
  /\ AllIdle \in [Lane -> LaneRecords]
  /\ \A l \in Lane : AllIdle[l] = Idle
  /\ \A h, hd, d : LaneOK(h, hd, d, Idle)
BY DEF AllIdle, Idle, Lane, LaneRecords, LaneOK

(* During a membership repair no applier is on. *)
LEMMA RepairIsAlone ==
  ASSUME IInv, db.marker # 0
  PROVE  \A l \in Lane : ~lanes[l].on /\ lanes[l].try = None
BY DEF IInv, LaneOK

LEMMA EmptyDbTyped ==
  ASSUME NEW reserved \in SUBSET Message, NEW queued \in {"none", "pending", "failed"}
  PROVE  [EmptyDb EXCEPT !.reserved = reserved, !.queued = queued] \in Dbs
BY DEF EmptyDb, Dbs, NoCursor, EmptyRows, Rows, Unloaded, Collection

LEMMA InitialReplica == Init => IInv
<1> SUFFICES ASSUME Init PROVE IInv
  OBVIOUS
<1>1. history \in Histories /\ head = 0 /\ db = Bootstrapped(history) /\ applied = 0
      /\ lanes = [AllIdle EXCEPT !["live"].on = TRUE] /\ load = None /\ catalog = None
      /\ answer = None /\ Len(history) \in Nat
  BY LogLength DEF Init
<1>2. SummaryAt(history, 0) \in Summary \cup {None}
      /\ (SummaryAt(history, 0) = None) = ~ServerAt[history][0].member
  BY <1>1, SummaryTyped
<1>3. db \in Dbs /\ db.cursor = 0 /\ db.marker = 0 /\ db.conv = SummaryAt(history, 0)
      /\ db.known = {} /\ db.rows = EmptyRows
  <2>1. EmptyDb \in Dbs /\ EmptyDb.marker = 0 /\ EmptyDb.known = {} /\ EmptyDb.rows = EmptyRows
    BY DEF EmptyDb, Dbs, NoCursor, EmptyRows, Rows, Unloaded, Collection
  <2> HIDE DEF EmptyDb
  <2> QED
    BY <1>1, <1>2, <2>1 DEF Bootstrapped, Dbs
<1>4. StoreOK(history, head, db)
  <2>1. ServerAt[history][0].member => SummaryAt(history, 0) # None
    BY <1>2
  <2> QED
    BY <1>1, <1>3, <2>1 DEF StoreOK, DeadReserved, EmptyRows
<1>5. lanes \in [Lane -> LaneRecords] /\ lanes["live"] = [Idle EXCEPT !.on = TRUE]
      /\ lanes["sync"] = Idle
  BY <1>1, LanesIdle DEF Lane, Idle, LaneRecords, AllIdle
<1>6. \A l \in Lane : LaneOK(history, head, db, lanes[l])
  <2>1. LaneOK(history, head, db, [Idle EXCEPT !.on = TRUE])
    BY <1>1, <1>3 DEF LaneOK, Idle, NoCursor, Passed
  <2> QED
    BY <1>5, <2>1, LanesIdle DEF Lane
<1>7. head \in 0..Len(history) /\ applied \in Nat \cup {NoCursor} /\ applied <= head
  BY <1>1
<1> QED
  BY <1>1, <1>4, <1>5, <1>6, <1>7 DEF IInv

(* What the server commits leaves everything that was known in place. *)
LEMMA PublishKeeps == IInv /\ Publish => IInv'
<1> SUFFICES ASSUME IInv, Publish PROVE IInv'
  OBVIOUS
<1>1. head \in Nat /\ head' \in 0..Len(history) /\ head' = head + 1
      /\ Len(history) \in Nat /\ history \in Histories
      /\ UNCHANGED <<history, db, applied, running, lanes, load, catalog, answer>>
  BY LogLength DEF IInv, Publish
<1>2. StoreOK(history, head + 1, db)
  BY <1>1 DEF IInv, StoreOK, Dbs, NoCursor
<1>3. ASSUME NEW l \in Lane PROVE LaneOK(history, head + 1, db, lanes[l])
  <2>1. LaneOK(history, head, db, lanes[l]) /\ lanes[l] \in LaneRecords
    BY DEF IInv
  <2> QED
    BY <1>1, <2>1 DEF LaneOK, LaneRecords, TryOK, Tries
<1>4. load # None => LoadOK(history, head + 1, load)
  BY <1>1 DEF IInv, LoadOK, Loads, NoCursor
<1>5. answer # None => AnswerOK(history, head + 1, answer)
  BY <1>1 DEF IInv, AnswerOK, Answers, Sends, NoCursor
<1>6. catalog # None => CatalogOK(head + 1, catalog)
  BY <1>1 DEF IInv, CatalogOK, Catalogs
<1> QED
  BY <1>1, <1>2, <1>3, <1>4, <1>5, <1>6 DEF IInv, NoCursor

-----------------------------------------------------------------------------
(* Steps that leave the stores alone.                                      *)

LEMMA ReadForEventKeeps == \A l \in Lane : IInv /\ ReadForEvent(l) => IInv'
<1> SUFFICES ASSUME NEW l \in Lane, IInv, ReadForEvent(l) PROVE IInv'
  OBVIOUS
<1> DEFINE n == NextEvent(l)
           t == [n |-> n, conv |-> db.conv, rows |-> db.rows, reserved |-> db.reserved,
                 written |-> FALSE]
<1>1. /\ Turn(l) /\ ~SelfMembership(history[n]) /\ db.marker = 0
      /\ lanes' = [lanes EXCEPT ![l].try = t]
      /\ UNCHANGED <<history, head, db, applied, load, catalog, answer>>
  BY DEF ReadForEvent
<1>2. n \in 1..head /\ n \in Nat /\ lanes[l].on /\ Delivered(history, n)
      /\ Passed(history, db.cursor, n)
  BY <1>1, FirstUpcoming
<1>3. db \in Dbs /\ DeadReserved(db.rows, db.reserved)
  BY DEF IInv, StoreOK
<1> HIDE DEF n
<1>4. t \in Tries
  BY <1>2, <1>3 DEF Tries, Dbs
<1>5. TryOK(history, head, db, t)
  BY <1>1, <1>2, <1>3 DEF TryOK
<1>6. lanes[l] \in LaneRecords /\ LaneOK(history, head, db, lanes[l])
  BY DEF IInv
<1> HIDE DEF t
<1>7. lanes'[l] = [lanes[l] EXCEPT !.try = t] /\ lanes'[l] \in LaneRecords
  BY <1>1, <1>4, <1>6 DEF IInv, LaneRecords
<1>8. LaneOK(history, head, db, lanes'[l])
  BY <1>2, <1>5, <1>6, <1>7 DEF LaneOK, LaneRecords
<1>9. lanes' \in [Lane -> LaneRecords] /\ \A k \in Lane \ {l} : lanes'[k] = lanes[k]
  BY <1>1, <1>7 DEF IInv
<1> QED
  BY <1>1, <1>8, <1>9 DEF IInv

LEMMA IgnoreEventKeeps == \A l \in Lane : IInv /\ IgnoreEvent(l) => IInv'
<1> SUFFICES ASSUME NEW l \in Lane, IInv, IgnoreEvent(l) PROVE IInv'
  OBVIOUS
<1> DEFINE n == NextEvent(l)
<1>1. /\ Turn(l) /\ ~Applicable(n) /\ lanes' = [lanes EXCEPT ![l].next = n + 1]
      /\ load' \in {None, load} /\ catalog' \in {None, catalog} /\ answer' \in {None, answer}
      /\ UNCHANGED <<history, head, db, applied>>
  BY DEF IgnoreEvent
<1>2. n \in 1..head /\ n \in Nat \ {0} /\ lanes[l].on /\ lanes[l].try = None
      /\ Passed(history, db.cursor, n)
  BY <1>1, FirstUpcoming
<1> HIDE DEF n
<1>3. db \in Dbs /\ db.cursor \in Int /\ n <= db.cursor
  BY <1>1, <1>2 DEF IInv, StoreOK, Dbs, NoCursor, Applicable
<1>4. Passed(history, db.cursor, n + 1)
  BY <1>2, <1>3 DEF Passed
<1>5. lanes[l] \in LaneRecords /\ LaneOK(history, head, db, lanes[l])
  BY DEF IInv
<1>6. lanes'[l] = [lanes[l] EXCEPT !.next = n + 1] /\ n + 1 \in Nat \ {0}
  BY <1>1, <1>2, <1>5 DEF IInv, LaneRecords
<1>7. lanes'[l] \in LaneRecords
  BY <1>5, <1>6 DEF LaneRecords
<1>8. LaneOK(history, head, db, lanes'[l])
  BY <1>2, <1>4, <1>5, <1>6 DEF LaneOK, LaneRecords
<1>9. lanes' \in [Lane -> LaneRecords] /\ \A k \in Lane \ {l} : lanes'[k] = lanes[k]
  BY <1>1, <1>7 DEF IInv
<1> QED
  BY <1>1, <1>8, <1>9 DEF IInv

LEMMA PublishCommittedKeeps == \A l \in Lane : IInv /\ PublishCommitted(l) => IInv'
<1> SUFFICES ASSUME NEW l \in Lane, IInv, PublishCommitted(l) PROVE IInv'
  OBVIOUS
<1> DEFINE n == lanes[l].try.n
<1>1. /\ lanes[l].try # None /\ lanes[l].try.written
      /\ lanes' = [lanes EXCEPT ![l].try = None, ![l].next = n + 1]
      /\ applied' = IF l = "live" THEN n ELSE applied
      /\ load' = IF load = None THEN None ELSE [load EXCEPT !.journal = @ \cup {n}]
      /\ UNCHANGED <<history, head, db, catalog, answer>>
  BY DEF PublishCommitted
<1>2. lanes[l] \in LaneRecords /\ LaneOK(history, head, db, lanes[l]) /\ head \in 0..Len(history)
      /\ history \in Histories /\ Len(history) \in Nat
  BY LogLength DEF IInv
<1>3. lanes[l].on /\ TryOK(history, head, db, lanes[l].try) /\ n \in 1..head /\ n <= db.cursor
      /\ Passed(history, db.cursor, n) /\ db.cursor \in Int
  BY <1>1, <1>2 DEF LaneOK, TryOK, IInv, StoreOK, Dbs, NoCursor
<1> HIDE DEF n
<1>4. Passed(history, db.cursor, n + 1)
  BY <1>3 DEF Passed
<1>5. lanes'[l] = [lanes[l] EXCEPT !.try = None, !.next = n + 1] /\ n + 1 \in Nat \ {0}
  BY <1>1, <1>2, <1>3 DEF IInv, LaneRecords
<1>6. lanes'[l] \in LaneRecords
  BY <1>2, <1>5 DEF LaneRecords
<1>7. LaneOK(history, head, db, lanes'[l])
  BY <1>2, <1>3, <1>4, <1>5 DEF LaneOK, LaneRecords
<1>8. lanes' \in [Lane -> LaneRecords] /\ \A k \in Lane \ {l} : lanes'[k] = lanes[k]
  BY <1>1, <1>6 DEF IInv
<1>9. load' # None => LoadOK(history, head, load')
  <2> SUFFICES ASSUME load # None PROVE LoadOK(history, head, [load EXCEPT !.journal = @ \cup {n}])
    BY <1>1
  <2>1. LoadOK(history, head, load) /\ n \in 1..Len(history)
    BY <1>2, <1>3 DEF IInv
  <2> QED
    BY <2>1 DEF LoadOK, Loads
<1>10. applied' \in Nat \cup {NoCursor} /\ applied' <= head
  BY <1>1, <1>2, <1>3 DEF IInv
<1> QED
  BY <1>1, <1>7, <1>8, <1>9, <1>10 DEF IInv

LEMMA BeginSyncKeeps == IInv /\ BeginSync => IInv'
<1> SUFFICES ASSUME IInv, BeginSync PROVE IInv'
  OBVIOUS
<1> DEFINE r == [on |-> TRUE, next |-> db.cursor + 1, target |-> head, try |-> None]
<1>1. /\ db.marker = 0 /\ db.cursor # NoCursor /\ lanes' = [lanes EXCEPT !["sync"] = r]
      /\ UNCHANGED <<history, head, db, applied, load, catalog, answer>>
  BY DEF BeginSync
<1>2. db.cursor \in Nat /\ head \in Nat
  BY <1>1, LogLength DEF IInv, StoreOK, Dbs
<1>3. r \in LaneRecords /\ LaneOK(history, head, db, r)
  BY <1>1, <1>2 DEF LaneRecords, LaneOK, Passed
<1> HIDE DEF r
<1>4. lanes' \in [Lane -> LaneRecords] /\ lanes'["sync"] = r
      /\ \A k \in Lane \ {"sync"} : lanes'[k] = lanes[k]
  BY <1>1, <1>3 DEF IInv, Lane
<1> QED
  BY <1>1, <1>3, <1>4 DEF IInv

LEMMA RedeliverKeeps == IInv /\ Redeliver => IInv'
<1> SUFFICES ASSUME IInv, Redeliver PROVE IInv'
  OBVIOUS
<1>1. PICK n \in 1..(lanes["live"].next - 1) : lanes' = [lanes EXCEPT !["live"].next = n]
  BY DEF Redeliver
<1>2. /\ lanes["live"].on /\ lanes["live"].try = None
      /\ UNCHANGED <<history, head, db, applied, load, catalog, answer>>
  BY DEF Redeliver
<1>3. lanes["live"] \in LaneRecords /\ LaneOK(history, head, db, lanes["live"])
      /\ db.cursor \in Int
  BY DEF IInv, Lane, StoreOK, Dbs, NoCursor
<1>4. n \in Nat \ {0} /\ n < lanes["live"].next /\ lanes["live"].next \in Nat
  BY <1>1, <1>3 DEF LaneRecords
<1>5. lanes'["live"] = [lanes["live"] EXCEPT !.next = n]
  BY <1>1 DEF IInv, Lane
<1>6. lanes'["live"] \in LaneRecords
  BY <1>3, <1>4, <1>5 DEF LaneRecords
<1>7. Passed(history, db.cursor, n)
  BY <1>2, <1>3, <1>4 DEF LaneOK, Passed
<1>8. LaneOK(history, head, db, lanes'["live"])
  BY <1>2, <1>3, <1>5, <1>7 DEF LaneOK, LaneRecords
<1>9. lanes' \in [Lane -> LaneRecords] /\ \A k \in Lane \ {"live"} : lanes'[k] = lanes[k]
  BY <1>1, <1>6 DEF IInv, Lane
<1> QED
  BY <1>2, <1>8, <1>9 DEF IInv

LEMMA CrashKeeps == IInv /\ Crash => IInv'
<1> SUFFICES ASSUME IInv, Crash PROVE IInv'
  OBVIOUS
<1>1. lanes' = AllIdle /\ load' = None /\ catalog' = None /\ answer' = None
      /\ UNCHANGED <<history, head, db, applied>>
  BY DEF Crash
<1> QED
  BY <1>1, LanesIdle DEF IInv

LEMMA CatalogReadsKeep ==
  IInv /\ ((\E mode \in {"bootstrap", "refresh"} : ReadCatalog(mode)) \/ CatalogFails) => IInv'
<1>1. ASSUME IInv, NEW mode \in {"bootstrap", "refresh"}, ReadCatalog(mode) PROVE IInv'
  <2>1. /\ catalog' = [mode |-> mode, at |-> head] /\ load' \in {None, load}
        /\ UNCHANGED <<history, head, db, applied, lanes, answer>>
    BY <1>1 DEF ReadCatalog
  <2>2. head \in Nat
    BY <1>1, LogLength DEF IInv
  <2>3. CatalogOK(head, [mode |-> mode, at |-> head])
    BY <2>2 DEF CatalogOK, Catalogs
  <2> QED
    BY <1>1, <2>1, <2>3 DEF IInv
<1>2. ASSUME IInv, CatalogFails PROVE IInv'
  BY <1>2 DEF IInv, CatalogFails
<1> QED
  BY <1>1, <1>2

LEMMA BeginLoadKeeps == \A c \in Collection : IInv /\ BeginLoad(c) => IInv'
<1> SUFFICES ASSUME NEW c \in Collection, IInv, BeginLoad(c) PROVE IInv'
  OBVIOUS
<1> DEFINE r == [of |-> c, start |-> applied, at |-> NoCursor, journal |-> {}, base |-> None]
<1>1. load' = r /\ UNCHANGED <<history, head, db, applied, lanes, catalog, answer>>
  BY DEF BeginLoad
<1>2. head \in Nat /\ applied \in Nat \cup {NoCursor}
  BY LogLength DEF IInv
<1>3. LoadOK(history, head, r)
  BY <1>2 DEF LoadOK, Loads, NoCursor
<1> HIDE DEF r
<1> QED
  BY <1>1, <1>3 DEF IInv

LEMMA LoadAnswersKeeps == IInv /\ LoadAnswers => IInv'
<1> SUFFICES ASSUME IInv, LoadAnswers PROVE IInv'
  OBVIOUS
<1>1. load # None /\ load.at = NoCursor /\ load' = [load EXCEPT !.at = head]
      /\ UNCHANGED <<history, head, db, applied, lanes, catalog, answer>>
  BY DEF LoadAnswers
<1>2. LoadOK(history, head, load) /\ head \in Nat
  BY <1>1, LogLength DEF IInv
<1>3. LoadOK(history, head, load')
  BY <1>1, <1>2 DEF LoadOK, Loads, NoCursor
<1> QED
  BY <1>1, <1>3 DEF IInv

LEMMA ReadForPageKeeps == IInv /\ ReadForPage => IInv'
<1> SUFFICES ASSUME IInv, ReadForPage PROVE IInv'
  OBVIOUS
<1> DEFINE events == {n \in load.journal : n > load.at}
           page == Replay(PageAt(history, load.at), history, events)
           b == [page |-> page, expected |-> applied, rows |-> db.rows, reserved |-> db.reserved]
<1>1. /\ load # None /\ load.at # NoCursor
      /\ load' \in {None, [load EXCEPT !.base = b]}
      /\ UNCHANGED <<history, head, db, applied, lanes, catalog, answer>>
  BY DEF ReadForPage
<1>2. LoadOK(history, head, load) /\ history \in Histories /\ Len(history) \in Nat
      /\ head \in 0..Len(history)
  BY <1>1, LogLength DEF IInv
<1>3. load.at \in 0..Len(history) /\ events \in SUBSET (1..Len(history))
  BY <1>1, <1>2 DEF LoadOK, Loads, NoCursor
<1> HIDE DEF events
<1>4. page \in Pages(Len(history))
  BY <1>2, <1>3, PageTyped, ReplayTyped
<1>5. page \in Store!PagesOf[history]
  BY <1>2, <1>3, PagesStored DEF page
<1> HIDE DEF page
<1>6. b \in Bases(history) /\ DeadReserved(b.rows, b.reserved) /\ b.page = page
  BY <1>4 DEF Bases, IInv, StoreOK, Dbs
<1> HIDE DEF b
<1>7. LoadOK(history, head, [load EXCEPT !.base = b])
  BY <1>1, <1>2, <1>5, <1>6 DEF LoadOK, Loads
<1> QED
  BY <1>1, <1>7 DEF IInv

LEMMA MutationAnsweredKeeps == IInv /\ MutationAnswered => IInv'
<1> SUFFICES ASSUME IInv, MutationAnswered PROVE IInv'
  OBVIOUS
<1>1. UNCHANGED <<history, head, db, applied, lanes, load, catalog>>
  BY DEF MutationAnswered
<1>2. history \in Histories /\ Len(history) \in Nat /\ head \in 0..Len(history)
      /\ applied \in Nat \cup {NoCursor} /\ applied <= head
  BY LogLength DEF IInv
<1>3. ASSUME NEW k \in 1..head, applied # NoCursor,
             answer' = [kind |-> history[k].kind, k |-> k, from |-> applied, base |-> None]
      PROVE  AnswerOK(history, head, answer')
  <2>1. k \in 1..Len(history) /\ k \in Nat
    BY <1>2
  <2>2. history[k].kind \in Kinds
    BY <1>2, <2>1, Logged DEF Event, Kinds
  <2> QED
    BY <1>2, <1>3, <2>1, <2>2 DEF AnswerOK, Answers
<1>4. ASSUME SummaryAt(history, head) # None, \E k \in 1..head : history[k].kind = "opened",
             answer' = [kind |-> "direct", k |-> head, from |-> applied, base |-> None]
      PROVE  AnswerOK(history, head, answer')
  <2>1. head \in 1..head /\ head \in Nat
    BY <1>2, <1>4
  <2> QED
    BY <1>2, <1>4, <2>1 DEF AnswerOK, Answers, Kinds
<1>5. AnswerOK(history, head, answer')
  BY <1>3, <1>4 DEF MutationAnswered
<1> QED
  BY <1>1, <1>5 DEF IInv

LEMMA ReadForSentKeeps == IInv /\ ReadForSent => IInv'
<1> SUFFICES ASSUME IInv, ReadForSent PROVE IInv'
  OBVIOUS
<1> DEFINE b == [reserved |-> db.reserved,
                 applied |-> IF applied = NoCursor THEN answer.from ELSE applied]
<1>1. answer # None /\ answer.kind = "created" /\ answer' = [answer EXCEPT !.base = b]
      /\ UNCHANGED <<history, head, db, applied, lanes, load, catalog>>
  BY DEF ReadForSent
<1>2. AnswerOK(history, head, answer) /\ db \in Dbs /\ applied \in Nat \cup {NoCursor}
      /\ applied <= head
  BY <1>1 DEF IInv, StoreOK
<1>3. answer.from # NoCursor
  BY <1>1, <1>2 DEF AnswerOK
<1>4. b \in Sends /\ b.applied <= head
  BY <1>2, <1>3 DEF AnswerOK, Answers, Sends, Dbs
<1> HIDE DEF b
<1>5. AnswerOK(history, head, answer')
  BY <1>1, <1>2, <1>4 DEF AnswerOK, Answers
<1> QED
  BY <1>1, <1>5 DEF IInv

-----------------------------------------------------------------------------
(* Commits.                                                                *)

LEMMA ProjectionsTyped ==
  ASSUME NEW conv \in Summary
  PROVE  /\ \A m \in Message, mine \in BOOLEAN : ProjectCreated(conv, m, mine) \in Summary
         /\ \A m \in Message, mine \in BOOLEAN : \A rows : ProjectRetracted(conv, m, mine, rows) \in Summary
         /\ \A upTo \in 0..2, unread \in Nat : ProjectRead(conv, upTo, unread) \in Summary
         /\ ProjectMember(conv) \in Summary
         /\ \A reserved : ReserveSummary(conv, reserved) \in Summary
         /\ \A other \in Summary : MergeSummary(conv, other) \in Summary
<1>1. ASSUME NEW m \in Message, NEW mine \in BOOLEAN
      PROVE  ProjectCreated(conv, m, mine) \in Summary
  <2> DEFINE unread == IF mine THEN conv.unread ELSE conv.unread + 1
  <2>1. unread \in Nat /\ m \in 0..2
    BY DEF Summary, Message
  <2>2. ProjectCreated(conv, m, mine) = [conv EXCEPT !.last = m, !.dead = FALSE, !.unread = unread]
    BY DEF ProjectCreated
  <2> HIDE DEF unread
  <2> QED
    BY <2>1, <2>2 DEF Summary
<1>2. ASSUME NEW m \in Message, NEW mine \in BOOLEAN, NEW rows
      PROVE  ProjectRetracted(conv, m, mine, rows) \in Summary
  <2>1. NewestLiveOf(rows) \in 0..2
    <3>1. [others |-> {}].others \in SUBSET (0..2)
      OBVIOUS
    <3> QED
      BY <3>1, Counters
  <2> DEFINE newest == NewestLiveOf(rows)
             last == IF conv.last = m THEN newest ELSE conv.last
             dead == IF conv.last = m THEN FALSE ELSE conv.dead
             unread == IF (~mine /\ m > conv.read) /\ conv.unread > 0 THEN conv.unread - 1
                       ELSE conv.unread
  <2>2. ProjectRetracted(conv, m, mine, rows)
          = [conv EXCEPT !.last = last, !.dead = dead, !.unread = unread]
    BY DEF ProjectRetracted
  <2>3. last \in 0..2 /\ dead \in BOOLEAN
    BY <2>1 DEF Summary
  <2>4. unread \in Nat
    BY DEF Summary
  <2> HIDE DEF last, dead, unread
  <2> QED
    BY <2>2, <2>3, <2>4 DEF Summary
<1>3. \A upTo \in 0..2, unread \in Nat : ProjectRead(conv, upTo, unread) \in Summary
  BY DEF ProjectRead, Summary
<1>4. ProjectMember(conv) \in Summary
  BY DEF ProjectMember, Summary
<1>5. \A reserved : ReserveSummary(conv, reserved) \in Summary
  BY DEF ReserveSummary, Summary
<1>6. \A other \in Summary : MergeSummary(conv, other) \in Summary
  BY DEF MergeSummary, Summary
<1> QED
  BY <1>1, <1>2, <1>3, <1>4, <1>5, <1>6

LEMMA NoneIsNoSummary == \A conv \in Summary : conv # None
BY ReplicaAssumption DEF NoneAssumption

(* The appliers, after a commit that leaves them alone. *)
LEMMA LanesKept ==
  ASSUME IInv, db' \in Dbs, UNCHANGED <<history, head, lanes>>,
         db.cursor <= db'.cursor, db.cursor # NoCursor => db'.cursor # NoCursor,
         db'.marker \in {0, db.marker}
  PROVE  lanes' \in [Lane -> LaneRecords]
         /\ \A l \in Lane : LaneOK(history', head', db', lanes'[l])
<1>1. lanes' \in [Lane -> LaneRecords] /\ head \in Nat /\ db \in Dbs
  BY LogLength DEF IInv, StoreOK
<1>2. ASSUME NEW l \in Lane PROVE LaneOK(history, head, db', lanes[l])
  <2>1. LaneOK(history, head, db, lanes[l]) /\ lanes[l] \in LaneRecords
    BY DEF IInv
  <2>2. lanes[l].on => db'.marker = 0
    BY <2>1 DEF LaneOK
  <2> QED
    BY <1>1, <2>1, <2>2, LaneKept
<1> QED
  BY <1>1, <1>2

(* An event that is neither the opening nor a change of the own membership finds *)
(* the member in the conversation before it, and the cursor right below it.      *)
LEMMA MemberBefore ==
  ASSUME IInv, NEW try, try.n \in Nat, TryOK(history, head, db, try), db.marker = 0,
         db.cursor # NoCursor, db.cursor < try.n, history[try.n].kind # "opened"
  PROVE  db.conv # None
<1> DEFINE n == try.n
<1>1. n \in 1..Len(history) /\ history \in Histories /\ Len(history) \in Nat
      /\ db.cursor \in Nat /\ head \in 0..Len(history)
  BY LogLength DEF IInv, TryOK, StoreOK, Dbs
<1>2. ServerAt[history][n].member /\ ~SelfMembership(history[n])
  BY DEF TryOK, Delivered, SelfMembership
<1>3. ServerAt[history][n - 1].member
  <2>1. ServerAt[history][n].member =
          ((ServerAt[history][n - 1].member \/ history[n].kind \in {"opened", "returned"})
             /\ history[n].kind # "left")
    BY <1>1, Membership
  <2> QED
    BY <1>2, <2>1 DEF SelfMembership
<1>4. db.cursor = n - 1
  <2>1. CASE db.cursor < n - 1
    <3>1. n - 1 \in (db.cursor + 1)..(n - 1)
      BY <1>1, <2>1
    <3>2. ~Delivered(history, n - 1)
      BY <3>1 DEF TryOK, Passed
    <3> QED
      BY <1>3, <3>2 DEF Delivered
  <2> QED
    BY <1>1, <2>1
<1> QED
  BY <1>3, <1>4 DEF IInv, StoreOK

LEMMA EventWritten ==
  ASSUME IInv, NEW try \in Tries, TryOK(history, head, db, try), db.marker = 0,
         db.cursor # NoCursor, Applicable(try.n), ~ReservationsMoved(try)
  PROVE  /\ EventWrite(try) \in Dbs
         /\ EventWrite(try).marker = 0 /\ EventWrite(try).cursor = db.cursor
         /\ EventWrite(try).known = db.known /\ EventWrite(try).conv # None
         /\ DeadReserved(EventWrite(try).rows, EventWrite(try).reserved)
<1> DEFINE n == try.n
           e == history[n]
           w == EventWrite(try)
<1>0. /\ n \in 1..Len(history) /\ n \in Nat /\ history \in Histories
      /\ db \in Dbs /\ DeadReserved(db.rows, db.reserved)
      /\ DeadReserved(try.rows, try.reserved)
      /\ db.cursor < n
  BY LogLength DEF IInv, StoreOK, TryOK, Applicable
<1>1. e \in Event /\ (e.kind \in OfMessage => e.message \in Message)
  BY <1>0, Logged
<1>2. e.kind # "opened" => db.conv # None /\ db.conv \in Summary
  BY <1>0, MemberBefore DEF Dbs
<1>3. try.conv \in Summary \cup {None} /\ db.conv \in Summary \cup {None} /\ try.rows \in Rows
      /\ db.rows \in Rows /\ db.reserved \in SUBSET Message
  BY <1>0 DEF Tries, Dbs
<1>4. ServerAt[history][n].task \in Nat /\ ServerAt[history][n].unread \in Nat
  <2>1. ServerAt[history][n] \in ServerState(n)
    BY <1>0, ServerTyped
  <2> QED
    BY <1>0, <2>1 DEF ServerState
<1>5. CASE e.kind = "created"
  <2> DEFINE row == CreatedRow(try, e)
             conv == IF try.conv = None \/ row = "dead" THEN db.conv
                     ELSE ProjectCreated(try.conv, e.message, e.mine)
             queued == IF e.mine THEN "none" ELSE db.queued
  <2>1. w = [db EXCEPT !.rows[e.message] = row, !.conv = conv, !.queued = queued]
    BY <1>5 DEF EventWrite, CreatedWrite
  <2>2. row \in {"none", "live", "dead"} /\ e.message \in Message /\ e.mine \in BOOLEAN
    BY <1>1, <1>3, <1>5 DEF CreatedRow, Preferred, Reserved, Rows, OfMessage, Event
  <2>3. row = "dead" => e.message \in db.reserved
    <3>1. try.reserved = db.reserved
      BY <1>5 DEF ReservationsMoved
    <3> QED
      BY <1>0, <2>2, <3>1 DEF CreatedRow, Preferred, Reserved, DeadReserved
  <2>4. conv \in Summary
    BY <1>2, <1>3, <1>5, <2>2, ProjectionsTyped
  <2>5. queued \in {"none", "pending", "failed"}
    BY <1>0 DEF Dbs
  <2> DEFINE rows == [db.rows EXCEPT ![e.message] = row]
  <2> HIDE DEF row, conv, queued
  <2>6. w \in Dbs /\ w.conv = conv /\ w.rows = [db.rows EXCEPT ![e.message] = row]
        /\ w.marker = db.marker /\ w.cursor = db.cursor /\ w.known = db.known
        /\ w.reserved = db.reserved
    <3>1. rows \in Rows
      BY <1>3, <2>2 DEF Rows
    <3>2. w = [db EXCEPT !.rows = rows, !.conv = conv, !.queued = queued]
      BY <2>1
    <3> HIDE DEF rows, w
    <3>3. w \in Dbs /\ w.rows = rows
      BY <1>0, <2>4, <2>5, <3>1, <3>2 DEF Dbs
    <3>4. w.conv = conv /\ w.marker = db.marker /\ w.cursor = db.cursor /\ w.known = db.known
          /\ w.reserved = db.reserved
      BY <1>0, <3>2 DEF Dbs
    <3> QED
      BY <3>3, <3>4 DEF rows
  <2>7. DeadReserved(w.rows, w.reserved)
    BY <1>0, <1>3, <2>2, <2>3, <2>6 DEF DeadReserved, Rows
  <2> QED
    BY <2>4, <2>6, <2>7, NoneIsNoSummary
<1>6. CASE e.kind = "retracted"
  <2> DEFINE sourced == SourceKnown(try, e)
             row == IF sourced THEN "dead" ELSE db.rows[e.message]
             conv == IF try.conv # None /\ sourced
                     THEN ProjectRetracted(try.conv, e.message, e.mine,
                                           [try.rows EXCEPT ![e.message] = "dead"])
                     ELSE db.conv
             reacts == {r \in db.reacts : r.message # e.message}
  <2>1. w = [db EXCEPT !.rows[e.message] = row, !.reacts = reacts,
                       !.reserved = @ \cup {e.message}, !.conv = conv]
    BY <1>6 DEF EventWrite, RetractedWrite
  <2>2. row \in {"none", "live", "dead"} /\ e.message \in Message /\ e.mine \in BOOLEAN
    BY <1>1, <1>3, <1>6 DEF Rows, OfMessage, Event
  <2>3. conv \in Summary
    BY <1>2, <1>3, <1>6, <2>2, ProjectionsTyped
  <2>4. reacts \in SUBSET Reaction
    BY <1>0 DEF Dbs
  <2> DEFINE rows == [db.rows EXCEPT ![e.message] = row]
             reserved == db.reserved \cup {e.message}
  <2> HIDE DEF row, conv, reacts
  <2>5. w \in Dbs /\ w.conv = conv /\ w.rows = [db.rows EXCEPT ![e.message] = row]
        /\ w.marker = db.marker /\ w.cursor = db.cursor /\ w.known = db.known
        /\ w.reserved = db.reserved \cup {e.message}
    <3>1. rows \in Rows /\ reserved \in SUBSET Message
      BY <1>3, <2>2 DEF Rows
    <3>2. w = [db EXCEPT !.rows = rows, !.reacts = reacts, !.reserved = reserved, !.conv = conv]
      BY <2>1
    <3> HIDE DEF rows, reserved, w
    <3>3. w \in Dbs
      BY <1>0, <2>3, <2>4, <3>1, <3>2 DEF Dbs
    <3>4. w.rows = rows /\ w.reserved = reserved /\ w.conv = conv
          /\ w.marker = db.marker /\ w.cursor = db.cursor /\ w.known = db.known
      BY <1>0, <3>2 DEF Dbs
    <3> QED
      BY <3>3, <3>4 DEF rows, reserved
  <2>6. DeadReserved(w.rows, w.reserved)
    BY <1>0, <1>3, <2>2, <2>5 DEF DeadReserved, Rows
  <2> QED
    BY <2>3, <2>5, <2>6, NoneIsNoSummary
<1>7. CASE e.kind \in {"reacted", "unreacted"}
  <2> DEFINE reacts == IF n <= db.anchor[e.message] THEN db.reacts
                       ELSE IF e.kind = "reacted"
                            THEN db.reacts \cup {[id |-> n, message |-> e.message]}
                            ELSE {r \in db.reacts : r.id # e.by}
  <2>1. reacts \in SUBSET Reaction
    BY <1>0, <1>1, <1>7 DEF Dbs, Reaction, OfMessage
  <2>2. w = [db EXCEPT !.reacts = reacts]
    <3>1. db = [db EXCEPT !.reacts = db.reacts]
      BY <1>0 DEF Dbs
    <3>2. w = IF n <= db.anchor[e.message] THEN db
              ELSE [db EXCEPT !.reacts = IF e.kind = "reacted"
                                         THEN db.reacts \cup {[id |-> n, message |-> e.message]}
                                         ELSE {r \in db.reacts : r.id # e.by}]
      BY <1>7 DEF EventWrite, ReactionWrite
    <3> QED
      BY <3>1, <3>2
  <2> HIDE DEF reacts
  <2>3. w \in Dbs /\ w.conv = db.conv /\ w.rows = db.rows /\ w.marker = db.marker
        /\ w.cursor = db.cursor /\ w.known = db.known /\ w.reserved = db.reserved
    BY <1>0, <2>1, <2>2 DEF Dbs
  <2> QED
    BY <1>0, <1>2, <1>7, <2>3
<1>8. CASE e.kind = "task"
  <2> DEFINE task == IF AcceptsTask(db.task, ServerAt[history][n].task)
                     THEN ServerAt[history][n].task ELSE db.task
  <2>1. task \in Nat
    BY <1>0, <1>4 DEF Dbs
  <2>2. w = [db EXCEPT !.task = task]
    BY <1>8 DEF EventWrite, TaskWrite
  <2> HIDE DEF task
  <2>3. w \in Dbs /\ w.conv = db.conv /\ w.rows = db.rows /\ w.marker = db.marker
        /\ w.cursor = db.cursor /\ w.known = db.known /\ w.reserved = db.reserved
    BY <1>0, <2>1, <2>2 DEF Dbs
  <2> QED
    BY <1>0, <1>2, <1>8, <2>3
<1>9. CASE e.kind \in {"opened", "read", "member"}
  <2> DEFINE conv == CASE e.kind = "opened" -> ProjectOpened(try.conv)
                       [] e.kind = "member" /\ try.conv # None -> ProjectMember(try.conv)
                       [] e.kind = "read" /\ try.conv # None ->
                            ProjectRead(try.conv, e.message, ServerAt[history][n].unread)
                       [] OTHER -> db.conv
  <2>1. w = [db EXCEPT !.conv = conv]
    <3>1. w = SummaryWrite(try, e, n)
      BY <1>9 DEF EventWrite
    <3> QED
      BY <3>1 DEF SummaryWrite
  <2>2. conv \in Summary
    <3>1. CASE e.kind = "opened"
      BY <1>3, <3>1 DEF ProjectOpened, Summary
    <3>2. CASE e.kind = "member"
      BY <1>2, <1>3, <3>2, ProjectionsTyped
    <3>3. CASE e.kind = "read"
      <4>1. e.message \in 0..2
        BY <1>1 DEF Event
      <4> QED
        BY <1>2, <1>3, <1>4, <3>3, <4>1, ProjectionsTyped
    <3> QED
      BY <1>9, <3>1, <3>2, <3>3
  <2> HIDE DEF conv
  <2>3. w \in Dbs /\ w.conv = conv /\ w.rows = db.rows /\ w.marker = db.marker
        /\ w.cursor = db.cursor /\ w.known = db.known /\ w.reserved = db.reserved
    BY <1>0, <2>1, <2>2 DEF Dbs
  <2> QED
    BY <1>0, <2>2, <2>3, NoneIsNoSummary
<1>10. e.kind \in {"created", "retracted", "reacted", "unreacted", "task", "opened", "read", "member"}
  BY <1>1 DEF Event, TryOK, SelfMembership
<1> QED
  BY <1>5, <1>6, <1>7, <1>8, <1>9, <1>10

(* Commits that change the content of the stores only. *)
LEMMA ContentKept ==
  ASSUME IInv, NEW d \in Dbs, DeadReserved(d.rows, d.reserved), d.cursor = db.cursor,
         d.marker = db.marker, d.known = db.known, db.conv # None => d.conv # None
  PROVE  /\ StoreOK(history, head, d)
         /\ \A l \in Lane : LaneOK(history, head, d, lanes[l])
<1>1. StoreOK(history, head, db) /\ db \in Dbs /\ head \in Nat
  BY LogLength DEF IInv, StoreOK
<1>2. StoreOK(history, head, d)
  BY <1>1 DEF StoreOK
<1>3. ASSUME NEW l \in Lane PROVE LaneOK(history, head, d, lanes[l])
  BY <1>1, Zenon DEF IInv, LaneOK, TryOK
<1> QED
  BY <1>2, <1>3

LEMMA HistoryWritten ==
  ASSUME IInv, NEW base, NEW page, NEW p \in Nat, NEW reacted \in BOOLEAN,
         base.rows \in Rows, base.reserved = db.reserved, page.rows \in Rows,
         page.reacts \in SUBSET Reaction, DeadReserved(base.rows, base.reserved)
  PROVE  /\ HistoryWrite(base, page, p, reacted) \in Dbs
         /\ DeadReserved(HistoryWrite(base, page, p, reacted).rows,
                         HistoryWrite(base, page, p, reacted).reserved)
         /\ HistoryWrite(base, page, p, reacted).cursor = db.cursor
         /\ HistoryWrite(base, page, p, reacted).marker = db.marker
         /\ HistoryWrite(base, page, p, reacted).known = db.known
         /\ HistoryWrite(base, page, p, reacted).conv = db.conv
<1> DEFINE reserved == ReserveTombstones(base.reserved, page.rows)
           rows == [m \in Message |->
                     IF ~Paged(page, m) THEN db.rows[m]
                     ELSE Preferred(base.rows[m], Reserved(m, page.rows[m], reserved))]
           reacts == IF reacted
                     THEN {r \in db.reacts : ~Paged(page, r.message)}
                          \cup {r \in page.reacts : Paged(page, r.message) /\ rows[r.message] = "live"}
                     ELSE {r \in db.reacts : Paged(page, r.message) => rows[r.message] = "live"}
           anchor == [m \in Message |-> IF reacted /\ Paged(page, m) THEN p ELSE db.anchor[m]]
<1>1. db \in Dbs /\ DeadReserved(db.rows, db.reserved) /\ db.rows \in Rows
      /\ db.reserved \in SUBSET Message /\ db.reacts \in SUBSET Reaction
      /\ db.anchor \in [Message -> Nat]
  BY DEF IInv, StoreOK, Dbs
<1>2. reserved \in SUBSET Message
  BY <1>1 DEF ReserveTombstones
<1>3. rows \in Rows
  BY <1>1 DEF Rows, Preferred, Reserved
<1>4. reacts \in SUBSET Reaction
  BY <1>1
<1>5. anchor \in [Message -> Nat]
  BY <1>1
<1>6. DeadReserved(rows, reserved)
  <2> SUFFICES ASSUME NEW m \in Message, rows[m] = "dead" PROVE m \in reserved
    BY DEF DeadReserved
  <2>1. CASE ~Paged(page, m)
    BY <1>1, <2>1 DEF DeadReserved, ReserveTombstones
  <2>2. CASE Paged(page, m)
    BY <1>1, <2>2 DEF DeadReserved, ReserveTombstones, Preferred, Reserved
  <2> QED
    BY <2>1, <2>2
<1>7. HistoryWrite(base, page, p, reacted)
        = [db EXCEPT !.rows = rows, !.reserved = reserved, !.reacts = reacts, !.anchor = anchor]
  BY DEF HistoryWrite
<1> DEFINE w == HistoryWrite(base, page, p, reacted)
<1> HIDE DEF reserved, rows, reacts, anchor, w
<1>8. w = [db EXCEPT !.rows = rows, !.reserved = reserved, !.reacts = reacts, !.anchor = anchor]
  BY <1>7 DEF w
<1>9. w \in Dbs /\ w.rows = rows /\ w.reserved = reserved
  BY <1>1, <1>2, <1>3, <1>4, <1>5, <1>8 DEF Dbs
<1>10. w.cursor = db.cursor /\ w.marker = db.marker /\ w.known = db.known /\ w.conv = db.conv
  BY <1>1, <1>8 DEF Dbs
<1> QED
  BY <1>6, <1>9, <1>10 DEF w

(* A collection that commits keeps its type. *)
LEMMA CollectionWritten ==
  ASSUME NEW w \in Dbs, NEW c \in Collection, NEW p \in Nat
  PROVE  LET d == [w EXCEPT !.coll[c] = CommitCollection(@, p)]
         IN d \in Dbs /\ d.rows = w.rows /\ d.reserved = w.reserved /\ d.cursor = w.cursor
            /\ d.marker = w.marker /\ d.known = w.known /\ d.conv = w.conv
<1> DEFINE coll == [w.coll EXCEPT ![c] = CommitCollection(w.coll[c], p)]
<1>1. coll \in [Collection -> [loaded : BOOLEAN, at : Nat, stale : Nat]]
  BY DEF CommitCollection, Dbs
<1>2. [w EXCEPT !.coll[c] = CommitCollection(@, p)] = [w EXCEPT !.coll = coll]
  BY DEF Dbs
<1> HIDE DEF coll
<1> QED
  BY <1>1, <1>2 DEF Dbs

LEMMA CommitHistoryKeeps == IInv /\ CommitHistory => IInv'
<1> SUFFICES ASSUME IInv, CommitHistory PROVE IInv'
  OBVIOUS
<1> DEFINE base == load.base
<1>1. load # None /\ base # None /\ UNCHANGED <<history, head, applied, lanes, catalog, answer>>
  BY DEF CommitHistory, Writing
<1>2. LoadOK(history, head, load) /\ load \in Loads(history) /\ load.at \in Nat
      /\ base \in Bases(history) /\ DeadReserved(base.rows, base.reserved)
      /\ base.page \in Pages(Len(history))
  BY <1>1 DEF IInv, LoadOK, Loads, Bases
<1>3. db \in Dbs /\ DeadReserved(db.rows, db.reserved) /\ head \in Nat
  BY LogLength DEF IInv, StoreOK
<1>4. CASE load' = [load EXCEPT !.base.rows = db.rows, !.base.reserved = db.reserved] /\ db' = db
  <2> DEFINE moved == [base EXCEPT !.rows = db.rows, !.reserved = db.reserved]
  <2>1. moved \in Bases(history) /\ moved.page = base.page /\ moved.rows = db.rows
        /\ moved.reserved = db.reserved
    BY <1>2, <1>3 DEF Bases, Dbs
  <2>2. load' = [load EXCEPT !.base = moved]
    BY <1>2, <1>4 DEF Loads, Bases
  <2> HIDE DEF moved
  <2>3. LoadOK(history, head, load')
    BY <1>1, <1>2, <1>3, <2>1, <2>2 DEF LoadOK, Loads
  <2> QED
    BY <1>1, <1>4, <2>3 DEF IInv
<1>5. CASE load' = None /\ db' = db
  BY <1>1, <1>5 DEF IInv
<1>6. CASE ~PageMoved(base, base.page) /\ load' = None
           /\ db' = [HistoryWrite(base, base.page, load.at, TRUE)
                       EXCEPT !.coll["timeline"] = CommitCollection(@, load.at)]
  <2> DEFINE w == HistoryWrite(base, base.page, load.at, TRUE)
  <2>1. base.rows \in Rows /\ base.reserved = db.reserved /\ base.page.rows \in Rows
        /\ base.page.reacts \in SUBSET Reaction
    BY <1>2, <1>6 DEF Bases, Pages, PageMoved
  <2>2. w \in Dbs /\ DeadReserved(w.rows, w.reserved) /\ w.cursor = db.cursor
        /\ w.marker = db.marker /\ w.known = db.known /\ w.conv = db.conv
    BY <1>2, <2>1, HistoryWritten
  <2> HIDE DEF w
  <2>3. db' = [w EXCEPT !.coll["timeline"] = CommitCollection(@, load.at)]
    BY <1>6 DEF w
  <2>4. "timeline" \in Collection
    BY DEF Collection
  <2>5. db' \in Dbs /\ db'.rows = w.rows /\ db'.reserved = w.reserved /\ db'.cursor = w.cursor
        /\ db'.marker = w.marker /\ db'.known = w.known /\ db'.conv = w.conv
    BY <1>2, <2>2, <2>3, <2>4, CollectionWritten
  <2>6. StoreOK(history, head, db') /\ \A l \in Lane : LaneOK(history, head, db', lanes[l])
    BY <2>2, <2>5, ContentKept
  <2> QED
    BY <1>1, <1>6, <2>6 DEF IInv
<1> QED
  BY <1>4, <1>5, <1>6 DEF CommitHistory

LEMMA CommitTasksKeeps == IInv /\ CommitTasks => IInv'
<1> SUFFICES ASSUME IInv, CommitTasks PROVE IInv'
  OBVIOUS
<1> DEFINE task == IF AcceptsTask(db.task, load.base.page.task) THEN load.base.page.task
                   ELSE db.task
           w == [db EXCEPT !.task = task]
<1>1. load # None /\ load.base # None /\ load' = None
      /\ UNCHANGED <<history, head, applied, lanes, catalog, answer>>
  BY DEF CommitTasks, Writing
<1>2. load.at \in Nat /\ load.base.page.task \in Nat /\ db \in Dbs
      /\ DeadReserved(db.rows, db.reserved)
  <2>1. LoadOK(history, head, load) /\ StoreOK(history, head, db) /\ Len(history) \in Nat
    BY <1>1, LogLength DEF IInv
  <2> QED
    BY <1>1, <2>1 DEF LoadOK, Loads, Bases, Pages, StoreOK
<1>3. CASE db' = db
  BY <1>1, <1>3 DEF IInv
<1>4. CASE db' = [db EXCEPT !.task = task, !.coll["tasks"] = CommitCollection(@, load.at)]
  <2>1. task \in Nat /\ "tasks" \in Collection
    BY <1>2 DEF Dbs, Collection
  <2> HIDE DEF task
  <2>2. w \in Dbs /\ w.rows = db.rows /\ w.reserved = db.reserved /\ w.cursor = db.cursor
        /\ w.marker = db.marker /\ w.known = db.known /\ w.conv = db.conv
    BY <1>2, <2>1 DEF Dbs
  <2>3. db' = [w EXCEPT !.coll["tasks"] = CommitCollection(@, load.at)]
    BY <1>2, <1>4 DEF Dbs
  <2> HIDE DEF w
  <2>4. db' \in Dbs /\ db'.rows = w.rows /\ db'.reserved = w.reserved /\ db'.cursor = w.cursor
        /\ db'.marker = w.marker /\ db'.known = w.known /\ db'.conv = w.conv
    BY <1>2, <2>1, <2>2, <2>3, CollectionWritten
  <2>5. StoreOK(history, head, db') /\ \A l \in Lane : LaneOK(history, head, db', lanes[l])
    BY <1>2, <2>2, <2>4, ContentKept
  <2> QED
    BY <1>1, <2>5 DEF IInv
<1> QED
  BY <1>3, <1>4 DEF CommitTasks

LEMMA AnswerReactionKeeps == IInv /\ AnswerReaction => IInv'
<1> SUFFICES ASSUME IInv, AnswerReaction PROVE IInv'
  OBVIOUS
<1> DEFINE e == history[answer.k]
           reacts == IF e.kind = "reacted"
                     THEN db.reacts \cup {[id |-> answer.k, message |-> e.message]}
                     ELSE {r \in db.reacts : r.id # e.by}
<1>1. answer # None /\ answer.kind \in {"reacted", "unreacted"} /\ answer' = None
      /\ UNCHANGED <<history, head, applied, lanes, catalog>>
      /\ load' \in {None, load}
  BY DEF AnswerReaction
<1>2. answer.k \in Nat /\ e.message \in Message /\ db \in Dbs /\ DeadReserved(db.rows, db.reserved)
  <2>1. AnswerOK(history, head, answer) /\ StoreOK(history, head, db)
        /\ head \in 0..Len(history) /\ Len(history) \in Nat /\ history \in Histories
    BY <1>1, LogLength DEF IInv
  <2>2. answer.k \in 1..Len(history) /\ answer.kind = e.kind
    BY <1>1, <2>1 DEF AnswerOK
  <2>3. e.message \in Message
    BY <1>1, <2>1, <2>2, Logged DEF OfMessage
  <2> QED
    BY <2>1, <2>2, <2>3 DEF StoreOK
<1>3. CASE db' = db
  BY <1>1, <1>3 DEF IInv
<1>4. CASE db' = [db EXCEPT !.reacts = reacts]
  <2>1. reacts \in SUBSET Reaction
    BY <1>2 DEF Dbs, Reaction
  <2> HIDE DEF reacts
  <2>2. db' \in Dbs /\ db'.rows = db.rows /\ db'.reserved = db.reserved /\ db'.cursor = db.cursor
        /\ db'.marker = db.marker /\ db'.known = db.known /\ db'.conv = db.conv
    BY <1>2, <1>4, <2>1 DEF Dbs
  <2>3. StoreOK(history, head, db') /\ \A l \in Lane : LaneOK(history, head, db', lanes[l])
    BY <1>2, <2>2, ContentKept
  <2> QED
    BY <1>1, <2>3 DEF IInv
<1>5. db' = db \/ db' = [db EXCEPT !.reacts = reacts]
  BY DEF AnswerReaction
<1> QED
  BY <1>3, <1>4, <1>5

LEMMA AnswerRetractKeeps == IInv /\ AnswerRetract => IInv'
<1> SUFFICES ASSUME IInv, AnswerRetract PROVE IInv'
  OBVIOUS
<1> DEFINE m == history[answer.k].message
           base == [rows |-> db.rows, reserved |-> db.reserved]
           w == HistoryWrite(base, Tombstone(m), 0, FALSE)
<1>1. answer # None /\ answer.kind = "retracted" /\ answer' = None
      /\ UNCHANGED <<history, head, applied, lanes, catalog>>
      /\ load' \in {None, load}
  BY DEF AnswerRetract
<1>2. m \in Message /\ db \in Dbs /\ DeadReserved(db.rows, db.reserved)
  <2>1. AnswerOK(history, head, answer) /\ StoreOK(history, head, db)
        /\ head \in 0..Len(history) /\ Len(history) \in Nat /\ history \in Histories
    BY <1>1, LogLength DEF IInv
  <2>2. answer.k \in 1..Len(history) /\ answer.kind = history[answer.k].kind
    BY <1>1, <2>1 DEF AnswerOK
  <2>3. m \in Message
    BY <1>1, <2>1, <2>2, Logged DEF OfMessage
  <2> QED
    BY <2>1, <2>3 DEF StoreOK
<1>3. CASE db' = db
  BY <1>1, <1>3 DEF IInv
<1>4. CASE db' = w
  <2>1. Tombstone(m).rows \in Rows /\ Tombstone(m).reacts \in SUBSET Reaction
    BY <1>2 DEF Tombstone, EmptyRows, Rows
  <2>2. base.rows \in Rows /\ base.reserved = db.reserved /\ DeadReserved(base.rows, base.reserved)
    BY <1>2 DEF Dbs
  <2> HIDE DEF base
  <2>3. w \in Dbs /\ DeadReserved(w.rows, w.reserved) /\ w.cursor = db.cursor
        /\ w.marker = db.marker /\ w.known = db.known /\ w.conv = db.conv
    BY <2>1, <2>2, HistoryWritten
  <2> HIDE DEF w
  <2>4. StoreOK(history, head, db') /\ \A l \in Lane : LaneOK(history, head, db', lanes[l])
    BY <1>4, <2>3, ContentKept
  <2> QED
    BY <1>1, <2>4 DEF IInv
<1>5. db' = db \/ db' = w
  BY DEF AnswerRetract
<1> QED
  BY <1>3, <1>4, <1>5

LEMMA AnswerDirectKeeps == IInv /\ AnswerDirect => IInv'
<1> SUFFICES ASSUME IInv, AnswerDirect PROVE IInv'
  OBVIOUS
<1> DEFINE conv == MergeSummary(SummaryAt(history, answer.k), db.conv)
<1>1. answer # None /\ answer.kind = "direct" /\ answer' = None
      /\ UNCHANGED <<history, head, applied, lanes, load, catalog>>
      /\ db' = [db EXCEPT !.conv = conv]
  BY DEF AnswerDirect
<1>2. SummaryAt(history, answer.k) \in Summary /\ db \in Dbs /\ DeadReserved(db.rows, db.reserved)
  <2>1. AnswerOK(history, head, answer) /\ StoreOK(history, head, db)
        /\ head \in 0..Len(history) /\ Len(history) \in Nat /\ history \in Histories
    BY <1>1, LogLength DEF IInv
  <2>2. answer.k \in 1..Len(history) /\ history[answer.k].kind # "direct"
    <3>1. answer.k \in 1..Len(history)
      BY <2>1 DEF AnswerOK
    <3> QED
      BY <2>1, <3>1, Logged DEF Event
  <2>3. SummaryAt(history, answer.k) # None
    BY <1>1, <2>1, <2>2 DEF AnswerOK
  <2>4. answer.k \in 0..Len(history)
    BY <2>1, <2>2
  <2> QED
    BY <2>1, <2>3, <2>4, SummaryTyped DEF StoreOK
<1>3. conv \in Summary
  <2>1. db.conv = None \/ db.conv \in Summary
    BY <1>2 DEF Dbs
  <2> QED
    BY <1>2, <2>1, ProjectionsTyped DEF MergeSummary
<1> HIDE DEF conv
<1>4. db' \in Dbs /\ db'.rows = db.rows /\ db'.reserved = db.reserved /\ db'.cursor = db.cursor
      /\ db'.marker = db.marker /\ db'.known = db.known /\ db'.conv # None
  BY <1>1, <1>2, <1>3, NoneIsNoSummary DEF Dbs
<1>5. StoreOK(history, head, db') /\ \A l \in Lane : LaneOK(history, head, db', lanes[l])
  BY <1>2, <1>4, ContentKept
<1> QED
  BY <1>1, <1>5 DEF IInv

LEMMA StageMetadataPageKeeps == IInv /\ StageMetadataPage => IInv'
<1> SUFFICES ASSUME IInv, StageMetadataPage PROVE IInv'
  OBVIOUS
<1> DEFINE conv == ReserveSummary(SummaryAt(history, catalog.at), db.reserved)
<1>1. catalog # None /\ SummaryAt(history, catalog.at) # None
      /\ UNCHANGED <<history, head, applied, lanes, load, catalog, answer>>
      /\ db' = [db EXCEPT !.conv = conv]
  BY DEF StageMetadataPage
<1>2. SummaryAt(history, catalog.at) \in Summary /\ db \in Dbs /\ DeadReserved(db.rows, db.reserved)
  <2>1. CatalogOK(head, catalog) /\ StoreOK(history, head, db)
        /\ head \in 0..Len(history) /\ Len(history) \in Nat /\ history \in Histories
    BY <1>1, LogLength DEF IInv
  <2>2. catalog.at \in 0..Len(history)
    BY <2>1 DEF CatalogOK, Catalogs
  <2> QED
    BY <1>1, <2>1, <2>2, SummaryTyped DEF StoreOK
<1>3. conv \in Summary
  BY <1>2, ProjectionsTyped
<1> HIDE DEF conv
<1>4. db' \in Dbs /\ db'.rows = db.rows /\ db'.reserved = db.reserved /\ db'.cursor = db.cursor
      /\ db'.marker = db.marker /\ db'.known = db.known /\ db'.conv # None
  BY <1>1, <1>2, <1>3, NoneIsNoSummary DEF Dbs
<1>5. StoreOK(history, head, db') /\ \A l \in Lane : LaneOK(history, head, db', lanes[l])
  BY <1>2, <1>4, ContentKept
<1> QED
  BY <1>1, <1>5 DEF IInv

-----------------------------------------------------------------------------
(* Commits that move the cursor or the repair marker.                      *)

LEMMA StageMembershipRepairKeeps == \A l \in Lane : IInv /\ StageMembershipRepair(l) => IInv'
<1> SUFFICES ASSUME NEW l \in Lane, IInv, StageMembershipRepair(l) PROVE IInv'
  OBVIOUS
<1> DEFINE n == NextEvent(l)
<1>1. Turn(l) /\ db' = [db EXCEPT !.marker = n] /\ lanes' = AllIdle
      /\ load' = None /\ catalog' = None /\ answer' = None /\ UNCHANGED <<history, head, applied>>
  BY DEF StageMembershipRepair
<1>2. n \in 1..head /\ n \in Nat \ {0} /\ head \in Nat
  BY <1>1, FirstUpcoming, LogLength DEF IInv
<1>3. db \in Dbs /\ StoreOK(history, head, db)
  BY DEF IInv, StoreOK
<1> HIDE DEF n
<1>4. db' \in Dbs /\ db'.marker = n /\ db'.cursor = db.cursor /\ db'.known = db.known
      /\ db'.rows = db.rows /\ db'.reserved = db.reserved
  BY <1>1, <1>2, <1>3 DEF Dbs
<1>5. StoreOK(history, head, db')
  BY <1>2, <1>3, <1>4 DEF StoreOK
<1>6. lanes' \in [Lane -> LaneRecords] /\ \A k \in Lane : LaneOK(history, head, db', lanes'[k])
  BY <1>1, LanesIdle
<1> QED
  BY <1>1, <1>5, <1>6 DEF IInv

(* Finishing a repair moves the cursor on and never back. *)
LEMMA RepairFinished ==
  ASSUME NEW h, NEW hd \in Nat, NEW d, StoreOK(h, hd, d)
  PROVE  /\ Finished(d) \in Dbs /\ StoreOK(h, hd, Finished(d))
         /\ d.cursor <= Finished(d).cursor /\ Finished(d).marker = d.marker
         /\ d.cursor # NoCursor => Finished(d).cursor # NoCursor
<1>1. d \in Dbs /\ d.cursor \in Int /\ d.marker \in Nat /\ d.cursor \in Nat \cup {NoCursor}
  BY DEF StoreOK, Dbs, NoCursor
<1>2. CASE d.marker = 0
  BY <1>1, <1>2 DEF Finished
<1>3. CASE d.marker # 0
  <2> DEFINE cursor == IF d.marker > d.cursor THEN d.marker ELSE d.cursor
             coll == [c \in Collection |-> Unloaded]
             known == d.known \cup {d.marker}
             kept == [d EXCEPT !.known = known, !.cursor = cursor, !.coll = coll]
             queued == IF d.queued = "none" THEN d.queued ELSE "failed"
             anchor == [m \in Message |-> 0]
             purged == [kept EXCEPT !.conv = None, !.rows = EmptyRows, !.reacts = {}, !.task = 0,
                                    !.anchor = anchor, !.queued = queued]
  <2>1. Max({d.cursor, d.marker}) = cursor
    BY <1>1, LargerOfTwo
  <2>2. cursor \in Nat /\ d.cursor <= cursor /\ d.marker <= cursor /\ cursor <= hd
    BY <1>1, <1>3 DEF StoreOK, NoCursor
  <2>3. coll \in [Collection -> [loaded : BOOLEAN, at : Nat, stale : Nat]]
        /\ known \in SUBSET Nat /\ queued \in {"none", "pending", "failed"}
        /\ anchor \in [Message -> Nat] /\ EmptyRows \in Rows
    BY <1>1 DEF Unloaded, Dbs, EmptyRows, Rows
  <2>4. \A k \in known : k <= cursor
    <3>1. \A k \in d.known : k \in Nat /\ k <= d.cursor
      BY <1>1 DEF StoreOK, Dbs
    <3> QED
      BY <1>1, <2>2, <3>1
  <2>5. Finished(d) \in {kept, purged}
    BY <1>3, <2>1 DEF Finished
  <2> HIDE DEF cursor, coll, known, queued, anchor, kept, purged
  <2>6. kept \in Dbs /\ kept.marker = d.marker /\ kept.cursor = cursor /\ kept.known = known
        /\ kept.rows = d.rows /\ kept.reserved = d.reserved /\ kept.queued = d.queued
    BY <1>1, <2>2, <2>3 DEF kept, Dbs
  <2>7. purged \in Dbs /\ purged.marker = d.marker /\ purged.cursor = cursor
        /\ purged.known = known /\ purged.rows = EmptyRows /\ purged.reserved = d.reserved
    BY <2>3, <2>6 DEF purged, Dbs
  <2>8. DeadReserved(kept.rows, kept.reserved) /\ DeadReserved(purged.rows, purged.reserved)
    BY <2>6, <2>7 DEF StoreOK, DeadReserved, EmptyRows
  <2>9. StoreOK(h, hd, kept) /\ StoreOK(h, hd, purged)
    BY <1>3, <2>2, <2>4, <2>6, <2>7, <2>8 DEF StoreOK
  <2> QED
    BY <2>2, <2>5, <2>6, <2>7, <2>9 DEF NoCursor
<1> QED
  BY <1>2, <1>3

LEMMA RepairFinishesKeep == IInv /\ (FinishMembershipRepair \/ Restart) => IInv'
<1> SUFFICES ASSUME IInv, FinishMembershipRepair \/ Restart PROVE IInv'
  OBVIOUS
<1>1. db' = Finished(db) /\ UNCHANGED <<history, head, lanes, load, catalog, answer>>
      /\ applied' \in {applied, db'.cursor}
  BY DEF FinishMembershipRepair, Restart
<1>2. head \in Nat /\ StoreOK(history, head, db)
  BY LogLength DEF IInv
<1>3. db' \in Dbs /\ StoreOK(history, head, db') /\ db.cursor <= db'.cursor
      /\ db'.marker = db.marker /\ (db.cursor # NoCursor => db'.cursor # NoCursor)
  BY <1>1, <1>2, RepairFinished
<1>4. lanes' \in [Lane -> LaneRecords] /\ \A l \in Lane : LaneOK(history', head', db', lanes'[l])
  BY <1>1, <1>3, LanesKept
<1>5. applied' \in Nat \cup {NoCursor} /\ applied' <= head
  BY <1>1, <1>3 DEF IInv, StoreOK, Dbs
<1> QED
  BY <1>1, <1>3, <1>4, <1>5 DEF IInv

LEMMA FreshLane ==
  ASSUME NEW c \in Nat
  PROVE  LET fresh == [Idle EXCEPT !.on = TRUE, !.next = c + 1]
         IN /\ fresh \in LaneRecords /\ fresh.on /\ fresh.next = c + 1 /\ fresh.target = 0
            /\ fresh.try = None
<1>1. c + 1 \in Nat \ {0}
  OBVIOUS
<1> QED
  BY <1>1 DEF Idle, LaneRecords

(* The end of a catch-up passes only what the member does not see. *)
LEMMA FinishSyncKeeps == IInv /\ FinishSync => IInv'
<1> SUFFICES ASSUME IInv, FinishSync PROVE IInv'
  OBVIOUS
<1> DEFINE r == lanes["sync"]
           target == lanes["sync"].target
           c == Max({target, db.cursor})
           live == lanes["live"]
           fresh == [Idle EXCEPT !.on = TRUE, !.next = c + 1]
           next == IF live.on THEN live ELSE fresh
<1>1. r.on /\ Upcoming("sync") = {} /\ db' = [db EXCEPT !.cursor = c]
      /\ lanes' = [AllIdle EXCEPT !["live"] = next]
      /\ applied' = (IF live.on THEN Max({target, applied}) ELSE c)
      /\ UNCHANGED <<history, head, load, catalog, answer>>
  BY DEF FinishSync
<1>2. r \in LaneRecords /\ LaneOK(history, head, db, r) /\ live \in LaneRecords
      /\ LaneOK(history, head, db, live) /\ head \in Nat /\ StoreOK(history, head, db)
      /\ applied \in Int /\ applied \in Nat \cup {NoCursor} /\ applied <= head
  BY LogLength DEF IInv, Lane, NoCursor
<1>3. db \in Dbs /\ db.marker = 0 /\ db.cursor \in Nat /\ db.cursor # NoCursor
      /\ target \in Nat /\ target <= head /\ Passed(history, db.cursor, r.next) /\ db.cursor <= head
      /\ r.next \in Nat
  BY <1>1, <1>2 DEF LaneOK, StoreOK, Dbs, LaneRecords, NoCursor
<1>4. c = IF db.cursor > target THEN db.cursor ELSE target
  BY <1>3, LargerOfTwo
<1>5. c \in Nat /\ db.cursor <= c /\ c <= head /\ c # NoCursor
  BY <1>3, <1>4 DEF NoCursor
<1>6. \A q \in (db.cursor + 1)..target : ~Delivered(history, q)
  <2> TAKE q \in (db.cursor + 1)..target
  <2>1. CASE q < r.next
    BY <1>3, <2>1 DEF Passed
  <2>2. CASE ~(q < r.next)
    BY <1>1, <1>3, <2>2 DEF Upcoming
  <2> QED
    BY <2>1, <2>2
<1> HIDE DEF c
<1>7. db' \in Dbs /\ db'.cursor = c /\ db'.marker = 0 /\ db'.known = db.known
      /\ db'.conv = db.conv /\ db'.rows = db.rows /\ db'.reserved = db.reserved
  BY <1>1, <1>3, <1>5 DEF Dbs
<1>8. ServerAt[history][c].member => db.conv # None
  <2>1. CASE c = db.cursor
    BY <1>2, <1>3, <2>1 DEF StoreOK
  <2>2. CASE c # db.cursor
    <3>1. c = target /\ c \in (db.cursor + 1)..target
      BY <1>3, <1>4, <2>2
    <3> QED
      BY <1>6, <3>1 DEF Delivered
  <2> QED
    BY <2>1, <2>2
<1>9. StoreOK(history, head, db')
  <2>1. \A k \in db.known : k <= c
    <3>1. \A k \in db.known : k \in Nat /\ k <= db.cursor
      BY <1>2 DEF StoreOK, Dbs
    <3> QED
      BY <1>3, <1>5, <3>1
  <2> QED
    BY <1>2, <1>3, <1>5, <1>7, <1>8, <2>1 DEF StoreOK
<1>10. next \in LaneRecords /\ LaneOK(history, head, db', next)
  <2>1. LaneOK(history, head, db', live)
    <3>1. live.on => db'.marker = 0
      BY <1>7
    <3> QED
      BY <1>2, <1>3, <1>5, <1>7, <3>1, LaneKept
  <2>2. fresh \in LaneRecords /\ fresh.on /\ fresh.next = c + 1 /\ fresh.target = 0
        /\ fresh.try = None
    BY <1>5, FreshLane
  <2> HIDE DEF fresh
  <2>3. LaneOK(history, head, db', fresh)
    BY <1>2, <1>5, <1>7, <2>2 DEF LaneOK, Passed
  <2> QED
    BY <1>2, <2>1, <2>2, <2>3
<1> HIDE DEF next
<1>11. lanes' \in [Lane -> LaneRecords] /\ \A l \in Lane : LaneOK(history, head, db', lanes'[l])
  BY <1>1, <1>10, LanesIdle DEF Lane
<1>12. applied' \in Nat \cup {NoCursor} /\ applied' <= head
  <2>1. Max({target, applied}) = IF applied > target THEN applied ELSE target
    BY <1>2, <1>3, LargerOfTwo
  <2>2. CASE live.on
    BY <1>1, <1>2, <1>3, <2>1, <2>2
  <2>3. CASE ~live.on
    BY <1>1, <1>5, <2>3
  <2> QED
    BY <2>2, <2>3
<1> QED
  BY <1>1, <1>9, <1>11, <1>12 DEF IInv

LEMMA ResyncKeeps == IInv /\ Resync => IInv'
<1> SUFFICES ASSUME IInv, Resync PROVE IInv'
  OBVIOUS
<1>1. db' = [EmptyDb EXCEPT !.reserved = db.reserved, !.queued = db.queued]
      /\ applied' = NoCursor /\ lanes' = AllIdle /\ UNCHANGED <<history, head, load, catalog, answer>>
  BY DEF Resync
<1>2. db \in Dbs /\ db.reserved \in SUBSET Message /\ db.queued \in {"none", "pending", "failed"}
      /\ head \in Nat
  BY LogLength, SMTT(30) DEF IInv, StoreOK, Dbs
<1>3. db' \in Dbs
  BY <1>1, <1>2, EmptyDbTyped
<1>4. db'.cursor = NoCursor /\ db'.marker = 0 /\ db'.known = {} /\ db'.rows = EmptyRows
  BY <1>1 DEF EmptyDb
<1>5. StoreOK(history, head, db')
  BY <1>2, <1>3, <1>4 DEF StoreOK, NoCursor, DeadReserved, EmptyRows
<1>6. lanes' \in [Lane -> LaneRecords] /\ \A k \in Lane : LaneOK(history, head, db', lanes'[k])
  BY <1>1, LanesIdle
<1> QED
  BY <1>1, <1>2, <1>5, <1>6 DEF IInv, NoCursor

(* A complete catalog lists a member's conversation, or removes its rows. *)
LEMMA CatalogWritten ==
  ASSUME IInv, NEW p \in 0..Len(history)
  PROVE  /\ CatalogWrite(p) \in Dbs
         /\ CatalogWrite(p).cursor = db.cursor /\ CatalogWrite(p).marker = db.marker
         /\ CatalogWrite(p).known = db.known
         /\ DeadReserved(CatalogWrite(p).rows, CatalogWrite(p).reserved)
         /\ ServerAt[history][p].member => CatalogWrite(p).conv # None
<1> DEFINE conv == ReserveSummary(SummaryAt(history, p), db.reserved)
           kept == [db EXCEPT !.conv = conv]
           anchor == [m \in Message |-> 0]
           coll == [c \in Collection |-> Unloaded]
           queued == IF kept.queued = "none" THEN kept.queued ELSE "failed"
           purged == [kept EXCEPT !.rows = EmptyRows, !.reacts = {}, !.task = 0,
                                  !.anchor = anchor, !.coll = coll, !.queued = queued]
<1>1. db \in Dbs /\ DeadReserved(db.rows, db.reserved) /\ history \in Histories
  BY DEF IInv, StoreOK
<1>2. SummaryAt(history, p) \in Summary \cup {None}
      /\ (SummaryAt(history, p) = None) = ~ServerAt[history][p].member
  BY <1>1, SummaryTyped
<1>3. conv \in Summary \cup {None} /\ (SummaryAt(history, p) # None => conv # None)
  BY <1>2, ProjectionsTyped, NoneIsNoSummary DEF ReserveSummary
<1>4. ServerAt[history][p].member => conv # None
  BY <1>2, <1>3
<1>5. CatalogWrite(p) = IF conv # None THEN kept ELSE purged
  BY DEF CatalogWrite
<1> HIDE DEF conv
<1>6. kept \in Dbs /\ kept.cursor = db.cursor /\ kept.marker = db.marker /\ kept.known = db.known
      /\ kept.rows = db.rows /\ kept.reserved = db.reserved /\ kept.conv = conv
  BY <1>1, <1>3 DEF Dbs
<1> HIDE DEF kept
<1>7. coll \in [Collection -> [loaded : BOOLEAN, at : Nat, stale : Nat]]
      /\ queued \in {"none", "pending", "failed"} /\ anchor \in [Message -> Nat]
      /\ EmptyRows \in Rows
  BY <1>6 DEF Unloaded, Dbs, EmptyRows, Rows
<1> HIDE DEF coll, queued, anchor
<1>8. purged \in Dbs /\ purged.cursor = db.cursor /\ purged.marker = db.marker
      /\ purged.known = db.known /\ purged.rows = EmptyRows /\ purged.reserved = db.reserved
      /\ purged.conv = conv
  BY <1>6, <1>7 DEF Dbs
<1> HIDE DEF purged
<1>9. DeadReserved(EmptyRows, db.reserved)
  BY DEF DeadReserved, EmptyRows
<1>10. CASE conv # None
  BY <1>1, <1>5, <1>6, <1>10
<1>11. CASE conv = None
  BY <1>4, <1>5, <1>8, <1>9, <1>11
<1> QED
  BY <1>10, <1>11

LEMMA InstallCatalogKeeps == IInv /\ InstallCatalog => IInv'
<1> SUFFICES ASSUME IInv, InstallCatalog PROVE IInv'
  OBVIOUS
<1> DEFINE p == catalog.at
           w == CatalogWrite(p)
           coll == InvalidateOlder(w.coll, p)
<1>1. catalog # None /\ catalog' = None /\ UNCHANGED <<history, head, lanes, load, answer>>
  BY DEF InstallCatalog
<1>2. p \in Nat /\ p <= head /\ head \in Nat /\ head <= Len(history) /\ p \in 0..Len(history)
  BY <1>1, LogLength DEF IInv, CatalogOK, Catalogs
<1>3. StoreOK(history, head, db) /\ db \in Dbs
  BY DEF IInv, StoreOK
<1>4. CASE CanWrite(p, "bootstrap")
  <2>1. w \in Dbs /\ w.cursor = db.cursor /\ w.marker = db.marker /\ w.known = db.known
        /\ DeadReserved(w.rows, w.reserved)
        /\ (ServerAt[history][p].member => w.conv # None)
    BY <1>2, CatalogWritten
  <2>2. db' = [w EXCEPT !.cursor = p, !.marker = 0, !.coll = coll] /\ applied' = p
    BY <1>4 DEF InstallCatalog
  <2>3. db.cursor <= p
    BY <1>4 DEF CanWrite
  <2> HIDE DEF w
  <2>4. coll \in [Collection -> [loaded : BOOLEAN, at : Nat, stale : Nat]]
    BY <1>2, <2>1 DEF InvalidateOlder, Dbs
  <2> HIDE DEF p, coll
  <2>5. db' \in Dbs /\ db'.cursor = p /\ db'.marker = 0 /\ db'.known = w.known
        /\ db'.conv = w.conv /\ db'.rows = w.rows /\ db'.reserved = w.reserved
    BY <1>2, <2>1, <2>2, <2>4 DEF Dbs
  <2>6. \A k \in db'.known : k <= db'.cursor
    <3>1. \A k \in db.known : k \in Nat /\ k <= db.cursor
      BY <1>3 DEF StoreOK, Dbs
    <3>2. db.cursor \in Int
      BY <1>3 DEF Dbs, NoCursor
    <3> QED
      BY <1>2, <2>1, <2>3, <2>5, <3>1, <3>2
  <2>7. StoreOK(history, head, db')
    BY <1>2, <2>1, <2>5, <2>6 DEF StoreOK
  <2>8. lanes' \in [Lane -> LaneRecords] /\ \A l \in Lane : LaneOK(history', head', db', lanes'[l])
    <3>1. db.cursor <= db'.cursor /\ db'.cursor # NoCursor
      BY <1>2, <2>3, <2>5 DEF NoCursor
    <3> QED
      BY <1>1, <2>5, <3>1, LanesKept
  <2> QED
    BY <1>1, <1>2, <2>2, <2>7, <2>8 DEF IInv, p
<1>5. CASE ~CanWrite(p, "bootstrap")
  <2>1. db' = db /\ applied' = db.cursor
    BY <1>5 DEF InstallCatalog
  <2>2. applied' \in Nat \cup {NoCursor} /\ applied' <= head
    BY <1>3, <2>1 DEF StoreOK, Dbs
  <2> QED
    BY <1>1, <2>1, <2>2 DEF IInv
<1> QED
  BY <1>4, <1>5

LEMMA RefreshMetadataKeeps == IInv /\ RefreshMetadata => IInv'
<1> SUFFICES ASSUME IInv, RefreshMetadata PROVE IInv'
  OBVIOUS
<1> DEFINE p == catalog.at
           w == CatalogWrite(p)
<1>1. catalog # None /\ catalog' = None /\ db.marker = 0
      /\ UNCHANGED <<history, head, applied, lanes, load, answer>>
  BY DEF RefreshMetadata
<1>2. p \in Nat /\ p \in 0..Len(history)
  BY <1>1, LogLength DEF IInv, CatalogOK, Catalogs
<1>3. StoreOK(history, head, db)
  BY DEF IInv
<1>4. CASE CanWrite(p, "refresh")
  <2>1. w \in Dbs /\ w.cursor = db.cursor /\ w.marker = db.marker /\ w.known = db.known
        /\ DeadReserved(w.rows, w.reserved)
        /\ (ServerAt[history][p].member => w.conv # None)
    BY <1>2, CatalogWritten
  <2>2. db' = w /\ db.cursor = p
    BY <1>4 DEF RefreshMetadata, CanWrite
  <2> HIDE DEF w
  <2>3. StoreOK(history, head, db')
    BY <1>3, <2>1, <2>2 DEF StoreOK
  <2>4. db.cursor \in Int /\ db.cursor <= db'.cursor
    BY <1>2, <2>1, <2>2
  <2>5. lanes' \in [Lane -> LaneRecords] /\ \A l \in Lane : LaneOK(history', head', db', lanes'[l])
    BY <1>1, <2>1, <2>2, <2>4, LanesKept
  <2> QED
    BY <1>1, <2>3, <2>5 DEF IInv
<1>5. CASE ~CanWrite(p, "refresh")
  <2>1. db' = db
    BY <1>5 DEF RefreshMetadata
  <2> QED
    BY <1>1, <2>1 DEF IInv
<1> QED
  BY <1>4, <1>5

LEMMA CommitSentKeeps == IInv /\ CommitSent => IInv'
<1> SUFFICES ASSUME IInv, CommitSent PROVE IInv'
  OBVIOUS
<1> DEFINE m == history[answer.k].message
           base == answer.base
           c == Max({db.cursor, base.applied})
           rows == [db.rows EXCEPT ![m] = Reserved(m, "live", base.reserved)]
<1>1. answer # None /\ answer.kind = "created" /\ base # None
      /\ UNCHANGED <<history, head, applied, lanes, load, catalog>>
  BY DEF CommitSent
<1>2. AnswerOK(history, head, answer) /\ StoreOK(history, head, db) /\ db \in Dbs
      /\ head \in 0..Len(history) /\ Len(history) \in Nat /\ history \in Histories
  BY <1>1, LogLength DEF IInv, StoreOK
<1>3. m \in Message /\ base \in Sends /\ base.applied \in Nat /\ base.applied <= head
  <2>1. answer.k \in 1..Len(history) /\ answer.kind = history[answer.k].kind
    BY <1>1, <1>2 DEF AnswerOK
  <2>2. m \in Message
    BY <1>1, <1>2, <2>1, Logged DEF OfMessage
  <2> QED
    BY <1>1, <1>2, <2>2 DEF AnswerOK, Answers, Sends
<1>4. CASE answer' = [answer EXCEPT !.base = None] /\ db' = db
  <2>1. AnswerOK(history, head, answer')
    BY <1>2, <1>4 DEF AnswerOK, Answers
  <2> QED
    BY <1>1, <1>4, <2>1 DEF IInv
<1>5. CASE answer' = None /\ db' = db
  BY <1>1, <1>5 DEF IInv
<1>6. CASE /\ base.reserved = db.reserved /\ answer' = None /\ db.conv # None /\ db.marker = 0
           /\ db' = [db EXCEPT !.rows[m] = Reserved(m, "live", base.reserved),
                               !.queued = "none", !.cursor = Max({@, base.applied})]
  <2>1. rows \in Rows /\ DeadReserved(rows, db.reserved)
    BY <1>2, <1>3, <1>6 DEF Rows, Reserved, DeadReserved, StoreOK, Dbs
  <2>2. c \in Nat /\ db.cursor <= c /\ c <= head
    <3>1. db.cursor \in Int /\ db.cursor \in Nat \cup {NoCursor} /\ db.cursor <= head
      BY <1>2 DEF StoreOK, Dbs, NoCursor
    <3>2. c = IF base.applied > db.cursor THEN base.applied ELSE db.cursor
      BY <1>3, <3>1, LargerOfTwo
    <3> QED
      BY <1>3, <3>1, <3>2 DEF NoCursor
  <2>3. db' = [db EXCEPT !.rows = rows, !.queued = "none", !.cursor = c]
    BY <1>6
  <2> HIDE DEF rows, c
  <2>4. db' \in Dbs /\ db'.cursor = c /\ db'.marker = 0 /\ db'.known = db.known
        /\ db'.conv = db.conv /\ db'.rows = rows /\ db'.reserved = db.reserved
    BY <1>2, <1>6, <2>1, <2>2, <2>3, ZenonT(40) DEF Dbs
  <2>5. \A k \in db'.known : k <= db'.cursor
    <3>1. \A k \in db.known : k \in Nat /\ k <= db.cursor
      BY <1>2 DEF StoreOK, Dbs
    <3>2. db.cursor \in Int
      BY <1>2 DEF Dbs, NoCursor
    <3> QED
      BY <2>2, <2>4, <3>1, <3>2
  <2>6. StoreOK(history, head, db')
    BY <1>2, <1>6, <2>1, <2>2, <2>4, <2>5 DEF StoreOK
  <2>7. lanes' \in [Lane -> LaneRecords] /\ \A l \in Lane : LaneOK(history', head', db', lanes'[l])
    <3>1. db.cursor <= db'.cursor /\ db'.cursor # NoCursor
      BY <2>2, <2>4 DEF NoCursor
    <3> QED
      BY <1>1, <2>4, <3>1, LanesKept
  <2> QED
    BY <1>1, <1>6, <2>6, <2>7 DEF IInv
<1> QED
  BY <1>4, <1>5, <1>6 DEF CommitSent

LEMMA CommitEventKeeps == \A l \in Lane : IInv /\ CommitEvent(l) => IInv'
<1> SUFFICES ASSUME NEW l \in Lane, IInv, CommitEvent(l) PROVE IInv'
  OBVIOUS
<1> DEFINE try == lanes[l].try
           n == lanes[l].try.n
<1>1. try # None /\ UNCHANGED <<history, head, applied, load, catalog, answer>>
  BY DEF CommitEvent
<1>2. lanes[l] \in LaneRecords /\ LaneOK(history, head, db, lanes[l]) /\ head \in 0..Len(history)
      /\ history \in Histories /\ Len(history) \in Nat /\ StoreOK(history, head, db) /\ db \in Dbs
      /\ lanes \in [Lane -> LaneRecords]
  BY LogLength DEF IInv, StoreOK
<1>3. lanes[l].on /\ TryOK(history, head, db, try) /\ try \in Tries /\ n \in Nat /\ n \in 1..head
      /\ db.cursor \in Int /\ db.cursor # NoCursor /\ db.marker = 0
  BY <1>1, <1>2 DEF LaneOK, TryOK, LaneRecords, Tries, Dbs, NoCursor
<1>4. CASE lanes' = [lanes EXCEPT ![l].try = None] /\ db' = db
  <2>1. lanes' \in [Lane -> LaneRecords]
    BY <1>2, <1>4 DEF LaneRecords
  <2>2. lanes'[l] = [lanes[l] EXCEPT !.try = None] /\ \A k \in Lane \ {l} : lanes'[k] = lanes[k]
    BY <1>2, <1>4
  <2>3. LaneOK(history, head, db, lanes'[l])
    BY <1>2, <2>2 DEF LaneOK, LaneRecords
  <2> QED
    BY <1>1, <1>4, <2>1, <2>2, <2>3 DEF IInv
<1>5. CASE lanes' = [lanes EXCEPT ![l].try = None, ![l].next = n + 1] /\ db' = db /\ ~Applicable(n)
  <2>1. lanes'[l] = [lanes[l] EXCEPT !.try = None, !.next = n + 1] /\ n + 1 \in Nat \ {0}
        /\ \A k \in Lane \ {l} : lanes'[k] = lanes[k]
    BY <1>2, <1>3, <1>5 DEF LaneRecords
  <2>2. lanes' \in [Lane -> LaneRecords]
    <3>1. lanes'[l] \in LaneRecords
      BY <1>2, <2>1 DEF LaneRecords
    <3> QED
      BY <1>2, <1>5, <3>1
  <2>3. n <= db.cursor
    BY <1>2, <1>3, <1>5 DEF Applicable, StoreOK
  <2>4. Passed(history, db.cursor, n + 1)
    BY <1>3, <2>3 DEF Passed
  <2> HIDE DEF n
  <2>5. LaneOK(history, head, db, lanes'[l])
    BY <1>2, <1>3, <2>1, <2>4 DEF LaneOK, LaneRecords
  <2> QED
    BY <1>1, <1>5, <2>1, <2>2, <2>5 DEF IInv
<1>6. CASE /\ ~ReservationsMoved(try) /\ Applicable(n)
           /\ db' = RecordEvent(EventWrite(try), n) /\ lanes' = [lanes EXCEPT ![l].try.written = TRUE]
  <2> DEFINE w == EventWrite(try)
  <2>1. w \in Dbs /\ w.marker = 0 /\ w.cursor = db.cursor /\ w.known = db.known /\ w.conv # None
        /\ DeadReserved(w.rows, w.reserved)
    BY <1>3, <1>6, EventWritten
  <2> HIDE DEF w
  <2>2. db' = [w EXCEPT !.cursor = n, !.known = @ \cup {n}, !.coll = Invalidate(@, history[n], n)]
    BY <1>6 DEF RecordEvent, w
  <2>3. db' \in Dbs /\ db'.cursor = n /\ db'.known = w.known \cup {n} /\ db'.marker = w.marker
        /\ db'.conv = w.conv /\ db'.rows = w.rows /\ db'.reserved = w.reserved
    <3> DEFINE coll == Invalidate(w.coll, history[n], n)
    <3>1. db' = [w EXCEPT !.cursor = n, !.known = w.known \cup {n}, !.coll = coll]
      BY <2>1, <2>2 DEF Dbs
    <3>2. coll \in [Collection -> [loaded : BOOLEAN, at : Nat, stale : Nat]]
      BY <1>3, <2>1 DEF Invalidate, Dbs
    <3> HIDE DEF n, coll
    <3>3. db' \in Dbs /\ db'.cursor = n /\ db'.known = w.known \cup {n}
      BY <1>3, <2>1, <3>1, <3>2 DEF Dbs
    <3>4. db'.marker = w.marker /\ db'.conv = w.conv /\ db'.rows = w.rows
          /\ db'.reserved = w.reserved
      BY <2>1, <3>1 DEF Dbs
    <3> QED
      BY <3>3, <3>4
  <2>4. db.cursor < n
    BY <1>6 DEF Applicable
  <2>5. \A k \in db'.known : k <= db'.cursor
    <3>1. \A k \in db.known : k \in Nat /\ k <= db.cursor
      BY <1>2 DEF StoreOK, Dbs
    <3> QED
      BY <1>3, <2>1, <2>3, <2>4, <3>1
  <2>6. StoreOK(history, head, db')
    BY <1>2, <1>3, <2>1, <2>3, <2>5 DEF StoreOK
  <2>7. \A k \in Lane : LaneOK(history, head, db', lanes[k])
    <3> TAKE k \in Lane
    <3>1. lanes[k] \in LaneRecords /\ LaneOK(history, head, db, lanes[k])
      BY DEF IInv
    <3>2. db.cursor <= db'.cursor /\ db'.cursor # NoCursor /\ db'.marker = 0 /\ head \in Nat
      BY <1>2, <1>3, <2>1, <2>3, <2>4 DEF NoCursor
    <3> QED
      BY <1>2, <2>3, <3>1, <3>2, LaneKept
  <2> DEFINE t == [try EXCEPT !.written = TRUE]
  <2>8. t \in Tries /\ t.n = n /\ t.rows = try.rows /\ t.reserved = try.reserved
    BY <1>3 DEF Tries
  <2>9. lanes'[l] = [lanes[l] EXCEPT !.try = t] /\ \A k \in Lane \ {l} : lanes'[k] = lanes[k]
    BY <1>2, <1>6 DEF LaneRecords
  <2>10. lanes' \in [Lane -> LaneRecords]
    <3> HIDE DEF t
    <3>1. lanes'[l] \in LaneRecords
      BY <1>2, <2>8, <2>9 DEF LaneRecords
    <3> QED
      BY <1>2, <1>6, <3>1
  <2>11. TryOK(history, head, db', t)
    <3>1. TryOK(history, head, db', try)
      BY <1>1, <2>7 DEF LaneOK
    <3> HIDE DEF t, n
    <3> QED
      BY <1>3, <2>3, <2>8, <3>1 DEF TryOK, n
  <2>12. LaneOK(history, head, db', lanes'[l])
    <3>1. LaneOK(history, head, db', lanes[l])
      BY <2>7
    <3> HIDE DEF t
    <3> QED
      BY <1>2, <1>3, <2>9, <2>11, <3>1 DEF LaneOK, LaneRecords
  <2> QED
    BY <1>1, <2>6, <2>7, <2>9, <2>10, <2>12 DEF IInv
<1> QED
  BY <1>4, <1>5, <1>6 DEF CommitEvent

-----------------------------------------------------------------------------
(* Nothing of the future is stored, tombstones are reserved, and an applier *)
(* holds the first event that the replica has not passed.                   *)
THEOREM ReplicaInductive == Spec => []IInv
<1>1. IInv /\ [Next]_vars => IInv'
  <2> SUFFICES ASSUME IInv, [Next]_vars PROVE IInv'
    OBVIOUS
  <2>1. CASE UNCHANGED vars
    BY <2>1 DEF vars, IInv
  <2>2. CASE Publish
    BY <2>2, PublishKeeps
  <2>3. ASSUME NEW l \in Lane,
               \/ ReadForEvent(l) \/ IgnoreEvent(l) \/ CommitEvent(l)
               \/ PublishCommitted(l) \/ StageMembershipRepair(l)
        PROVE  IInv'
    BY <2>3, ReadForEventKeeps, IgnoreEventKeeps, CommitEventKeeps, PublishCommittedKeeps,
      StageMembershipRepairKeeps
  <2>4. CASE FinishMembershipRepair \/ Crash \/ Restart
    BY <2>4, RepairFinishesKeep, CrashKeeps
  <2>5. CASE BeginSync \/ FinishSync \/ Redeliver \/ Resync
    BY <2>5, BeginSyncKeeps, FinishSyncKeeps, RedeliverKeeps, ResyncKeeps
  <2>6. CASE (\E mode \in {"bootstrap", "refresh"} : ReadCatalog(mode)) \/ CatalogFails
    BY <2>6, CatalogReadsKeep
  <2>7. CASE StageMetadataPage \/ InstallCatalog \/ RefreshMetadata
    BY <2>7, StageMetadataPageKeeps, InstallCatalogKeeps, RefreshMetadataKeeps
  <2>8. CASE (\E c \in Collection : BeginLoad(c)) \/ LoadAnswers \/ ReadForPage
    BY <2>8, BeginLoadKeeps, LoadAnswersKeeps, ReadForPageKeeps
  <2>9. CASE CommitHistory \/ CommitTasks
    BY <2>9, CommitHistoryKeeps, CommitTasksKeeps
  <2>10. CASE MutationAnswered \/ AnswerReaction \/ AnswerRetract \/ AnswerDirect
    BY <2>10, MutationAnsweredKeeps, AnswerReactionKeeps, AnswerRetractKeeps, AnswerDirectKeeps
  <2>11. CASE ReadForSent \/ CommitSent
    BY <2>11, ReadForSentKeeps, CommitSentKeeps
  <2> QED
    BY <2>1, <2>2, <2>3, <2>4, <2>5, <2>6, <2>7, <2>8, <2>9, <2>10, <2>11 DEF Next
<1> QED
  BY <1>1, InitialReplica, PTL DEF Spec

-----------------------------------------------------------------------------
(* Every commit is an operation of the atomic cache.                       *)

(* The rows as load() returns them. *)
Shown(rows, reserved) == [m \in Message |-> Reserved(m, rows[m], reserved)]

Record(cursor, marker, shown, rows, anchor, reacts, task, reserved, known, queued) ==
  [cursor |-> cursor, marker |-> marker, shown |-> shown, rows |-> rows, anchor |-> anchor,
   reacts |-> reacts, task |-> task, reserved |-> reserved, known |-> known, queued |-> queued]

Held(d) == d.conv # None

LEMMA StoreFields ==
  ASSUME NEW d
  PROVE  StoreOf(d) = Record(d.cursor, d.marker, Held(d), Shown(d.rows, d.reserved), d.anchor,
                             d.reacts, d.task, d.reserved, d.known, d.queued)
BY DEF StoreOf, Shown, Record, Held

LEMMA StoreView ==
  ASSUME NEW d
  PROVE  LET s == StoreOf(d)
         IN /\ s.cursor = d.cursor /\ s.marker = d.marker /\ s.shown = Held(d)
            /\ s.rows = Shown(d.rows, d.reserved) /\ s.anchor = d.anchor /\ s.reacts = d.reacts
            /\ s.task = d.task /\ s.reserved = d.reserved /\ s.known = d.known
            /\ s.queued = d.queued
BY StoreFields DEF Record

(* The rules of projection are the same in both caches. *)
LEMMA SameRules ==
  /\ Store!Message = Message /\ Store!EmptyRows = EmptyRows
  /\ \A current, incoming : Store!Preferred(current, incoming) = Preferred(current, incoming)
  /\ \A m, state, reserved : Store!Reserved(m, state, reserved) = Reserved(m, state, reserved)
  /\ \A reserved, rows : Store!ReserveTombstones(reserved, rows) = ReserveTombstones(reserved, rows)
  /\ \A current, incoming : Store!AcceptsTask(current, incoming) = AcceptsTask(current, incoming)
BY DEF Store!Message, Message, Store!EmptyRows, EmptyRows, Store!Preferred, Preferred,
  Store!Reserved, Reserved, Store!ReserveTombstones, ReserveTombstones, Store!AcceptsTask,
  AcceptsTask

LEMMA Simulated ==
  ASSUME history' = history,
         LET s == StoreOf(db)
             t == StoreOf(db')
             n0 == Len(history)
         IN \/ t = s
            \/ \E n \in 1..n0, sourced \in BOOLEAN :
                 Store!CanApply(s, n) /\ t = Store!Apply(s, n, sourced)
            \/ s.marker = 0 /\ t = Store!UpsertConversation(s)
            \/ \E n \in 1..n0 : Store!CanApply(s, n) /\ t = Store!StageRepair(s, n)
            \/ s.marker > 0 /\ t = Store!FinishRepair(s)
            \/ \E p \in 0..n0 :
                 \/ Store!CanWrite(s, p, "page") /\ t = Store!StagePage(s, p)
                 \/ Store!CanWrite(s, p, "refresh") /\ t = Store!ReplaceCatalog(s, p)
                 \/ Store!CanWrite(s, p, "bootstrap") /\ t = Store!Install(s, p)
                 \/ s.marker = 0 /\ t = Store!Advance(s, p)
            \/ \E k \in 1..n0, c \in 0..n0 :
                 Store!CanAcknowledge(s) /\ t = Store!Acknowledge(s, k, c)
            \/ \E k \in 1..n0 : s.shown /\ s.marker = 0 /\ t = Store!PutReaction(s, k)
            \/ \E id \in 1..n0 : t = Store!DropReaction(s, id)
            \/ \E v \in 0..n0 : s.shown /\ s.marker = 0 /\ t = Store!PutTask(s, v)
            \/ \E page \in Store!PagesOf[history], p \in 0..n0, reacted \in BOOLEAN :
                 Store!CanPutHistory(s, page, p, reacted) /\ t = Store!PutHistory(s, page, p, reacted)
            \/ s.marker = 0 /\ t = Store!Clear(s)
  PROVE  [Store!Next]_(Store!storeVars)
<1>1. StoreOf(db)' = StoreOf(db')
  BY DEF StoreOf
<1>2. CASE StoreOf(db') = StoreOf(db)
  BY <1>1, <1>2 DEF Store!storeVars
<1>3. CASE StoreOf(db') # StoreOf(db)
  BY <1>1, <1>3, Zenon DEF Store!Next
<1> QED
  BY <1>2, <1>3, SMTT(30)

LEMMA RepairStagedSimulated ==
  \A l \in Lane : IInv /\ StageMembershipRepair(l) => [Store!Next]_(Store!storeVars)
<1> SUFFICES ASSUME NEW l \in Lane, IInv, StageMembershipRepair(l)
             PROVE  [Store!Next]_(Store!storeVars)
  OBVIOUS
<1> DEFINE n == NextEvent(l)
           s == StoreOf(db)
<1>1. Turn(l) /\ db' = [db EXCEPT !.marker = n] /\ db.marker = 0 /\ Applicable(n)
      /\ UNCHANGED history
  BY DEF StageMembershipRepair
<1>2. n \in 1..Len(history) /\ db \in Dbs
  BY <1>1, FirstUpcoming, LogLength DEF IInv, StoreOK
<1>3. Store!CanApply(s, n)
  BY <1>1, StoreView DEF Store!CanApply, Applicable
<1> HIDE DEF n
<1>4. StoreOf(db') = Store!StageRepair(s, n)
  <2>1. Store!StageRepair(s, n)
          = Record(db.cursor, n, Held(db), Shown(db.rows, db.reserved), db.anchor,
                   db.reacts, db.task, db.reserved, db.known, db.queued)
    BY StoreFields DEF Store!StageRepair, Record
  <2>2. /\ db'.cursor = db.cursor /\ db'.marker = n /\ db'.conv = db.conv /\ db'.rows = db.rows
        /\ db'.anchor = db.anchor /\ db'.reacts = db.reacts /\ db'.task = db.task
        /\ db'.reserved = db.reserved /\ db'.known = db.known /\ db'.queued = db.queued
    BY <1>1, <1>2 DEF Dbs
  <2> QED
    BY <2>1, <2>2, StoreFields DEF Held
<1> HIDE DEF s
<1> QED
  BY <1>1, <1>2, <1>3, <1>4, Simulated DEF s

LEMMA NothingShown ==
  ASSUME NEW reserved
  PROVE  Shown(EmptyRows, reserved) = EmptyRows
BY DEF Shown, EmptyRows, Reserved

LEMMA FinishSyncSimulated == IInv /\ FinishSync => [Store!Next]_(Store!storeVars)
<1> SUFFICES ASSUME IInv, FinishSync PROVE [Store!Next]_(Store!storeVars)
  OBVIOUS
<1> DEFINE s == StoreOf(db)
           target == lanes["sync"].target
           c == Max({target, db.cursor})
<1>1. lanes["sync"].on /\ db' = [db EXCEPT !.cursor = c] /\ UNCHANGED history
  BY DEF FinishSync
<1>2. db \in Dbs /\ db.marker = 0 /\ target \in Nat /\ target \in 0..Len(history)
      /\ db.cursor \in Int
  <2>1. lanes["sync"] \in LaneRecords /\ LaneOK(history, head, db, lanes["sync"])
        /\ head \in 0..Len(history) /\ StoreOK(history, head, db)
    BY DEF IInv, Lane
  <2> QED
    BY <1>1, <2>1, LogLength DEF LaneOK, StoreOK, Dbs, LaneRecords, NoCursor, IInv
<1>3. c = IF target > db.cursor THEN target ELSE db.cursor
  BY <1>2, LargerOfTwo
<1> HIDE DEF c, target
<1>4. StoreOf(db') = Store!Advance(s, target)
  <2>1. Store!Advance(s, target)
          = Record(c, db.marker, Held(db), Shown(db.rows, db.reserved), db.anchor,
                   db.reacts, db.task, db.reserved, db.known, db.queued)
    BY <1>3, StoreFields DEF Store!Advance, Record
  <2>2. /\ db'.cursor = c /\ db'.marker = db.marker /\ db'.conv = db.conv /\ db'.rows = db.rows
        /\ db'.anchor = db.anchor /\ db'.reacts = db.reacts /\ db'.task = db.task
        /\ db'.reserved = db.reserved /\ db'.known = db.known /\ db'.queued = db.queued
    BY <1>1, <1>2 DEF Dbs
  <2> QED
    BY <2>1, <2>2, StoreFields DEF Held
<1>5. s.marker = 0
  BY <1>2, StoreView
<1> HIDE DEF s
<1> QED
  BY <1>1, <1>2, <1>4, <1>5, Simulated DEF s

LEMMA ResyncSimulated == IInv /\ Resync => [Store!Next]_(Store!storeVars)
<1> SUFFICES ASSUME IInv, Resync PROVE [Store!Next]_(Store!storeVars)
  OBVIOUS
<1> DEFINE s == StoreOf(db)
<1>1. db' = [EmptyDb EXCEPT !.reserved = db.reserved, !.queued = db.queued] /\ db.marker = 0
      /\ UNCHANGED history
  BY DEF Resync
<1>2. StoreOf(db') = Store!Clear(s)
  <2> DEFINE anchor == [m \in Message |-> 0]
             shown == FALSE
  <2>1. Store!Clear(s) = Record(NoCursor, 0, shown, EmptyRows, anchor, {}, 0,
                                db.reserved, {}, db.queued)
    <3>1. s.reserved = db.reserved /\ s.queued = db.queued
      BY StoreView
    <3>2. Store!EmptyStore = Record(NoCursor, 0, shown, EmptyRows, anchor, {}, 0, {}, {}, "none")
      BY SameRules DEF Store!EmptyStore, Record, Store!NoCursor, NoCursor
    <3> HIDE DEF s, anchor, shown
    <3>3. Store!Clear(s) = [Store!EmptyStore EXCEPT !.reserved = db.reserved, !.queued = db.queued]
      BY <3>1 DEF Store!Clear
    <3> QED
      BY <3>2, <3>3 DEF Record
  <2>2. /\ db'.cursor = NoCursor /\ db'.marker = 0 /\ db'.conv = None /\ db'.rows = EmptyRows
        /\ db'.anchor = anchor /\ db'.reacts = {} /\ db'.task = 0
        /\ db'.reserved = db.reserved /\ db'.known = {} /\ db'.queued = db.queued
    BY <1>1 DEF EmptyDb
  <2>3. Held(db') = shown /\ Shown(db'.rows, db'.reserved) = EmptyRows
    BY <2>2, NothingShown DEF Held
  <2> HIDE DEF anchor, shown
  <2> QED
    BY <2>1, <2>2, <2>3, StoreFields
<1>3. s.marker = 0
  BY <1>1, StoreView
<1> HIDE DEF s
<1> QED
  BY <1>1, <1>2, <1>3, Simulated DEF s

LEMMA StageMetadataPageSimulated == IInv /\ StageMetadataPage => [Store!Next]_(Store!storeVars)
<1> SUFFICES ASSUME IInv, StageMetadataPage PROVE [Store!Next]_(Store!storeVars)
  OBVIOUS
<1> DEFINE s == StoreOf(db)
           p == catalog.at
           conv == ReserveSummary(SummaryAt(history, p), db.reserved)
<1>1. /\ catalog # None /\ CanWrite(p, "page") /\ SummaryAt(history, p) # None
      /\ db' = [db EXCEPT !.conv = conv] /\ UNCHANGED history
  BY DEF StageMetadataPage
<1>2. db \in Dbs /\ p \in 0..Len(history) /\ history \in Histories
  <2>1. CatalogOK(head, catalog)
    BY <1>1 DEF IInv
  <2> QED
    BY <2>1, LogLength DEF IInv, CatalogOK, Catalogs, StoreOK
<1>3. conv # None
  BY <1>1, <1>2, SummaryTyped, ProjectionsTyped, NoneIsNoSummary
<1>4. Store!CanWrite(s, p, "page")
  BY <1>1, StoreView DEF Store!CanWrite, CanWrite
<1> HIDE DEF conv
<1>5. StoreOf(db') = Store!StagePage(s, p)
  <2>1. (s.shown \/ Store!SummaryAt(history, p) # None) = TRUE
    BY <1>1, SamePages
  <2>2. Store!StagePage(s, p)
          = Record(db.cursor, db.marker, TRUE, Shown(db.rows, db.reserved), db.anchor,
                   db.reacts, db.task, db.reserved, db.known, db.queued)
    <3>1. Store!StagePage(s, p) = [s EXCEPT !.shown = TRUE]
      BY <2>1, StoreFields DEF Store!StagePage, Record
    <3> QED
      BY <3>1, StoreFields DEF Record
  <2>3. /\ db'.cursor = db.cursor /\ db'.marker = db.marker /\ db'.conv = conv /\ db'.rows = db.rows
        /\ db'.anchor = db.anchor /\ db'.reacts = db.reacts /\ db'.task = db.task
        /\ db'.reserved = db.reserved /\ db'.known = db.known /\ db'.queued = db.queued
    BY <1>1, <1>2 DEF Dbs
  <2>4. Held(db') = TRUE
    BY <1>3, <2>3 DEF Held
  <2> QED
    BY <2>2, <2>3, <2>4, StoreFields
<1> HIDE DEF s, p
<1> QED
  BY <1>1, <1>2, <1>4, <1>5, Simulated DEF s

LEMMA CommitTasksSimulated == IInv /\ CommitTasks => [Store!Next]_(Store!storeVars)
<1> SUFFICES ASSUME IInv, CommitTasks PROVE [Store!Next]_(Store!storeVars)
  OBVIOUS
<1> DEFINE s == StoreOf(db)
           version == load.base.page.task
           task == IF AcceptsTask(db.task, version) THEN version ELSE db.task
           coll == [db.coll EXCEPT !["tasks"] = CommitCollection(db.coll["tasks"], load.at)]
<1>1. load # None /\ load.base # None /\ UNCHANGED history
  BY DEF CommitTasks, Writing
<1>2. db \in Dbs /\ version \in 0..Len(history)
  <2>1. LoadOK(history, head, load) /\ StoreOK(history, head, db)
    BY <1>1 DEF IInv
  <2> QED
    BY <1>1, <2>1 DEF LoadOK, Loads, Bases, Pages, StoreOK
<1>3. CASE db' = db
  BY <1>1, <1>3, Simulated
<1>4. CASE /\ db.marker = 0 /\ db.conv # None
           /\ db' = [db EXCEPT !.task = task, !.coll["tasks"] = CommitCollection(@, load.at)]
  <2>1. db' = [db EXCEPT !.task = task, !.coll = coll]
    BY <1>4
  <2>2. Store!PutTask(s, version)
          = Record(db.cursor, db.marker, Held(db), Shown(db.rows, db.reserved), db.anchor,
                   db.reacts, task, db.reserved, db.known, db.queued)
    BY SameRules, StoreFields, SMTT(30) DEF Store!PutTask, Record
  <2> HIDE DEF task, coll
  <2>3. /\ db'.cursor = db.cursor /\ db'.marker = db.marker /\ db'.conv = db.conv
        /\ db'.rows = db.rows /\ db'.anchor = db.anchor /\ db'.reacts = db.reacts
        /\ db'.task = task /\ db'.reserved = db.reserved /\ db'.known = db.known
        /\ db'.queued = db.queued
    BY <1>2, <2>1 DEF Dbs
  <2>4. StoreOf(db') = Store!PutTask(s, version)
    BY <2>2, <2>3, StoreFields DEF Held
  <2>5. s.marker = 0 /\ s.shown
    BY <1>4, StoreView DEF Held
  <2> HIDE DEF s, version
  <2> QED
    BY <1>1, <1>2, <2>4, <2>5, Simulated DEF s
<1> QED
  BY <1>3, <1>4 DEF CommitTasks

LEMMA AnswerReactionSimulated == IInv /\ AnswerReaction => [Store!Next]_(Store!storeVars)
<1> SUFFICES ASSUME IInv, AnswerReaction PROVE [Store!Next]_(Store!storeVars)
  OBVIOUS
<1> DEFINE s == StoreOf(db)
           k == answer.k
           e == history[k]
           added == db.reacts \cup {[id |-> k, message |-> e.message]}
           removed == {r \in db.reacts : r.id # e.by}
<1>1. answer # None /\ answer.kind \in {"reacted", "unreacted"} /\ UNCHANGED history
  BY DEF AnswerReaction
<1>2. db \in Dbs /\ k \in 1..Len(history) /\ (e.kind = "reacted" \/ e.by \in 1..Len(history))
  <2>1. AnswerOK(history, head, answer) /\ StoreOK(history, head, db)
        /\ head \in 0..Len(history) /\ Len(history) \in Nat /\ history \in Histories
    BY <1>1, LogLength DEF IInv
  <2>2. k \in 1..Len(history) /\ k \in Nat /\ answer.kind = e.kind
    BY <1>1, <2>1 DEF AnswerOK
  <2>3. e.kind = "unreacted" => e.by \in 1..(k - 1)
    BY <2>1, <2>2, ReplicaAssumption DEF HistoriesAssumption
  <2>4. e.kind = "unreacted" => e.by \in 1..Len(history)
    <3> HIDE DEF k, e
    <3> QED
      BY <2>1, <2>2, <2>3
  <2> QED
    BY <1>1, <2>1, <2>2, <2>4 DEF StoreOK
<1>3. CASE db' = db
  BY <1>1, <1>3, Simulated
<1>4. CASE db' = [db EXCEPT !.reacts = added] /\ db.marker = 0 /\ db.conv # None
  <2>1. Store!PutReaction(s, k)
          = Record(db.cursor, db.marker, Held(db), Shown(db.rows, db.reserved), db.anchor,
                   added, db.task, db.reserved, db.known, db.queued)
    <3>1. Store!PutReaction(s, k) = [s EXCEPT !.reacts = added]
      BY StoreView DEF Store!PutReaction
    <3> HIDE DEF added
    <3> QED
      BY <3>1, StoreFields DEF Record
  <2> HIDE DEF added
  <2>2. /\ db'.cursor = db.cursor /\ db'.marker = db.marker /\ db'.conv = db.conv
        /\ db'.rows = db.rows /\ db'.anchor = db.anchor /\ db'.reacts = added
        /\ db'.task = db.task /\ db'.reserved = db.reserved /\ db'.known = db.known
        /\ db'.queued = db.queued
    BY <1>2, <1>4 DEF Dbs
  <2>3. StoreOf(db') = Store!PutReaction(s, k)
    BY <2>1, <2>2, StoreFields DEF Held
  <2>4. s.marker = 0 /\ s.shown
    BY <1>4, StoreView DEF Held
  <2> HIDE DEF s, k
  <2> QED
    BY <1>1, <1>2, <2>3, <2>4, Simulated DEF s
<1>5. CASE db' = [db EXCEPT !.reacts = removed] /\ e.kind # "reacted"
  <2>1. Store!DropReaction(s, e.by)
          = Record(db.cursor, db.marker, Held(db), Shown(db.rows, db.reserved), db.anchor,
                   removed, db.task, db.reserved, db.known, db.queued)
    <3>1. Store!DropReaction(s, e.by) = [s EXCEPT !.reacts = removed]
      BY StoreView DEF Store!DropReaction
    <3> HIDE DEF removed
    <3> QED
      BY <3>1, StoreFields DEF Record
  <2> HIDE DEF removed
  <2>2. /\ db'.cursor = db.cursor /\ db'.marker = db.marker /\ db'.conv = db.conv
        /\ db'.rows = db.rows /\ db'.anchor = db.anchor /\ db'.reacts = removed
        /\ db'.task = db.task /\ db'.reserved = db.reserved /\ db'.known = db.known
        /\ db'.queued = db.queued
    BY <1>2, <1>5 DEF Dbs
  <2>3. StoreOf(db') = Store!DropReaction(s, e.by)
    BY <2>1, <2>2, StoreFields DEF Held
  <2> HIDE DEF s, e
  <2> QED
    BY <1>1, <1>2, <1>5, <2>3, Simulated DEF s
<1>6. db' = db \/ (db.marker = 0 /\ db.conv # None
                   /\ db' = [db EXCEPT !.reacts = IF e.kind = "reacted" THEN added ELSE removed])
  BY DEF AnswerReaction
<1> QED
  BY <1>3, <1>4, <1>5, <1>6

LEMMA AnswerDirectSimulated == IInv /\ AnswerDirect => [Store!Next]_(Store!storeVars)
<1> SUFFICES ASSUME IInv, AnswerDirect PROVE [Store!Next]_(Store!storeVars)
  OBVIOUS
<1> DEFINE s == StoreOf(db)
           conv == MergeSummary(SummaryAt(history, answer.k), db.conv)
<1>1. answer # None /\ answer.kind = "direct" /\ UNCHANGED <<history, head>> /\ db.marker = 0
      /\ db' = [db EXCEPT !.conv = conv]
  BY DEF AnswerDirect
<1>2. SummaryAt(history, answer.k) \in Summary /\ db \in Dbs
  <2>1. AnswerOK(history, head, answer) /\ StoreOK(history, head, db)
        /\ head \in 0..Len(history) /\ Len(history) \in Nat /\ history \in Histories
    BY <1>1, LogLength DEF IInv
  <2>2. answer.k \in 1..Len(history)
    BY <2>1 DEF AnswerOK
  <2>3. history[answer.k].kind # "direct"
    BY <2>1, <2>2, Logged DEF Event
  <2>4. SummaryAt(history, answer.k) # None
    BY <1>1, <2>1, <2>3 DEF AnswerOK
  <2>5. answer.k \in 0..Len(history)
    BY <2>1, <2>2
  <2> QED
    BY <2>1, <2>4, <2>5, SummaryTyped DEF StoreOK
<1>3. conv \in Summary
  <2>1. db.conv = None \/ db.conv \in Summary
    BY <1>2 DEF Dbs
  <2> QED
    BY <1>2, <2>1, ProjectionsTyped DEF MergeSummary
<1> HIDE DEF conv
<1>4. StoreOf(db') = Store!UpsertConversation(s)
  <2> DEFINE shown == TRUE
  <2>1. Store!UpsertConversation(s)
          = Record(db.cursor, db.marker, shown, Shown(db.rows, db.reserved), db.anchor,
                   db.reacts, db.task, db.reserved, db.known, db.queued)
    <3>1. Store!UpsertConversation(s) = [s EXCEPT !.shown = shown]
      BY DEF Store!UpsertConversation
    <3> HIDE DEF shown
    <3> QED
      BY <3>1, StoreFields DEF Record
  <2>2. /\ db'.cursor = db.cursor /\ db'.marker = db.marker /\ db'.conv = conv
        /\ db'.rows = db.rows /\ db'.anchor = db.anchor /\ db'.reacts = db.reacts
        /\ db'.task = db.task /\ db'.reserved = db.reserved /\ db'.known = db.known
        /\ db'.queued = db.queued
    BY <1>1, <1>2 DEF Dbs
  <2>3. Held(db') = shown
    BY <1>3, <2>2, NoneIsNoSummary DEF Held
  <2> HIDE DEF shown
  <2> QED
    BY <2>1, <2>2, <2>3, StoreFields
<1>5. s.marker = 0
  BY <1>1, StoreView
<1> HIDE DEF s
<1> QED
  BY <1>1, <1>4, <1>5, Simulated DEF s

(* What a purge leaves, and what finishing a repair and replacing a catalog do. *)
NoAnchors == [m \in Message |-> 0]
Requeued(queued) == IF queued = "none" THEN queued ELSE "failed"

LEMMA PurgedRecord ==
  ASSUME NEW d, NEW shown, shown = FALSE
  PROVE  Store!Purged(StoreOf(d)) =
           Record(d.cursor, d.marker, shown, EmptyRows, NoAnchors, {}, 0, d.reserved, d.known,
                  Requeued(d.queued))
<1> DEFINE s == StoreOf(d)
<1>1. s.queued = d.queued
  BY StoreView
<1>2. Store!Purged(s) = [s EXCEPT !.shown = shown, !.rows = EmptyRows, !.anchor = NoAnchors,
                                  !.reacts = {}, !.task = 0, !.queued = Requeued(d.queued)]
  BY <1>1, SameRules DEF Store!Purged, NoAnchors, Requeued
<1> QED
  BY <1>2, StoreFields, ZenonT(40) DEF Record

LEMMA FinishedSimulated ==
  ASSUME IInv, db' = Finished(db), UNCHANGED history
  PROVE  [Store!Next]_(Store!storeVars)
<1> DEFINE s == StoreOf(db)
           c == IF db.marker > db.cursor THEN db.marker ELSE db.cursor
           known == db.known \cup {db.marker}
           coll == [x \in Collection |-> Unloaded]
           shown == FALSE
<1>1. db \in Dbs /\ db.cursor \in Int /\ db.marker \in Nat
  BY DEF IInv, StoreOK, Dbs, NoCursor
<1>2. Max({db.cursor, db.marker}) = c
  BY <1>1, LargerOfTwo
<1>3. CASE db.marker = 0
  BY <1>3, Simulated DEF Finished
<1>4. CASE db.marker # 0 /\ history[db.marker].kind # "left"
  <2>1. db' = [db EXCEPT !.known = known, !.cursor = c, !.coll = coll]
    BY <1>2, <1>4 DEF Finished
  <2>2. Store!FinishRepair(s)
          = Record(c, db.marker, Held(db), Shown(db.rows, db.reserved), db.anchor,
                   db.reacts, db.task, db.reserved, known, db.queued)
    <3>1. Store!FinishRepair(s) = [s EXCEPT !.known = known, !.cursor = c]
      BY <1>4, StoreView DEF Store!FinishRepair
    <3> HIDE DEF known, c
    <3> QED
      BY <3>1, StoreFields DEF Record
  <2> HIDE DEF known, c, coll
  <2>3. /\ db'.cursor = c /\ db'.marker = db.marker /\ db'.conv = db.conv
        /\ db'.rows = db.rows /\ db'.anchor = db.anchor /\ db'.reacts = db.reacts
        /\ db'.task = db.task /\ db'.reserved = db.reserved /\ db'.known = known
        /\ db'.queued = db.queued
    BY <1>1, <2>1 DEF Dbs
  <2>4. StoreOf(db') = Store!FinishRepair(s)
    BY <2>2, <2>3, StoreFields DEF Held
  <2>5. s.marker > 0
    BY <1>1, <1>4, StoreView
  <2> HIDE DEF s
  <2> QED
    BY <2>4, <2>5, Simulated DEF s
<1>5. CASE db.marker # 0 /\ history[db.marker].kind = "left"
  <2>1. db' = [db EXCEPT !.known = known, !.cursor = c, !.coll = coll, !.conv = None,
                         !.rows = EmptyRows, !.reacts = {}, !.task = 0, !.anchor = NoAnchors,
                         !.queued = Requeued(db.queued)]
    <3> DEFINE kept == [db EXCEPT !.known = known, !.cursor = c, !.coll = coll]
    <3>1. db' = [kept EXCEPT !.conv = None, !.rows = EmptyRows, !.reacts = {}, !.task = 0,
                             !.anchor = NoAnchors, !.queued = Requeued(kept.queued)]
      BY <1>2, <1>5 DEF Finished, NoAnchors, Requeued
    <3>2. kept.queued = db.queued
      BY <1>1 DEF Dbs
    <3> QED
      BY <3>1, <3>2
  <2>2. Store!FinishRepair(s)
          = Record(c, db.marker, shown, EmptyRows, NoAnchors, {}, 0, db.reserved, known,
                   Requeued(db.queued))
    <3> DEFINE purged == Store!Purged(s)
    <3>1. purged = Record(db.cursor, db.marker, shown, EmptyRows, NoAnchors, {}, 0, db.reserved,
                          db.known, Requeued(db.queued))
      BY PurgedRecord
    <3>2. s.marker = db.marker
      BY StoreView
    <3> HIDE DEF purged, s
    <3>3. Store!FinishRepair(s)
            = [purged EXCEPT !.known = @ \cup {db.marker},
                             !.cursor = IF db.marker > @ THEN db.marker ELSE @]
      BY <1>5, <3>2 DEF Store!FinishRepair, purged
    <3>4. purged.known = db.known /\ purged.cursor = db.cursor
      BY <3>1 DEF Record
    <3>5. Store!FinishRepair(s) = [purged EXCEPT !.known = known, !.cursor = c]
      BY <3>3, <3>4
    <3> HIDE DEF known, c, shown
    <3> QED
      BY <3>1, <3>5 DEF Record
  <2>3. shown = (None # None)
    OBVIOUS
  <2> HIDE DEF known, c, coll, shown
  <2>4. /\ db'.cursor = c /\ db'.marker = db.marker /\ db'.conv = None
        /\ db'.rows = EmptyRows /\ db'.anchor = NoAnchors /\ db'.reacts = {}
        /\ db'.task = 0 /\ db'.reserved = db.reserved /\ db'.known = known
        /\ db'.queued = Requeued(db.queued)
    BY <1>1, <2>1 DEF Dbs
  <2>5. Held(db') = shown /\ Shown(db'.rows, db'.reserved) = EmptyRows
    BY <2>3, <2>4, NothingShown DEF Held
  <2>6. StoreOf(db') = Store!FinishRepair(s)
    BY <2>2, <2>4, <2>5, StoreFields
  <2>7. s.marker > 0
    BY <1>1, <1>5, StoreView
  <2> HIDE DEF s
  <2> QED
    BY <2>6, <2>7, Simulated DEF s
<1> QED
  BY <1>3, <1>4, <1>5

LEMMA CatalogReplaced ==
  ASSUME IInv, NEW p \in 0..Len(history)
  PROVE  StoreOf(CatalogWrite(p)) = Store!ReplaceCatalog(StoreOf(db), p)
<1> DEFINE s == StoreOf(db)
           w == CatalogWrite(p)
           conv == ReserveSummary(SummaryAt(history, p), db.reserved)
           coll == [c \in Collection |-> Unloaded]
<1>1. db \in Dbs /\ history \in Histories
  BY DEF IInv, StoreOK
<1>2. (SummaryAt(history, p) = None) = (conv = None)
  <2>1. SummaryAt(history, p) \in Summary \cup {None}
    BY <1>1, SummaryTyped
  <2>2. CASE SummaryAt(history, p) = None
    BY <2>2 DEF ReserveSummary
  <2>3. CASE SummaryAt(history, p) # None
    BY <2>1, <2>3, ProjectionsTyped, NoneIsNoSummary
  <2> QED
    BY <2>2, <2>3
<1>3. Store!SummaryAt(history, p) = SummaryAt(history, p)
  BY SamePages
<1>4. CASE conv # None
  <2> DEFINE shown == TRUE
  <2>1. w = [db EXCEPT !.conv = conv]
    BY <1>4 DEF CatalogWrite
  <2>2. Store!ReplaceCatalog(s, p)
          = Record(db.cursor, db.marker, shown, Shown(db.rows, db.reserved), db.anchor,
                   db.reacts, db.task, db.reserved, db.known, db.queued)
    <3>1. (s.shown \/ Store!SummaryAt(history, p) # None) = shown
      BY <1>2, <1>3, <1>4
    <3>2. Store!ReplaceCatalog(s, p) = [s EXCEPT !.shown = shown]
      <4>1. Store!ReplaceCatalog(s, p) = Store!StagePage(s, p)
        BY <1>2, <1>3, <1>4 DEF Store!ReplaceCatalog
      <4>2. Store!StagePage(s, p) = [s EXCEPT !.shown = shown]
        BY <3>1 DEF Store!StagePage
      <4> QED
        BY <4>1, <4>2
    <3> HIDE DEF shown
    <3> QED
      BY <3>2, StoreFields DEF Record
  <2> HIDE DEF conv, w
  <2>3. /\ w.cursor = db.cursor /\ w.marker = db.marker /\ w.conv = conv
        /\ w.rows = db.rows /\ w.anchor = db.anchor /\ w.reacts = db.reacts
        /\ w.task = db.task /\ w.reserved = db.reserved /\ w.known = db.known
        /\ w.queued = db.queued
    BY <1>1, <2>1 DEF Dbs
  <2>4. Held(w) = shown
    BY <1>4, <2>3 DEF Held
  <2> HIDE DEF shown
  <2>5. StoreOf(w) = Store!ReplaceCatalog(s, p)
    BY <2>2, <2>3, <2>4, StoreFields
  <2> QED
    BY <2>5 DEF w
<1>5. CASE conv = None
  <2> DEFINE shown == FALSE
  <2>1. w = [db EXCEPT !.conv = None, !.rows = EmptyRows, !.reacts = {}, !.task = 0,
                       !.anchor = NoAnchors, !.coll = coll, !.queued = Requeued(db.queued)]
    <3> DEFINE kept == [db EXCEPT !.conv = conv]
    <3>1. w = [kept EXCEPT !.rows = EmptyRows, !.reacts = {}, !.task = 0,
                           !.anchor = NoAnchors, !.coll = coll, !.queued = Requeued(kept.queued)]
      BY <1>5 DEF CatalogWrite, NoAnchors, Requeued
    <3>2. kept.queued = db.queued
      BY <1>1 DEF Dbs
    <3> HIDE DEF conv, coll, w
    <3> QED
      BY <1>5, <3>1, <3>2
  <2>2. Store!ReplaceCatalog(s, p)
          = Record(db.cursor, db.marker, shown, EmptyRows, NoAnchors, {}, 0, db.reserved,
                   db.known, Requeued(db.queued))
    <3>1. Store!ReplaceCatalog(s, p) = Store!Purged(s)
      BY <1>2, <1>3, <1>5 DEF Store!ReplaceCatalog
    <3> QED
      BY <3>1, PurgedRecord
  <2>3. shown = (None # None)
    OBVIOUS
  <2> HIDE DEF w, shown, coll
  <2>4. /\ w.cursor = db.cursor /\ w.marker = db.marker /\ w.conv = None
        /\ w.rows = EmptyRows /\ w.anchor = NoAnchors /\ w.reacts = {}
        /\ w.task = 0 /\ w.reserved = db.reserved /\ w.known = db.known
        /\ w.queued = Requeued(db.queued)
    BY <1>1, <2>1 DEF Dbs
  <2>5. Held(w) = shown /\ Shown(w.rows, w.reserved) = EmptyRows
    BY <2>3, <2>4, NothingShown DEF Held
  <2>6. StoreOf(w) = Store!ReplaceCatalog(s, p)
    BY <2>2, <2>4, <2>5, StoreFields
  <2> QED
    BY <2>6 DEF w
<1> QED
  BY <1>4, <1>5

LEMMA InstallCatalogSimulated == IInv /\ InstallCatalog => [Store!Next]_(Store!storeVars)
<1> SUFFICES ASSUME IInv, InstallCatalog PROVE [Store!Next]_(Store!storeVars)
  OBVIOUS
<1> DEFINE s == StoreOf(db)
           p == catalog.at
           w == CatalogWrite(p)
           coll == InvalidateOlder(w.coll, p)
<1>1. catalog # None /\ UNCHANGED history
  BY DEF InstallCatalog
<1>2. p \in 0..Len(history)
  BY <1>1, LogLength DEF IInv, CatalogOK, Catalogs
<1>3. w \in Dbs
  BY <1>2, CatalogWritten
<1>4. CASE CanWrite(p, "bootstrap")
  <2>1. db' = [w EXCEPT !.cursor = p, !.marker = 0, !.coll = coll]
    BY <1>4 DEF InstallCatalog
  <2>2. StoreOf(w) = Store!ReplaceCatalog(s, p)
    BY <1>2, CatalogReplaced
  <2>3. Store!CanWrite(s, p, "bootstrap")
    BY <1>4, StoreView DEF Store!CanWrite, CanWrite
  <2> HIDE DEF w, coll, p
  <2>4. Store!Install(s, p)
          = Record(p, 0, Held(w), Shown(w.rows, w.reserved), w.anchor, w.reacts, w.task,
                   w.reserved, w.known, w.queued)
    <3>1. Store!Install(s, p) = [StoreOf(w) EXCEPT !.cursor = p, !.marker = 0]
      BY <2>2 DEF Store!Install
    <3> QED
      BY <3>1, StoreFields DEF Record
  <2>5. /\ db'.cursor = p /\ db'.marker = 0 /\ db'.conv = w.conv
        /\ db'.rows = w.rows /\ db'.anchor = w.anchor /\ db'.reacts = w.reacts
        /\ db'.task = w.task /\ db'.reserved = w.reserved /\ db'.known = w.known
        /\ db'.queued = w.queued
    BY <1>3, <2>1 DEF Dbs
  <2>6. StoreOf(db') = Store!Install(s, p)
    BY <2>4, <2>5, StoreFields DEF Held
  <2> HIDE DEF s
  <2> QED
    BY <1>1, <1>2, <2>3, <2>6, Simulated DEF s
<1>5. CASE ~CanWrite(p, "bootstrap")
  <2>1. db' = db
    BY <1>5 DEF InstallCatalog
  <2> QED
    BY <1>1, <2>1, Simulated
<1> QED
  BY <1>4, <1>5

LEMMA RefreshMetadataSimulated == IInv /\ RefreshMetadata => [Store!Next]_(Store!storeVars)
<1> SUFFICES ASSUME IInv, RefreshMetadata PROVE [Store!Next]_(Store!storeVars)
  OBVIOUS
<1> DEFINE s == StoreOf(db)
           p == catalog.at
<1>1. catalog # None /\ UNCHANGED history
  BY DEF RefreshMetadata
<1>2. p \in 0..Len(history)
  BY <1>1, LogLength DEF IInv, CatalogOK, Catalogs
<1>3. CASE CanWrite(p, "refresh")
  <2>1. db' = CatalogWrite(p)
    BY <1>3 DEF RefreshMetadata
  <2>2. StoreOf(db') = Store!ReplaceCatalog(s, p)
    BY <1>2, <2>1, CatalogReplaced
  <2>3. Store!CanWrite(s, p, "refresh")
    BY <1>3, StoreView DEF Store!CanWrite, CanWrite
  <2> HIDE DEF s, p
  <2> QED
    BY <1>1, <1>2, <2>2, <2>3, Simulated DEF s
<1>4. CASE ~CanWrite(p, "refresh")
  <2>1. db' = db
    BY <1>4 DEF RefreshMetadata
  <2> QED
    BY <1>1, <2>1, Simulated
<1> QED
  BY <1>3, <1>4

(* A message created live is dead once its retract is known. *)
LEMMA CreatedRowShown ==
  ASSUME NEW rows \in Rows, NEW reserved, DeadReserved(rows, reserved), NEW m \in Message,
         NEW row, row = "dead" => m \in reserved, row \in {"live", "dead"}
  PROVE  Shown([rows EXCEPT ![m] = row], reserved)
           = [Shown(rows, reserved) EXCEPT
                ![m] = Preferred(Shown(rows, reserved)[m], Reserved(m, "live", reserved))]
<1> DEFINE a == Shown([rows EXCEPT ![m] = row], reserved)
           shown == Preferred(Shown(rows, reserved)[m], Reserved(m, "live", reserved))
<1>1. shown = Reserved(m, row, reserved)
  BY DEF Shown, Reserved, Preferred, DeadReserved, Rows
<1>2. a[m] = Reserved(m, row, reserved)
  BY DEF Shown, Rows
<1>3. \A x \in Message \ {m} : a[x] = Shown(rows, reserved)[x]
  BY DEF Shown, Rows
<1>4. a = [x \in Message |-> a[x]] /\ Shown(rows, reserved) = [x \in Message |-> Shown(rows, reserved)[x]]
  BY DEF Shown
<1> HIDE DEF a, shown
<1> QED
  BY <1>1, <1>2, <1>3, <1>4 DEF a, shown

LEMMA CommitSentSimulated == IInv /\ CommitSent => [Store!Next]_(Store!storeVars)
<1> SUFFICES ASSUME IInv, CommitSent PROVE [Store!Next]_(Store!storeVars)
  OBVIOUS
<1> DEFINE s == StoreOf(db)
           k == answer.k
           m == history[k].message
           base == answer.base
           c == IF base.applied > db.cursor THEN base.applied ELSE db.cursor
           row == Reserved(m, "live", base.reserved)
           rows == [db.rows EXCEPT ![m] = row]
<1>1. answer # None /\ answer.kind = "created" /\ base # None /\ UNCHANGED history
  BY DEF CommitSent
<1>2. AnswerOK(history, head, answer) /\ db \in Dbs /\ DeadReserved(db.rows, db.reserved)
      /\ head \in 0..Len(history) /\ Len(history) \in Nat /\ history \in Histories
      /\ db.cursor \in Int /\ db.rows \in Rows
  BY <1>1, LogLength DEF IInv, StoreOK, Dbs, NoCursor
<1>3. m \in Message /\ k \in 1..Len(history) /\ base.applied \in 0..Len(history)
  <2>1. k \in 1..Len(history) /\ answer.kind = history[k].kind
    BY <1>1, <1>2 DEF AnswerOK
  <2>2. m \in Message
    BY <1>1, <1>2, <2>1, Logged DEF OfMessage
  <2> QED
    BY <1>1, <1>2, <2>1, <2>2 DEF AnswerOK, Answers, Sends
<1>4. Max({db.cursor, base.applied}) = c
  BY <1>2, <1>3, LargerOfTwo
<1>5. CASE db' = db
  BY <1>1, <1>5, Simulated
<1>6. CASE /\ base.reserved = db.reserved /\ db.marker = 0 /\ db.queued # "none" /\ db.conv # None
           /\ db' = [db EXCEPT !.rows[m] = row, !.queued = "none", !.cursor = Max({@, base.applied})]
  <2>1. db' = [db EXCEPT !.rows = rows, !.queued = "none", !.cursor = c]
    BY <1>4, <1>6
  <2>2. row \in {"live", "dead"} /\ (row = "dead" => m \in db.reserved)
    BY <1>6 DEF Reserved
  <2> DEFINE shown == [Shown(db.rows, db.reserved) EXCEPT
                         ![m] = Preferred(@, Reserved(m, "live", db.reserved))]
  <2> HIDE DEF row
  <2>3. Shown(rows, db.reserved) = shown
    BY <1>2, <1>3, <2>2, CreatedRowShown
  <2>4. Store!Acknowledge(s, k, base.applied)
          = Record(c, db.marker, Held(db), shown, db.anchor, db.reacts, db.task, db.reserved,
                   db.known, "none")
    <3>1. Store!Acknowledge(s, k, base.applied)
            = [s EXCEPT !.rows[m] = Preferred(@, Reserved(m, "live", s.reserved)),
                        !.queued = "none",
                        !.cursor = IF base.applied > @ THEN base.applied ELSE @]
      BY SameRules DEF Store!Acknowledge
    <3>2. Store!Acknowledge(s, k, base.applied)
            = [s EXCEPT !.rows = shown, !.queued = "none", !.cursor = c]
      BY <3>1, StoreView
    <3> HIDE DEF shown, c
    <3> QED
      BY <3>2, StoreFields DEF Record
  <2> HIDE DEF rows, c, shown
  <2>5. /\ db'.cursor = c /\ db'.marker = db.marker /\ db'.conv = db.conv
        /\ db'.rows = rows /\ db'.anchor = db.anchor /\ db'.reacts = db.reacts
        /\ db'.task = db.task /\ db'.reserved = db.reserved /\ db'.known = db.known
        /\ db'.queued = "none"
    BY <1>2, <2>1 DEF Dbs
  <2>6. StoreOf(db') = Store!Acknowledge(s, k, base.applied)
    BY <2>3, <2>4, <2>5, StoreFields DEF Held
  <2>7. Store!CanAcknowledge(s)
    BY <1>6, StoreView DEF Store!CanAcknowledge, Held
  <2> HIDE DEF s, k, base
  <2> QED
    BY <1>1, <1>3, <2>6, <2>7, Simulated DEF s
<1> QED
  BY <1>5, <1>6 DEF CommitSent

(* A page stored from rows and reservations that have not moved is the page of *)
(* the atomic cache.                                                           *)
LEMMA HistoryStored ==
  ASSUME IInv, NEW base, NEW page, NEW p \in Nat, NEW reacted \in BOOLEAN,
         base.reserved = db.reserved, page.rows \in Rows, page.reacts \in SUBSET Reaction,
         \A m \in Message : Paged(page, m) => base.rows[m] = db.rows[m]
  PROVE  StoreOf(HistoryWrite(base, page, p, reacted))
           = Store!PutHistory(StoreOf(db), page, p, reacted)
<1> DEFINE s == StoreOf(db)
           d == HistoryWrite(base, page, p, reacted)
           reserved == ReserveTombstones(db.reserved, page.rows)
           row(m) == Preferred(base.rows[m], Reserved(m, page.rows[m], reserved))
           rows == [m \in Message |-> IF ~Paged(page, m) THEN db.rows[m] ELSE row(m)]
           reacts == IF reacted
                     THEN {r \in db.reacts : ~Paged(page, r.message)}
                          \cup {r \in page.reacts : Paged(page, r.message) /\ rows[r.message] = "live"}
                     ELSE {r \in db.reacts : Paged(page, r.message) => rows[r.message] = "live"}
           anchor == [m \in Message |-> IF reacted /\ Paged(page, m) THEN p ELSE db.anchor[m]]
           shown == [m \in Message |->
                      IF page.rows[m] = "none" THEN s.rows[m]
                      ELSE Preferred(s.rows[m], Reserved(m, page.rows[m], reserved))]
           paged(r) == page.rows[r.message] # "none"
           alive(r) == shown[r.message] = "live"
           kept == IF reacted
                   THEN {r \in db.reacts : ~paged(r)} \cup {r \in page.reacts : paged(r) /\ alive(r)}
                   ELSE {r \in db.reacts : paged(r) => alive(r)}
<1>1. db \in Dbs /\ DeadReserved(db.rows, db.reserved) /\ db.rows \in Rows
      /\ db.reserved \in SUBSET Message /\ db.reacts \in SUBSET Reaction
  BY DEF IInv, StoreOK, Dbs
<1>2. d = [db EXCEPT !.rows = rows, !.reserved = reserved, !.reacts = reacts, !.anchor = anchor]
  BY DEF HistoryWrite
<1>3. s.rows = Shown(db.rows, db.reserved) /\ s.reserved = db.reserved /\ s.reacts = db.reacts
      /\ s.anchor = db.anchor
  BY StoreView
<1> HIDE DEF s
<1>4. \A m \in Message : s.rows[m] = Reserved(m, db.rows[m], db.reserved)
  BY <1>3 DEF Shown
<1>5. \A m \in Message : m \in reserved <=> (m \in db.reserved \/ page.rows[m] = "dead")
  BY DEF ReserveTombstones
<1>6. ASSUME NEW m \in Message
      PROVE  /\ Reserved(m, rows[m], reserved) = shown[m]
             /\ Paged(page, m) => rows[m] = shown[m]
  <2>1. db.rows[m] \in {"none", "live", "dead"} /\ page.rows[m] \in {"none", "live", "dead"}
        /\ (db.rows[m] = "dead" => m \in db.reserved)
    BY <1>1 DEF Rows, DeadReserved
  <2>2. CASE page.rows[m] = "none"
    <3>1. rows[m] = db.rows[m] /\ shown[m] = s.rows[m] /\ ~Paged(page, m)
      BY <2>2 DEF Paged
    <3>2. m \in reserved <=> m \in db.reserved
      BY <1>5, <2>2
    <3> HIDE DEF rows, shown, reserved
    <3> QED
      BY <1>4, <3>1, <3>2 DEF Reserved
  <2>3. CASE page.rows[m] # "none"
    <3>1. rows[m] = Preferred(db.rows[m], Reserved(m, page.rows[m], reserved))
      BY <2>3 DEF Paged
    <3>2. shown[m] = Preferred(s.rows[m], Reserved(m, page.rows[m], reserved))
      BY <2>3
    <3>3. m \in reserved <=> (m \in db.reserved \/ page.rows[m] = "dead")
      BY <1>5
    <3>4. s.rows[m] = Reserved(m, db.rows[m], db.reserved)
      BY <1>4
    <3> HIDE DEF rows, shown, reserved
    <3> QED
      BY <2>1, <2>3, <3>1, <3>2, <3>3, <3>4 DEF Reserved, Preferred
  <2> QED
    BY <2>2, <2>3
<1>7. Shown(rows, reserved) = shown
  <2>1. \A m \in Message : Shown(rows, reserved)[m] = shown[m]
    BY <1>6 DEF Shown
  <2>2. Shown(rows, reserved) = [m \in Message |-> Shown(rows, reserved)[m]]
        /\ shown = [m \in Message |-> shown[m]]
    BY DEF Shown
  <2> HIDE DEF shown, rows, reserved
  <2> QED
    BY <2>1, <2>2
<1>8. reacts = kept
  <2>1. \A r \in db.reacts \cup page.reacts :
          /\ Paged(page, r.message) <=> paged(r)
          /\ Paged(page, r.message) => (rows[r.message] = "live" <=> alive(r))
    <3>1. \A r \in db.reacts \cup page.reacts : r.message \in Message
      BY <1>1 DEF Reaction
    <3> HIDE DEF rows, shown
    <3> QED
      BY <1>6, <3>1 DEF Paged
  <2> HIDE DEF rows, shown
  <2> QED
    BY <2>1
<1>9. anchor = [m \in Message |-> IF reacted /\ page.rows[m] # "none" THEN p ELSE db.anchor[m]]
  BY DEF Paged
<1>10. Store!PutHistory(s, page, p, reacted)
         = [s EXCEPT !.rows = shown, !.reserved = reserved, !.reacts = kept, !.anchor = anchor]
  <2> DEFINE sReserved == ReserveTombstones(s.reserved, page.rows)
             sShown == [m \in Message |->
                         IF page.rows[m] = "none" THEN s.rows[m]
                         ELSE Preferred(s.rows[m], Reserved(m, page.rows[m], sReserved))]
             sAlive(r) == sShown[r.message] = "live"
             sKept == IF reacted
                      THEN {r \in s.reacts : ~paged(r)}
                           \cup {r \in page.reacts : paged(r) /\ sAlive(r)}
                      ELSE {r \in s.reacts : paged(r) => sAlive(r)}
             sAnchor == [m \in Message |-> IF reacted /\ page.rows[m] # "none" THEN p
                                            ELSE s.anchor[m]]
  <2>1. Store!PutHistory(s, page, p, reacted)
          = [s EXCEPT !.rows = sShown, !.reserved = sReserved, !.reacts = sKept, !.anchor = sAnchor]
    BY Zenon DEF Store!PutHistory, Store!Message, Message, Store!Preferred, Preferred,
      Store!Reserved, Reserved, Store!ReserveTombstones, ReserveTombstones
  <2>2. sReserved = reserved /\ sShown = shown /\ sKept = kept /\ sAnchor = anchor
    BY <1>3, <1>9
  <2> HIDE DEF sReserved, sShown, sKept, sAnchor, reserved, shown, kept, anchor
  <2> QED
    BY <2>1, <2>2
<1> HIDE DEF rows, reserved, reacts, anchor, shown, kept, d
<1>11. Store!PutHistory(s, page, p, reacted)
         = Record(db.cursor, db.marker, Held(db), shown, anchor, reacts, db.task, reserved,
                  db.known, db.queued)
  BY <1>8, <1>10, StoreFields, ZenonT(40) DEF Record, s
<1>12. /\ d.cursor = db.cursor /\ d.marker = db.marker /\ d.conv = db.conv
       /\ d.rows = rows /\ d.anchor = anchor /\ d.reacts = reacts
       /\ d.task = db.task /\ d.reserved = reserved /\ d.known = db.known
       /\ d.queued = db.queued
  BY <1>1, <1>2 DEF Dbs
<1>13. StoreOf(d) = Store!PutHistory(s, page, p, reacted)
  BY <1>7, <1>11, <1>12, StoreFields DEF Held
<1> QED
  BY <1>13 DEF s, d

LEMMA CommitHistorySimulated == IInv /\ CommitHistory => [Store!Next]_(Store!storeVars)
<1> SUFFICES ASSUME IInv, CommitHistory PROVE [Store!Next]_(Store!storeVars)
  OBVIOUS
<1> DEFINE s == StoreOf(db)
           base == load.base
           page == load.base.page
           p == load.at
           w == HistoryWrite(base, page, p, TRUE)
           coll == [w.coll EXCEPT !["timeline"] = CommitCollection(w.coll["timeline"], p)]
<1>1. load # None /\ base # None /\ UNCHANGED history
  BY DEF CommitHistory, Writing
<1>2. LoadOK(history, head, load) /\ db \in Dbs /\ head \in 0..Len(history) /\ Len(history) \in Nat
  BY <1>1, LogLength DEF IInv, StoreOK
<1>3. page \in Store!PagesOf[history] /\ p \in Nat /\ p \in 0..Len(history)
      /\ base.rows \in Rows /\ page.rows \in Rows /\ page.reacts \in SUBSET Reaction
      /\ DeadReserved(base.rows, base.reserved)
  BY <1>1, <1>2 DEF LoadOK, Loads, Bases, Pages, NoCursor
<1>4. CASE db' = db
  BY <1>1, <1>4, Simulated
<1>5. CASE /\ ~PageMoved(base, page) /\ db.marker = 0 /\ db.conv # None
           /\ \A m \in Message : Paged(page, m) => db.anchor[m] <= p
           /\ db' = [w EXCEPT !.coll["timeline"] = CommitCollection(@, p)]
  <2>1. base.reserved = db.reserved /\ \A m \in Message : Paged(page, m) => base.rows[m] = db.rows[m]
    BY <1>5 DEF PageMoved
  <2>2. w \in Dbs
    BY <1>3, <2>1, HistoryWritten
  <2>3. StoreOf(w) = Store!PutHistory(s, page, p, TRUE)
    BY <1>3, <2>1, HistoryStored
  <2>4. db' = [w EXCEPT !.coll = coll]
    BY <1>5
  <2> HIDE DEF w, coll
  <2>5. /\ db'.cursor = w.cursor /\ db'.marker = w.marker /\ db'.conv = w.conv
        /\ db'.rows = w.rows /\ db'.anchor = w.anchor /\ db'.reacts = w.reacts
        /\ db'.task = w.task /\ db'.reserved = w.reserved /\ db'.known = w.known
        /\ db'.queued = w.queued
    BY <2>2, <2>4 DEF Dbs
  <2>6. StoreOf(db') = Store!PutHistory(s, page, p, TRUE)
    BY <2>3, <2>5, StoreFields DEF Held
  <2>7. Store!CanPutHistory(s, page, p, TRUE)
    BY <1>5, StoreView, SameRules DEF Store!CanPutHistory, Held, Paged
  <2> HIDE DEF s, page, p
  <2> QED
    BY <1>1, <1>3, <2>6, <2>7, Simulated DEF s
<1> QED
  BY <1>4, <1>5 DEF CommitHistory

LEMMA AnswerRetractSimulated == IInv /\ AnswerRetract => [Store!Next]_(Store!storeVars)
<1> SUFFICES ASSUME IInv, AnswerRetract PROVE [Store!Next]_(Store!storeVars)
  OBVIOUS
<1> DEFINE s == StoreOf(db)
           m == history[answer.k].message
           page == Tombstone(m)
           base == [rows |-> db.rows, reserved |-> db.reserved]
<1>1. answer # None /\ answer.kind = "retracted" /\ UNCHANGED history
  BY DEF AnswerRetract
<1>2. m \in Message /\ history \in Histories /\ Len(history) \in Nat
  <2>1. AnswerOK(history, head, answer)
        /\ head \in 0..Len(history) /\ Len(history) \in Nat /\ history \in Histories
    BY <1>1, LogLength DEF IInv
  <2>2. answer.k \in 1..Len(history) /\ answer.kind = history[answer.k].kind
    BY <1>1, <2>1 DEF AnswerOK
  <2>3. m \in Message
    BY <1>1, <2>1, <2>2, Logged DEF OfMessage
  <2> QED
    BY <2>1, <2>3
<1>3. CASE db' = db
  BY <1>1, <1>3, Simulated
<1>4. CASE db' = HistoryWrite(base, page, 0, FALSE) /\ db.marker = 0 /\ db.conv # None
  <2>1. page.rows \in Rows /\ page.reacts \in SUBSET Reaction /\ page \in Store!PagesOf[history]
    <3>1. page.rows \in Rows /\ page.reacts \in SUBSET Reaction
      BY <1>2 DEF Tombstone, EmptyRows, Rows
    <3>2. page \in Store!PagesOf[history]
      BY <1>2, PagesStored
    <3> QED
      BY <3>1, <3>2
  <2>2. base.reserved = db.reserved /\ \A x \in Message : Paged(page, x) => base.rows[x] = db.rows[x]
    OBVIOUS
  <2> HIDE DEF base, page
  <2>3. StoreOf(db') = Store!PutHistory(s, page, 0, FALSE)
    <3>1. StoreOf(HistoryWrite(base, page, 0, FALSE)) = Store!PutHistory(s, page, 0, FALSE)
      <4>1. 0 \in Nat /\ FALSE \in BOOLEAN
        OBVIOUS
      <4> QED
        BY <2>1, <2>2, <4>1, HistoryStored
    <3> QED
      BY <1>4, <3>1
  <2>4. Store!CanPutHistory(s, page, 0, FALSE)
    BY <1>4, StoreView DEF Store!CanPutHistory, Held
  <2>5. 0 \in 0..Len(history)
    BY <1>2
  <2> HIDE DEF s
  <2> QED
    BY <1>1, <2>1, <2>3, <2>4, <2>5, Simulated DEF s
<1>5. db' = db \/ (db.marker = 0 /\ db.conv # None /\ db' = HistoryWrite(base, page, 0, FALSE))
  BY DEF AnswerRetract
<1> QED
  BY <1>3, <1>4, <1>5

(* What the rules of the atomic cache make of each kind of event. *)
LEMMA RowRules ==
  ASSUME NEW s, NEW e, NEW sourced
  PROVE  /\ e.kind = "created" =>
              Store!RowsAfter(s, e, sourced) =
                [s.rows EXCEPT ![e.message] = Preferred(@, Reserved(e.message, "live", s.reserved))]
         /\ e.kind = "retracted" =>
              Store!RowsAfter(s, e, sourced) =
                IF s.rows[e.message] # "none" \/ (s.shown /\ sourced)
                THEN [s.rows EXCEPT ![e.message] = "dead"] ELSE s.rows
         /\ e.kind \notin {"created", "retracted"} => Store!RowsAfter(s, e, sourced) = s.rows
BY SameRules DEF Store!RowsAfter

LEMMA ReactionRules ==
  ASSUME NEW s, NEW e, NEW n
  PROVE  /\ e.kind = "retracted" =>
              Store!ReactionsAfter(s, e, n) = {r \in s.reacts : r.message # e.message}
         /\ e.kind = "reacted" =>
              Store!ReactionsAfter(s, e, n) =
                IF n > s.anchor[e.message] THEN s.reacts \cup {[id |-> n, message |-> e.message]}
                ELSE s.reacts
         /\ e.kind = "unreacted" =>
              Store!ReactionsAfter(s, e, n) =
                IF n > s.anchor[e.message] THEN {r \in s.reacts : r.id # e.by} ELSE s.reacts
         /\ e.kind \notin {"retracted", "reacted", "unreacted"} =>
              Store!ReactionsAfter(s, e, n) = s.reacts
<1>1. e.kind = "retracted" =>
        Store!ReactionsAfter(s, e, n) = {r \in s.reacts : r.message # e.message}
  BY DEF Store!ReactionsAfter
<1>2. e.kind = "reacted" =>
        Store!ReactionsAfter(s, e, n) =
          IF n > s.anchor[e.message] THEN s.reacts \cup {[id |-> n, message |-> e.message]}
          ELSE s.reacts
  BY DEF Store!ReactionsAfter
<1>3. e.kind = "unreacted" =>
        Store!ReactionsAfter(s, e, n) =
          IF n > s.anchor[e.message] THEN {r \in s.reacts : r.id # e.by} ELSE s.reacts
  BY DEF Store!ReactionsAfter
<1>4. e.kind \notin {"retracted", "reacted", "unreacted"} =>
        Store!ReactionsAfter(s, e, n) = s.reacts
  BY DEF Store!ReactionsAfter
<1> QED
  BY <1>1, <1>2, <1>3, <1>4

LEMMA TaskRules ==
  ASSUME NEW s, NEW e, NEW n
  PROVE  /\ e.kind = "task" =>
              Store!TaskAfter(s, e, n) =
                IF AcceptsTask(s.task, ServerAt[history][n].task)
                THEN ServerAt[history][n].task ELSE s.task
         /\ e.kind # "task" => Store!TaskAfter(s, e, n) = s.task
BY SameServer, SameRules DEF Store!TaskAfter

(* An event's write, as load() shows it, is the write of the atomic cache. *)
LEMMA EventShown ==
  ASSUME IInv, NEW try \in Tries, TryOK(history, head, db, try), db.marker = 0,
         db.cursor # NoCursor, Applicable(try.n), ~ReservationsMoved(try)
  PROVE  LET n == try.n
             e == history[try.n]
             s == StoreOf(db)
             w == EventWrite(try)
         IN /\ Shown(w.rows, w.reserved) = Store!RowsAfter(s, e, SourceKnown(try, e))
            /\ w.reacts = Store!ReactionsAfter(s, e, n) /\ w.task = Store!TaskAfter(s, e, n)
            /\ w.reserved = (IF e.kind = "retracted" THEN s.reserved \cup {e.message}
                             ELSE s.reserved)
            /\ w.queued = (IF e.kind = "created" /\ e.mine THEN "none" ELSE s.queued)
            /\ w.anchor = db.anchor
<1> DEFINE n == try.n
           e == history[n]
           s == StoreOf(db)
           w == EventWrite(try)
           sourced == SourceKnown(try, e)
           version == ServerAt[history][n].task
<1> SUFFICES
      /\ Shown(w.rows, w.reserved) = Store!RowsAfter(s, e, sourced)
      /\ w.reacts = Store!ReactionsAfter(s, e, n) /\ w.task = Store!TaskAfter(s, e, n)
      /\ w.reserved = (IF e.kind = "retracted" THEN s.reserved \cup {e.message} ELSE s.reserved)
      /\ w.queued = (IF e.kind = "created" /\ e.mine THEN "none" ELSE s.queued)
      /\ w.anchor = db.anchor
  OBVIOUS
<1>0. /\ n \in 1..Len(history) /\ n \in Nat /\ history \in Histories
      /\ db \in Dbs /\ DeadReserved(db.rows, db.reserved)
      /\ DeadReserved(try.rows, try.reserved) /\ db.cursor < n
  BY LogLength DEF IInv, StoreOK, TryOK, Applicable
<1>1. e \in Event /\ (e.kind \in OfMessage => e.message \in Message)
  BY <1>0, Logged
<1>2. try.rows \in Rows /\ db.rows \in Rows /\ db.reserved \in SUBSET Message
      /\ db.anchor \in [Message -> Nat]
  BY <1>0 DEF Tries, Dbs
<1>3. e.kind # "opened" => db.conv # None
  BY <1>0, MemberBefore
<1>4. s.rows = Shown(db.rows, db.reserved) /\ s.reserved = db.reserved /\ s.reacts = db.reacts
      /\ s.anchor = db.anchor /\ s.task = db.task /\ s.queued = db.queued /\ s.shown = Held(db)
  BY StoreView
<1> HIDE DEF s
<1>5. CASE e.kind = "created"
  <2> DEFINE row == CreatedRow(try, e)
             conv == IF try.conv = None \/ row = "dead" THEN db.conv
                     ELSE ProjectCreated(try.conv, e.message, e.mine)
             queued == IF e.mine THEN "none" ELSE db.queued
             rows == [db.rows EXCEPT ![e.message] = row]
  <2>1. w = [db EXCEPT !.rows = rows, !.conv = conv, !.queued = queued]
    BY <1>5 DEF EventWrite, CreatedWrite
  <2>2. row \in {"live", "dead"} /\ e.message \in Message /\ (row = "dead" => e.message \in db.reserved)
    <3>1. try.reserved = db.reserved
      BY <1>5 DEF ReservationsMoved
    <3>2. e.message \in Message
      BY <1>1, <1>5 DEF OfMessage
    <3> QED
      BY <1>0, <1>2, <3>1, <3>2 DEF CreatedRow, Preferred, Reserved, DeadReserved, Rows
  <2> HIDE DEF conv, row
  <2>3. Shown(rows, db.reserved) = Store!RowsAfter(s, e, sourced)
    <3>1. Shown(rows, db.reserved)
            = [Shown(db.rows, db.reserved) EXCEPT
                 ![e.message] = Preferred(@, Reserved(e.message, "live", db.reserved))]
      BY <1>0, <1>2, <2>2, CreatedRowShown
    <3>2. Store!RowsAfter(s, e, sourced)
            = [s.rows EXCEPT ![e.message] = Preferred(@, Reserved(e.message, "live", s.reserved))]
      BY <1>5, RowRules
    <3> QED
      BY <1>4, <3>1, <3>2
  <2>4. Store!ReactionsAfter(s, e, n) = db.reacts /\ Store!TaskAfter(s, e, n) = db.task
    BY <1>4, <1>5, RowRules, ReactionRules, TaskRules
  <2> HIDE DEF rows, queued, w
  <2>5. w.rows = rows /\ w.reserved = db.reserved /\ w.reacts = db.reacts /\ w.task = db.task
        /\ w.anchor = db.anchor /\ w.queued = queued
    BY <1>0, <2>1 DEF Dbs
  <2> QED
    BY <1>4, <1>5, <2>3, <2>4, <2>5 DEF queued
<1>6. CASE e.kind = "retracted"
  <2> DEFINE row == IF sourced THEN "dead" ELSE db.rows[e.message]
             conv == IF try.conv # None /\ sourced
                     THEN ProjectRetracted(try.conv, e.message, e.mine,
                                           [try.rows EXCEPT ![e.message] = "dead"])
                     ELSE db.conv
             reacts == {r \in db.reacts : r.message # e.message}
             rows == [db.rows EXCEPT ![e.message] = row]
             reserved == db.reserved \cup {e.message}
  <2>1. w = [db EXCEPT !.rows = rows, !.reacts = reacts, !.reserved = reserved, !.conv = conv]
    BY <1>6 DEF EventWrite, RetractedWrite
  <2>2. e.message \in Message /\ db.rows[e.message] \in {"none", "live", "dead"}
    BY <1>1, <1>2, <1>6 DEF OfMessage, Rows
  <2>3. s.shown = TRUE
    BY <1>3, <1>4, <1>6 DEF Held
  <2> HIDE DEF sourced
  <2>4. Shown(rows, reserved) = Store!RowsAfter(s, e, sourced)
    <3> DEFINE m == e.message
               a == Shown(rows, reserved)
               b == IF s.rows[m] # "none" \/ sourced
                    THEN [s.rows EXCEPT ![m] = "dead"] ELSE s.rows
    <3>1. Store!RowsAfter(s, e, sourced) = b
      BY <1>6, <2>3, RowRules
    <3>2. \A x \in Message : s.rows[x] = Reserved(x, db.rows[x], db.reserved)
      BY <1>4 DEF Shown
    <3>3. a[m] = (IF row = "none" THEN "none" ELSE "dead")
      BY <1>2, <2>2 DEF Shown, Reserved, Rows
    <3>4. s.rows[m] = "none" <=> db.rows[m] = "none"
      BY <2>2, <3>2 DEF Reserved
    <3>5. s.rows \in [Message -> {"none", "live", "dead"}]
      BY <1>2, <1>4 DEF Shown, Reserved, Rows
    <3>6. a[m] = b[m]
      BY <2>2, <3>3, <3>4, <3>5
    <3>7. ASSUME NEW x \in Message \ {m} PROVE a[x] = b[x]
      <4>1. a[x] = Reserved(x, db.rows[x], db.reserved)
        BY <1>2 DEF Shown, Reserved, Rows
      <4>2. b[x] = s.rows[x]
        BY <3>5, SMTT(30)
      <4> QED
        BY <3>2, <4>1, <4>2
    <3>8. a = [x \in Message |-> a[x]] /\ b = [x \in Message |-> b[x]]
      <4>1. a = [x \in Message |-> a[x]]
        BY DEF Shown
      <4>2. b = [x \in Message |-> b[x]]
        BY <3>5
      <4> QED
        BY <4>1, <4>2
    <3> HIDE DEF a, b
    <3>9. a = b
      BY <3>6, <3>7, <3>8
    <3> QED
      BY <3>1, <3>9 DEF a
  <2>5. Store!ReactionsAfter(s, e, n) = reacts /\ Store!TaskAfter(s, e, n) = db.task
    BY <1>4, <1>6, RowRules, ReactionRules, TaskRules
  <2> HIDE DEF rows, reserved, reacts, conv, w
  <2>6. w.rows = rows /\ w.reserved = reserved /\ w.reacts = reacts /\ w.task = db.task
        /\ w.anchor = db.anchor /\ w.queued = db.queued
    BY <1>0, <2>1 DEF Dbs
  <2> QED
    BY <1>4, <1>6, <2>4, <2>5, <2>6 DEF reserved
<1>7. CASE e.kind \in {"reacted", "unreacted"}
  <2> DEFINE reacts == Store!ReactionsAfter(s, e, n)
  <2>1. w = [db EXCEPT !.reacts = reacts]
    <3>1. db = [db EXCEPT !.reacts = db.reacts]
      BY <1>0 DEF Dbs
    <3>2. w = IF n <= db.anchor[e.message] THEN db
              ELSE [db EXCEPT !.reacts = IF e.kind = "reacted"
                                         THEN db.reacts \cup {[id |-> n, message |-> e.message]}
                                         ELSE {r \in db.reacts : r.id # e.by}]
      BY <1>7 DEF EventWrite, ReactionWrite
    <3>3. reacts = IF n > db.anchor[e.message]
                   THEN IF e.kind = "reacted"
                        THEN db.reacts \cup {[id |-> n, message |-> e.message]}
                        ELSE {r \in db.reacts : r.id # e.by}
                   ELSE db.reacts
      <4>1. CASE e.kind = "reacted"
        BY <1>4, <4>1, ReactionRules
      <4>2. CASE e.kind = "unreacted"
        <5>1. {r \in s.reacts : r.id # e.by} = {r \in db.reacts : r.id # e.by}
          BY <1>4
        <5>2. reacts = IF n > s.anchor[e.message] THEN {r \in s.reacts : r.id # e.by}
                       ELSE s.reacts
          BY <4>2, ReactionRules, Zenon
        <5>3. e.kind # "reacted"
          BY <4>2
        <5> HIDE DEF reacts
        <5> QED
          BY <1>4, <5>1, <5>2, <5>3
      <4> QED
        BY <1>7, <4>1, <4>2
    <3>4. n > db.anchor[e.message] <=> ~(n <= db.anchor[e.message])
      <4>1. e.message \in Message
        BY <1>1, <1>7 DEF OfMessage
      <4> QED
        BY <1>0, <1>2, <4>1
    <3> HIDE DEF reacts, w
    <3> QED
      BY <3>1, <3>2, <3>3, <3>4
  <2>2. Store!RowsAfter(s, e, sourced) = s.rows /\ Store!TaskAfter(s, e, n) = db.task
    BY <1>4, <1>7, RowRules, TaskRules
  <2> HIDE DEF reacts, w
  <2>3. w.rows = db.rows /\ w.reserved = db.reserved /\ w.reacts = reacts /\ w.task = db.task
        /\ w.anchor = db.anchor /\ w.queued = db.queued
    BY <1>0, <2>1 DEF Dbs
  <2> QED
    BY <1>4, <1>7, <2>2, <2>3 DEF reacts
<1>8. CASE e.kind = "task"
  <2> DEFINE task == IF AcceptsTask(db.task, version) THEN version ELSE db.task
  <2>1. w = [db EXCEPT !.task = task]
    BY <1>8 DEF EventWrite, TaskWrite
  <2>2. Store!RowsAfter(s, e, sourced) = s.rows /\ Store!TaskAfter(s, e, n) = task
        /\ Store!ReactionsAfter(s, e, n) = db.reacts
    BY <1>4, <1>8, RowRules, ReactionRules, TaskRules
  <2> HIDE DEF task, w
  <2>3. w.rows = db.rows /\ w.reserved = db.reserved /\ w.reacts = db.reacts /\ w.task = task
        /\ w.anchor = db.anchor /\ w.queued = db.queued
    BY <1>0, <2>1 DEF Dbs
  <2> QED
    BY <1>4, <1>8, <2>2, <2>3
<1>9. CASE e.kind \in {"opened", "read", "member"}
  <2> DEFINE conv == CASE e.kind = "opened" -> ProjectOpened(try.conv)
                       [] e.kind = "member" /\ try.conv # None -> ProjectMember(try.conv)
                       [] e.kind = "read" /\ try.conv # None ->
                            ProjectRead(try.conv, e.message, ServerAt[history][n].unread)
                       [] OTHER -> db.conv
  <2>1. w = [db EXCEPT !.conv = conv]
    <3>1. w = SummaryWrite(try, e, n)
      BY <1>9 DEF EventWrite
    <3> QED
      BY <3>1 DEF SummaryWrite
  <2>2. Store!RowsAfter(s, e, sourced) = s.rows /\ Store!TaskAfter(s, e, n) = db.task
        /\ Store!ReactionsAfter(s, e, n) = db.reacts
    BY <1>4, <1>9, RowRules, ReactionRules, TaskRules
  <2> HIDE DEF conv, w
  <2>3. w.rows = db.rows /\ w.reserved = db.reserved /\ w.reacts = db.reacts /\ w.task = db.task
        /\ w.anchor = db.anchor /\ w.queued = db.queued
    BY <1>0, <2>1 DEF Dbs
  <2> QED
    BY <1>4, <1>9, <2>2, <2>3
<1>10. e.kind \in {"created", "retracted", "reacted", "unreacted", "task", "opened", "read", "member"}
  BY <1>1 DEF Event, TryOK, SelfMembership
<1> QED
  BY <1>5, <1>6, <1>7, <1>8, <1>9, <1>10

LEMMA CommitEventSimulated ==
  \A l \in Lane : IInv /\ CommitEvent(l) => [Store!Next]_(Store!storeVars)
<1> SUFFICES ASSUME NEW l \in Lane, IInv, CommitEvent(l) PROVE [Store!Next]_(Store!storeVars)
  OBVIOUS
<1> DEFINE try == lanes[l].try
           n == lanes[l].try.n
           e == history[n]
           s == StoreOf(db)
           w == EventWrite(try)
           sourced == SourceKnown(try, e)
           coll == Invalidate(w.coll, e, n)
           known == db.known \cup {n}
<1>1. try # None /\ UNCHANGED history
  BY DEF CommitEvent
<1>2. lanes[l] \in LaneRecords /\ LaneOK(history, head, db, lanes[l]) /\ head \in 0..Len(history)
      /\ history \in Histories /\ Len(history) \in Nat /\ db \in Dbs
  BY LogLength DEF IInv, StoreOK
<1>3. TryOK(history, head, db, try) /\ try \in Tries /\ n \in 1..Len(history)
      /\ db.cursor # NoCursor /\ db.marker = 0
  BY <1>1, <1>2 DEF LaneOK, TryOK, LaneRecords, Tries
<1>4. CASE db' = db
  BY <1>1, <1>4, Simulated
<1>5. CASE ~ReservationsMoved(try) /\ Applicable(n) /\ db' = RecordEvent(EventWrite(try), n)
  <2>1. w \in Dbs /\ w.marker = 0 /\ w.cursor = db.cursor /\ w.known = db.known /\ w.conv # None
    BY <1>3, <1>5, EventWritten
  <2>2. /\ Shown(w.rows, w.reserved) = Store!RowsAfter(s, e, sourced)
        /\ w.reacts = Store!ReactionsAfter(s, e, n) /\ w.task = Store!TaskAfter(s, e, n)
        /\ w.reserved = (IF e.kind = "retracted" THEN s.reserved \cup {e.message} ELSE s.reserved)
        /\ w.queued = (IF e.kind = "created" /\ e.mine THEN "none" ELSE s.queued)
        /\ w.anchor = db.anchor
    BY <1>3, <1>5, EventShown
  <2>3. db' = [w EXCEPT !.cursor = n, !.known = known, !.coll = coll]
    BY <1>5, <2>1 DEF RecordEvent
  <2>4. (s.shown \/ e.kind = "opened") = TRUE
    <3>1. e.kind # "opened" => db.conv # None
      BY <1>2, <1>3, <1>5, MemberBefore DEF Applicable, Tries
    <3>2. s.shown = Held(db)
      BY StoreView
    <3> QED
      BY <3>1, <3>2 DEF Held
  <2>5. sourced \in BOOLEAN
    BY DEF SourceKnown
  <2>6. Store!CanApply(s, n)
    BY <1>3, <1>5, StoreView DEF Store!CanApply, Applicable
  <2> DEFINE shown == TRUE
  <2>7. Store!Apply(s, n, sourced)
          = [s EXCEPT !.cursor = n, !.known = known, !.rows = Shown(w.rows, w.reserved),
                      !.shown = shown, !.reacts = w.reacts, !.task = w.task,
                      !.reserved = w.reserved, !.queued = w.queued]
    <3>1. Store!Apply(s, n, sourced)
            = [s EXCEPT !.cursor = n, !.known = s.known \cup {n},
                        !.rows = Store!RowsAfter(s, e, sourced),
                        !.shown = s.shown \/ e.kind = "opened",
                        !.reacts = Store!ReactionsAfter(s, e, n),
                        !.task = Store!TaskAfter(s, e, n),
                        !.reserved = IF e.kind = "retracted" THEN s.reserved \cup {e.message}
                                     ELSE s.reserved,
                        !.queued = IF e.kind = "created" /\ e.mine THEN "none" ELSE s.queued]
      BY Zenon DEF Store!Apply
    <3>2. s.known = db.known
      BY StoreView
    <3> HIDE DEF s, w, e, sourced
    <3> QED
      BY <2>2, <2>4, <3>1, <3>2, Zenon
  <2> HIDE DEF w, known, coll, shown, sourced, e
  <2>8. Store!Apply(s, n, sourced)
          = Record(n, db.marker, shown, Shown(w.rows, w.reserved), db.anchor, w.reacts, w.task,
                   w.reserved, known, w.queued)
    BY <2>7, StoreFields, ZenonT(40) DEF Record
  <2>9. /\ db'.cursor = n /\ db'.marker = w.marker /\ db'.conv = w.conv
        /\ db'.rows = w.rows /\ db'.anchor = w.anchor /\ db'.reacts = w.reacts
        /\ db'.task = w.task /\ db'.reserved = w.reserved /\ db'.known = known
        /\ db'.queued = w.queued
    BY <2>1, <2>3 DEF Dbs
  <2>10. Held(db') = shown
    BY <2>1, <2>9 DEF Held, shown
  <2>11. StoreOf(db') = Store!Apply(s, n, sourced)
    BY <1>3, <2>1, <2>2, <2>8, <2>9, <2>10, StoreFields
  <2> HIDE DEF s, n
  <2> QED
    BY <1>1, <1>3, <2>5, <2>6, <2>11, Simulated DEF s
<1> QED
  BY <1>4, <1>5 DEF CommitEvent

(* Every commit of the encrypted cache is one operation of the atomic cache, for *)
(* every log: a commit never uses rows or reservations that have moved since it  *)
(* read them.                                                                    *)
THEOREM ReplicaImplementsStore == Spec => ImplementsStore
<1>1. Init => Store!Init
  <2> SUFFICES ASSUME Init PROVE Store!Init
    OBVIOUS
  <2> DEFINE shown == Held(db)
             queued == IF \E n \in 1..Len(history) : history[n].kind = "created" /\ history[n].mine
                       THEN "pending" ELSE "none"
  <2>1. history \in Histories /\ db = Bootstrapped(history)
    BY DEF Init
  <2>2. /\ db.cursor = 0 /\ db.marker = 0 /\ db.conv = SummaryAt(history, 0)
        /\ db.rows = EmptyRows /\ db.anchor = NoAnchors /\ db.reacts = {}
        /\ db.task = 0 /\ db.reserved = {} /\ db.known = {} /\ db.queued = queued
    BY <2>1 DEF Bootstrapped, EmptyDb, NoAnchors
  <2>3. Shown(db.rows, db.reserved) = EmptyRows
    BY <2>2, NothingShown
  <2>4. (Store!SummaryAt(history, 0) # None) = shown
    BY <2>2, SamePages DEF Held
  <2>5. Store!Bootstrapped(history) = [Store!EmptyStore EXCEPT !.cursor = 0, !.shown = shown,
                                                               !.queued = queued]
    BY <2>4 DEF Store!Bootstrapped
  <2>6. Store!Bootstrapped(history)
          = Record(0, 0, shown, EmptyRows, NoAnchors, {}, 0, {}, {}, queued)
    <3> HIDE DEF shown, queued
    <3> QED
      BY <2>5, SameRules DEF Store!EmptyStore, Record, NoAnchors
  <2> HIDE DEF queued
  <2>7. StoreOf(db) = Store!Bootstrapped(history)
    BY <2>2, <2>3, <2>6, StoreFields
  <2> QED
    BY <2>1, <2>7 DEF Store!Init
<1>2. IInv /\ [Next]_vars => [Store!Next]_(Store!storeVars)
  <2> SUFFICES ASSUME IInv, [Next]_vars PROVE [Store!Next]_(Store!storeVars)
    OBVIOUS
  <2>1. CASE UNCHANGED <<history, db>>
    BY <2>1, Simulated
  <2>2. ASSUME NEW l \in Lane, CommitEvent(l) \/ StageMembershipRepair(l)
        PROVE  [Store!Next]_(Store!storeVars)
    BY <2>2, CommitEventSimulated, RepairStagedSimulated
  <2>3. CASE FinishMembershipRepair \/ Restart
    <3>1. db' = Finished(db) /\ UNCHANGED history
      BY <2>3 DEF FinishMembershipRepair, Restart
    <3> QED
      BY <3>1, FinishedSimulated
  <2>4. CASE FinishSync \/ Resync
    BY <2>4, FinishSyncSimulated, ResyncSimulated
  <2>5. CASE StageMetadataPage \/ InstallCatalog \/ RefreshMetadata
    BY <2>5, StageMetadataPageSimulated, InstallCatalogSimulated, RefreshMetadataSimulated
  <2>6. CASE CommitHistory \/ CommitTasks
    BY <2>6, CommitHistorySimulated, CommitTasksSimulated
  <2>7. CASE AnswerReaction \/ AnswerRetract \/ CommitSent \/ AnswerDirect
    BY <2>7, AnswerReactionSimulated, AnswerRetractSimulated, CommitSentSimulated,
      AnswerDirectSimulated
  <2>8. ASSUME NEW l \in Lane, ReadForEvent(l) \/ IgnoreEvent(l) \/ PublishCommitted(l)
        PROVE  UNCHANGED <<history, db>>
    BY <2>8 DEF ReadForEvent, IgnoreEvent, PublishCommitted
  <2>9. Publish \/ Crash \/ BeginSync \/ Redeliver \/ CatalogFails \/ LoadAnswers \/ ReadForPage
          \/ MutationAnswered \/ ReadForSent
        => UNCHANGED <<history, db>>
    BY DEF Publish, Crash, BeginSync, Redeliver, CatalogFails, LoadAnswers, ReadForPage,
      MutationAnswered, ReadForSent
  <2>10. (\E mode \in {"bootstrap", "refresh"} : ReadCatalog(mode))
           \/ (\E c \in Collection : BeginLoad(c))
         => UNCHANGED <<history, db>>
    BY DEF ReadCatalog, BeginLoad
  <2>11. UNCHANGED vars => UNCHANGED <<history, db>>
    BY DEF vars
  <2> QED
    BY <2>1, <2>2, <2>3, <2>4, <2>5, <2>6, <2>7, <2>8, <2>9, <2>10, <2>11 DEF Next
<1> QED
  BY <1>1, <1>2, ReplicaInductive, PTL DEF Spec, ImplementsStore, Store!Spec

=============================================================================
