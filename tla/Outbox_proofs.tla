--------------------------- MODULE Outbox_proofs ---------------------------
(***************************************************************************)
(* The outbox, for any number of messages, conversations, edits, losses,   *)
(* crashes and changes of the membership.  The lemmas of the first part    *)
(* are about the pure stretches of #flushOutbox: from a sound loop they    *)
(* make a sound loop, whatever outbox they are shown.  The second part     *)
(* carries the loop and the tables through every action.                   *)
(***************************************************************************)
EXTENDS Outbox, FiniteSetTheorems, WellFoundedInduction, TLAPS

USE OutboxAssumption

-----------------------------------------------------------------------------
(* The flush loop.                                                         *)

Answers == {"accepted", "permanent", "retryable", "authentication_required",
            "upgrade_required"}
WorkerRecords ==
  [pc : {"idle", "claim", "send", "replied", "accept", "patch"},
   key : Keys \cup {NoKey}, attempt : Nat, status : Status, live : BOOLEAN,
   done : BOOLEAN, result : Answers \cup {"none", "written", "refused"}]
FlushRecords == [owner : Workers \cup {NoWorker}, requested : BOOLEAN, timer : SUBSET Keys]
Loops == [flush : FlushRecords, workers : [Workers -> WorkerRecords]]

(* A worker sends a written key, decides from an item awaiting delivery, and *)
(* takes for accepted only what the server has.                             *)
WorkerOK(r, written, committed) ==
  /\ r = Idle \/ (r.pc # "idle" /\ r.key \in written)
  /\ r.pc = "claim" => r.status \in {"pending", "sending", "retry_wait"}
  /\ r.pc = "patch" => r.status \notin {"none", "sending"}
  /\ r.pc = "replied" => r.result \in Answers
  /\ r.pc = "accept" \/ (r.pc = "replied" /\ r.result = "accepted") => r.key \in committed

Stale(loop) == {w \in Workers : loop.workers[w] # Idle /\ ~loop.workers[w].live}
OneOwner(loop) == \A w \in Workers : loop.workers[w].live => loop.flush.owner = w

(* At most n loops are stale: each was retired by a change of the membership. *)
LoopOK(loop, written, committed, n) ==
  /\ loop \in Loops
  /\ \A w \in Workers : WorkerOK(loop.workers[w], written, committed)
  /\ OneOwner(loop)
  /\ Cardinality(Stale(loop)) <= n

(* The same of every worker but w, which is about to be replaced. *)
LoopBut(w, loop, written, committed, n) ==
  /\ loop \in Loops
  /\ \A q \in Workers \ {w} : WorkerOK(loop.workers[q], written, committed)
  /\ OneOwner(loop)
  /\ Cardinality(Stale(loop) \ {w}) <= n

ContextOK(c, written) == c.view \in [Keys -> Items] /\ Held(c.view) \subseteq written

LEMMA BoundsTyped ==
  /\ MaxReplacements \in Nat /\ MaxAccessChanges \in Nat /\ MaxAuthored \in Nat
  /\ MaxDiscards \in Nat /\ MaxLosses \in Nat /\ MaxRefusals \in Nat
  /\ MaxRestarts \in Nat /\ MaxCatalogs \in Nat /\ MaxSyncs \in Nat
OBVIOUS

LEMMA WorkersFinite ==
  IsFiniteSet(Workers) /\ Cardinality(Workers) = MaxAccessChanges + 1
<1>1. 1 \in Int /\ MaxAccessChanges + 1 \in Int /\ ~(1 > MaxAccessChanges + 1)
      /\ MaxAccessChanges + 1 - 1 + 1 = MaxAccessChanges + 1
  BY BoundsTyped
<1>2. IsFiniteSet(1..(MaxAccessChanges + 1))
      /\ Cardinality(1..(MaxAccessChanges + 1)) = MaxAccessChanges + 1
  BY <1>1, FS_Interval
<1> QED
  BY <1>2 DEF Workers

LEMMA IdleTyped == Idle \in WorkerRecords /\ Idle.live = FALSE
BY DEF Idle, WorkerRecords, Status, NoKey

LEMMA IdleRests == [Idle EXCEPT !.live = FALSE] = Idle
<1> DEFINE r == [Idle EXCEPT !.live = FALSE]
<1>1. r = [f \in DOMAIN Idle |-> Idle[f]]
  BY IdleTyped DEF WorkerRecords
<1> QED
  BY <1>1, IdleTyped DEF WorkerRecords

(* Every set of keys that has one has a first one. *)
LEMMA Least ==
  ASSUME NEW S \in SUBSET Nat, S # {}
  PROVE  \E x \in S : \A y \in S : x <= y
<1>1. PICK x \in S : \A y \in S : ~(<<y, x>> \in OpToRel(<, Nat))
  BY NatLessThanWellFounded, WFMin
<1>2. \A y \in S : ~(y < x)
  BY <1>1 DEF OpToRel
<1> QED
  BY <1>2

LEMMA FirstIn ==
  ASSUME NEW S \in SUBSET Keys, S # {}
  PROVE  First(S) \in S
<1> DEFINE I == {k[1] : k \in S}
<1>1. I \in SUBSET Nat /\ I # {}
  BY DEF Keys
<1>2. PICK i \in I : \A y \in I : i <= y
  <2> HIDE DEF I
  <2> QED BY <1>1, Least
<1> DEFINE N == {n \in 0..MaxReplacements : <<i, n>> \in S}
<1>3. N \in SUBSET Nat /\ N # {}
  <2>1. PICK k \in S : k[1] = i
    BY <1>2
  <2>2. k = <<i, k[2]>> /\ k[2] \in 0..MaxReplacements
    BY <2>1 DEF Keys
  <2>3. k[2] \in N
    BY <2>2
  <2>4. 0..MaxReplacements \subseteq Nat
    BY BoundsTyped
  <2> QED BY <2>3, <2>4
<1>4. PICK n \in N : \A y \in N : n <= y
  <2> HIDE DEF N
  <2> QED BY <1>3, Least
<1>5. <<i, n>> \in S
  BY <1>4
<1>6. ASSUME NEW j \in S
      PROVE  j = <<i, n>> \/ Before(<<i, n>>, j)
  <2>1. j = <<j[1], j[2]>> /\ j[1] \in I /\ j[1] \in Nat /\ j[2] \in 0..MaxReplacements
    BY SMTT(30) DEF Keys
  <2>2. i <= j[1] /\ i \in Nat /\ n \in Nat
    BY <1>1, <1>2, <1>3, <2>1
  <2>3. CASE j[1] = i
    <3>1. j[2] \in N
      BY <2>1, <2>3
    <3>2. n <= j[2]
      BY <1>4, <3>1
    <3> QED BY <2>1, <2>2, <2>3, <3>2 DEF Before
  <2>4. CASE j[1] # i
    BY <2>1, <2>2, <2>4 DEF Before
  <2> QED BY <2>3, <2>4
<1> HIDE DEF I, N
<1> QED
  BY <1>5, <1>6, Zenon DEF First

LEMMA OkMeansBut ==
  ASSUME NEW loop, NEW S, NEW C, NEW n \in Nat, LoopOK(loop, S, C, n), NEW w \in Workers
  PROVE  LoopBut(w, loop, S, C, n)
<1>1. IsFiniteSet(Stale(loop)) /\ Stale(loop) \ {w} \subseteq Stale(loop)
  BY WorkersFinite, FS_Subset DEF Stale
<1>2. Cardinality(Stale(loop) \ {w}) <= Cardinality(Stale(loop))
  BY <1>1, FS_Subset
<1>3. Cardinality(Stale(loop)) \in Nat /\ Cardinality(Stale(loop) \ {w}) \in Nat
  BY <1>1, FS_Subset, FS_CardinalityType
<1> QED
  BY <1>2, <1>3 DEF LoopOK, LoopBut

(* Replacing the record of w by a sound one that is idle or owns the flush. *)
LEMMA ReplaceWorker ==
  ASSUME NEW loop, NEW S, NEW C, NEW n \in Nat, NEW w \in Workers,
         LoopBut(w, loop, S, C, n),
         NEW next \in Loops, NEW r \in WorkerRecords, WorkerOK(r, S, C),
         next.workers = [loop.workers EXCEPT ![w] = r],
         r = Idle \/ r.live,
         \A q \in Workers \ {w} : next.workers[q].live => next.flush.owner = q,
         r.live => next.flush.owner = w
  PROVE  LoopOK(next, S, C, n)
<1>1. next.workers[w] = r /\ \A q \in Workers \ {w} : next.workers[q] = loop.workers[q]
  BY DEF LoopBut, Loops
<1>2. \A q \in Workers : WorkerOK(next.workers[q], S, C)
  BY <1>1 DEF LoopBut
<1>3. OneOwner(next)
  BY <1>1 DEF OneOwner
<1>4. Stale(next) \subseteq Stale(loop) \ {w}
  BY <1>1 DEF Stale
<1>5. IsFiniteSet(Stale(loop) \ {w})
  BY WorkersFinite, FS_Subset DEF Stale
<1>6. Cardinality(Stale(next)) <= Cardinality(Stale(loop) \ {w})
      /\ Cardinality(Stale(next)) \in Nat /\ Cardinality(Stale(loop) \ {w}) \in Nat
  BY <1>4, <1>5, FS_Subset, FS_CardinalityType
<1>7. Cardinality(Stale(next)) <= n
  BY <1>6 DEF LoopBut
<1> QED
  BY <1>2, <1>3, <1>7 DEF LoopOK

LEMMA ReleaseOK ==
  ASSUME NEW loop, NEW S, NEW C, NEW n \in Nat, NEW w \in Workers,
         LoopBut(w, loop, S, C, n)
  PROVE  /\ LoopOK(Release(w, loop), S, C, n)
         /\ loop.flush.owner = w => Release(w, loop).flush.owner = NoWorker
<1> DEFINE next == Release(w, loop)
<1>1. loop \in Loops /\ loop.flush \in FlushRecords /\ loop.workers \in [Workers -> WorkerRecords]
  BY DEF LoopBut, Loops
<1>2. /\ next.workers = [loop.workers EXCEPT ![w] = Idle]
      /\ next.flush.owner = IF loop.flush.owner = w THEN NoWorker ELSE loop.flush.owner
      /\ next.flush.timer = loop.flush.timer
      /\ next.flush.requested \in BOOLEAN
  BY <1>1 DEF Release, Loops, FlushRecords
<1>3. next \in Loops
  BY <1>1, <1>2, IdleTyped DEF Release, Loops, FlushRecords
<1>4. WorkerOK(Idle, S, C)
  BY DEF WorkerOK, Idle
<1>5. \A q \in Workers \ {w} : next.workers[q].live => next.flush.owner = q
  BY <1>1, <1>2 DEF LoopBut, OneOwner
<1> HIDE DEF next
<1>6. LoopOK(next, S, C, n)
  BY <1>2, <1>3, <1>4, <1>5, IdleTyped, ReplaceWorker
<1> QED
  BY <1>2, <1>6 DEF next

LEMMA DeliverableSendable ==
  ASSUME NEW q, NEW k \in Deliverable(q), q \in [Keys -> Items]
  PROVE  k \in Held(q) /\ q[k].status \in {"pending", "sending", "retry_wait"}
<1>1. k \in Held(q) /\ ~Blocking(q, k) /\ k \in Keys /\ q[k].status # "none"
      /\ q[k].status \in Status
  BY DEF Deliverable, Held, Items
<1> QED
  BY <1>1 DEF Blocking, Status

LEMMA ScheduleOK ==
  ASSUME NEW c, NEW loop, NEW S, NEW C, NEW n, NEW w, LoopBut(w, loop, S, C, n)
  PROVE  /\ LoopBut(w, ScheduleNextRetry(c, loop), S, C, n)
         /\ ScheduleNextRetry(c, loop).workers = loop.workers
         /\ ScheduleNextRetry(c, loop).flush.owner = loop.flush.owner
         /\ ScheduleNextRetry(c, loop).flush.requested = loop.flush.requested
<1> DEFINE next == ScheduleNextRetry(c, loop)
           heads == {k \in firstItemsByConversation(c.view) : c.view[k].status = "retry_wait"}
<1>1. loop \in Loops /\ heads \in SUBSET Keys
  BY DEF LoopBut, firstItemsByConversation, Held
<1> HIDE DEF heads
<1>2. next = loop \/ next = [loop EXCEPT !.flush.timer = heads]
  BY DEF ScheduleNextRetry, heads
<1>3. /\ next \in Loops /\ next.workers = loop.workers
      /\ next.flush.owner = loop.flush.owner /\ next.flush.requested = loop.flush.requested
  BY <1>1, <1>2 DEF Loops, FlushRecords
<1> HIDE DEF next
<1>4. Stale(next) = Stale(loop) /\ (OneOwner(loop) => OneOwner(next))
  BY <1>3 DEF Stale, OneOwner
<1>5. LoopBut(w, next, S, C, n)
  BY <1>3, <1>4 DEF LoopBut
<1> QED
  BY <1>3, <1>5 DEF next

LEMMA ScheduleKeepsOK ==
  ASSUME NEW c, NEW loop, NEW S, NEW C, NEW n, LoopOK(loop, S, C, n)
  PROVE  LoopOK(ScheduleNextRetry(c, loop), S, C, n)
<1> DEFINE next == ScheduleNextRetry(c, loop)
           heads == {k \in firstItemsByConversation(c.view) : c.view[k].status = "retry_wait"}
<1>1. loop \in Loops /\ heads \in SUBSET Keys
  BY DEF LoopOK, firstItemsByConversation, Held
<1> HIDE DEF heads
<1>2. next = loop \/ next = [loop EXCEPT !.flush.timer = heads]
  BY DEF ScheduleNextRetry, heads
<1>3. next \in Loops /\ next.workers = loop.workers /\ next.flush.owner = loop.flush.owner
  BY <1>1, <1>2 DEF Loops, FlushRecords
<1> HIDE DEF next
<1>4. Stale(next) = Stale(loop) /\ (OneOwner(loop) => OneOwner(next))
  BY <1>3 DEF Stale, OneOwner
<1>5. LoopOK(next, S, C, n)
  BY <1>3, <1>4 DEF LoopOK
<1> QED
  BY <1>5 DEF next

LEMMA TurnOK ==
  ASSUME NEW c, NEW loop, NEW S \in SUBSET Keys, NEW C, NEW n \in Nat, NEW w \in Workers,
         LoopBut(w, loop, S, C, n), ContextOK(c, S)
  PROVE  LoopOK(Turn(w, c, loop), S, C, n)
<1> DEFINE k == First(Deliverable(c.view))
           r == [Idle EXCEPT !.pc = "claim", !.key = k, !.live = TRUE,
                             !.status = c.view[k].status,
                             !.attempt = c.view[k].attempt + 1]
<1>1. \/ Turn(w, c, loop) = Release(w, loop)
      \/ Turn(w, c, loop) = Release(w, ScheduleNextRetry(c, loop))
      \/ /\ Deliverable(c.view) # {} /\ Current(w, c, loop)
         /\ Turn(w, c, loop) = [loop EXCEPT !.workers[w] = r]
  BY DEF Turn
<1>2. LoopOK(Release(w, loop), S, C, n)
  BY ReleaseOK
<1>3. LoopOK(Release(w, ScheduleNextRetry(c, loop)), S, C, n)
  BY ReleaseOK, ScheduleOK
<1>4. CASE /\ Deliverable(c.view) # {} /\ Current(w, c, loop)
           /\ Turn(w, c, loop) = [loop EXCEPT !.workers[w] = r]
  <2>1. Deliverable(c.view) \in SUBSET Keys /\ Deliverable(c.view) # {}
    BY <1>4 DEF Deliverable, Held
  <2>2. k \in Deliverable(c.view)
    BY <2>1, FirstIn
  <2> HIDE DEF k
  <2>3. /\ k \in S /\ k \in Keys /\ c.view[k] \in Items
        /\ c.view[k].status \in {"pending", "sending", "retry_wait"}
    BY <2>2, DeliverableSendable DEF ContextOK, Held
  <2>4. /\ r.pc = "claim" /\ r.key = k /\ r.live = TRUE /\ r.status = c.view[k].status
        /\ r.result = "none" /\ r.done = FALSE /\ r.attempt = c.view[k].attempt + 1
    BY DEF Idle
  <2>5. r \in WorkerRecords
    <3>1. c.view[k].attempt \in Nat /\ c.view[k].attempt + 1 \in Nat
      BY <2>3 DEF Items
    <3>2. c.view[k].status \in Status
      BY <2>3 DEF Items
    <3> HIDE <2>3, <2>4, <2>2
    <3> QED BY <2>3, <3>1, <3>2, IdleTyped DEF WorkerRecords
  <2>6. WorkerOK(r, S, C)
    BY <2>3, <2>4 DEF WorkerOK
  <2> HIDE DEF r
  <2> DEFINE next == [loop EXCEPT !.workers[w] = r]
  <2>7. /\ next \in Loops /\ next.workers = [loop.workers EXCEPT ![w] = r]
        /\ next.flush = loop.flush /\ loop.workers \in [Workers -> WorkerRecords]
    BY <2>5 DEF LoopBut, Loops
  <2>8. loop.flush.owner = w
    BY <1>4 DEF Current
  <2>9. \A q \in Workers \ {w} : next.workers[q].live => next.flush.owner = q
    BY <2>7 DEF LoopBut, OneOwner
  <2> HIDE DEF next
  <2>10. LoopOK(next, S, C, n)
    BY <2>4, <2>5, <2>6, <2>7, <2>8, <2>9, ReplaceWorker
  <2> QED
    BY <1>4, <2>10 DEF next
<1> HIDE DEF r
<1> QED
  BY <1>1, <1>2, <1>3, <1>4

(* A flush starts a loop only where none is live, and there is room for it. *)
LEMMA FlushOK ==
  ASSUME NEW c, NEW loop, NEW S \in SUBSET Keys, NEW C, NEW n \in 0..MaxAccessChanges,
         LoopOK(loop, S, C, n), ContextOK(c, S)
  PROVE  LoopOK(FlushOutbox(c, loop), S, C, n)
<1> DEFINE owner == loop.flush.owner
           w == CHOOSE i \in Workers : loop.workers[i] = Idle
           more == [loop EXCEPT !.flush.requested = TRUE]
           begun == [loop EXCEPT !.flush = [Unowned EXCEPT !.owner = w], !.workers[w].live = TRUE]
<1>1. \/ FlushOutbox(c, loop) = loop
      \/ FlushOutbox(c, loop) = more
      \/ /\ ~(owner # NoWorker /\ loop.workers[owner].live)
         /\ FlushOutbox(c, loop) = Turn(w, c, begun)
  BY DEF FlushOutbox
<1>2. loop \in Loops /\ n \in Nat /\ n <= MaxAccessChanges
  BY BoundsTyped DEF LoopOK
<1>3. LoopOK(more, S, C, n)
  <2>1. more \in Loops /\ more.workers = loop.workers /\ more.flush.owner = loop.flush.owner
    BY <1>2 DEF Loops, FlushRecords
  <2> HIDE DEF more
  <2>2. Stale(more) = Stale(loop) /\ (OneOwner(loop) => OneOwner(more))
    BY <2>1 DEF Stale, OneOwner
  <2> QED
    BY <2>1, <2>2 DEF LoopOK
<1>4. CASE ~(owner # NoWorker /\ loop.workers[owner].live)
  <2>1. \A q \in Workers : loop.workers[q].live = FALSE
    <3>1. \A q \in Workers : loop.workers[q].live \in BOOLEAN
      BY <1>2 DEF Loops, WorkerRecords
    <3>2. \A q \in Workers : ~loop.workers[q].live
      BY <1>4 DEF LoopOK, OneOwner, Workers, NoWorker
    <3> QED BY <3>1, <3>2
  <2>2. \E i \in Workers : loop.workers[i] = Idle
    <3>1. SUFFICES ASSUME \A i \in Workers : loop.workers[i] # Idle PROVE FALSE
      OBVIOUS
    <3>2. Stale(loop) = Workers
      BY <2>1, <3>1 DEF Stale
    <3>3. Cardinality(Workers) <= n
      BY <3>2 DEF LoopOK
    <3> QED
      BY <1>2, <3>3, WorkersFinite, BoundsTyped
  <2>3. w \in Workers /\ loop.workers[w] = Idle
    BY <2>2
  <2> HIDE DEF w
  <2>4. LoopBut(w, begun, S, C, n)
    <3>1. [Unowned EXCEPT !.owner = w] \in FlushRecords
          /\ [Unowned EXCEPT !.owner = w].owner = w
      BY <2>3 DEF Unowned, FlushRecords
    <3>2. [Idle EXCEPT !.live = TRUE] \in WorkerRecords
      BY IdleTyped DEF WorkerRecords
    <3>3. /\ begun \in Loops /\ begun.flush.owner = w
          /\ begun.workers = [loop.workers EXCEPT ![w] = [Idle EXCEPT !.live = TRUE]]
      BY <1>2, <2>3, <3>1, <3>2 DEF Loops
    <3> HIDE DEF begun
    <3>4. \A q \in Workers \ {w} : begun.workers[q] = loop.workers[q]
      BY <1>2, <3>3 DEF Loops
    <3>5. OneOwner(begun)
      BY <2>1, <3>3, <3>4 DEF OneOwner
    <3>6. LoopBut(w, loop, S, C, n)
      BY <1>2, <2>3, OkMeansBut
    <3>7. Stale(begun) \ {w} = Stale(loop) \ {w}
      BY <3>4 DEF Stale
    <3> QED
      BY <3>3, <3>4, <3>5, <3>6, <3>7 DEF LoopBut
  <2> HIDE DEF begun
  <2>5. LoopOK(Turn(w, c, begun), S, C, n)
    BY <1>2, <2>3, <2>4, TurnOK
  <2> QED
    BY <1>1, <1>3, <2>5
<1> HIDE DEF more
<1> QED
  BY <1>1, <1>3, <1>4

LEMMA RerunOK ==
  ASSUME NEW c, NEW loop, NEW after, NEW S \in SUBSET Keys, NEW C,
         NEW n \in 0..MaxAccessChanges, NEW w,
         LoopOK(after, S, C, n), ContextOK(c, S)
  PROVE  LoopOK(Rerun(w, c, loop, after), S, C, n)
<1>1. Rerun(w, c, loop, after) = after \/ Rerun(w, c, loop, after) = FlushOutbox(c, after)
  BY DEF Rerun
<1>2. LoopOK(FlushOutbox(c, after), S, C, n)
  BY FlushOK
<1> QED
  BY <1>1, <1>2

LEMMA FinishOK ==
  ASSUME NEW c, NEW loop, NEW S \in SUBSET Keys, NEW C, NEW n \in 0..MaxAccessChanges,
         NEW w \in Workers, LoopOK(loop, S, C, n), ContextOK(c, S)
  PROVE  LoopOK(Finish(w, c, loop), S, C, n)
<1>1. n \in Nat
  BY BoundsTyped
<1>2. LoopOK(Release(w, loop), S, C, n)
  BY <1>1, OkMeansBut, ReleaseOK
<1> QED
  BY <1>2, RerunOK DEF Finish

LEMMA AgainOK ==
  ASSUME NEW c, NEW loop, NEW S \in SUBSET Keys, NEW C, NEW n \in 0..MaxAccessChanges,
         NEW w \in Workers, LoopOK(loop, S, C, n), ContextOK(c, S)
  PROVE  LoopOK(Again(w, c, loop), S, C, n)
<1>1. n \in Nat
  BY BoundsTyped
<1>2. LoopOK(Turn(w, c, loop), S, C, n)
  BY <1>1, OkMeansBut, TurnOK
<1> QED
  BY <1>2, RerunOK DEF Again

(* What is written and committed only grows, and so does the room for loops. *)
LEMMA LoopGrows ==
  ASSUME NEW loop, NEW S, NEW C, NEW n \in Nat, LoopOK(loop, S, C, n),
         NEW T, S \subseteq T, NEW D, C \subseteq D, NEW m \in Nat, n <= m
  PROVE  LoopOK(loop, T, D, m)
<1>1. \A w \in Workers : WorkerOK(loop.workers[w], T, D)
  BY DEF LoopOK, WorkerOK
<1>2. Cardinality(Stale(loop)) \in Nat
  BY WorkersFinite, FS_Subset, FS_CardinalityType DEF Stale
<1>3. Cardinality(Stale(loop)) <= m
  BY <1>2 DEF LoopOK
<1> QED
  BY <1>1, <1>3 DEF LoopOK

(* A worker goes from one await to the next. *)
LEMMA MoveOK ==
  ASSUME NEW loop, NEW S, NEW C, NEW n \in Nat, LoopOK(loop, S, C, n),
         NEW w \in Workers, loop.workers[w] # Idle,
         NEW r \in WorkerRecords, WorkerOK(r, S, C), r.live = loop.workers[w].live,
         NEW next \in Loops, next.flush.owner = loop.flush.owner,
         next.workers = [loop.workers EXCEPT ![w] = r]
  PROVE  LoopOK(next, S, C, n)
<1>1. next.workers[w] = r /\ \A q \in Workers \ {w} : next.workers[q] = loop.workers[q]
  BY DEF LoopOK, Loops
<1>2. \A q \in Workers : WorkerOK(next.workers[q], S, C)
  BY <1>1 DEF LoopOK
<1>3. OneOwner(next)
  BY <1>1 DEF LoopOK, OneOwner
<1>4. Stale(next) \subseteq Stale(loop)
  BY <1>1 DEF Stale
<1>5. IsFiniteSet(Stale(loop))
  BY WorkersFinite, FS_Subset DEF Stale
<1>6. Cardinality(Stale(next)) <= Cardinality(Stale(loop))
      /\ Cardinality(Stale(next)) \in Nat /\ Cardinality(Stale(loop)) \in Nat
  BY <1>4, <1>5, FS_Subset, FS_CardinalityType
<1>7. Cardinality(Stale(next)) <= n
  BY <1>6 DEF LoopOK
<1> QED
  BY <1>2, <1>3, <1>7 DEF LoopOK

(* A rotation retires the live loop, if there is one, and starts none. *)
LEMMA RotationOK ==
  ASSUME NEW loop, NEW S, NEW C, NEW n \in Nat, LoopOK(loop, S, C, n)
  PROVE  LoopOK([flush |-> [loop.flush EXCEPT !.timer = {}],
                 workers |-> [w \in Workers |-> [loop.workers[w] EXCEPT !.live = FALSE]]],
                S, C, n + 1)
<1> DEFINE next == [flush |-> [loop.flush EXCEPT !.timer = {}],
                    workers |-> [w \in Workers |-> [loop.workers[w] EXCEPT !.live = FALSE]]]
           owner == loop.flush.owner
<1>1. loop \in Loops /\ next.flush \in FlushRecords
      /\ \A w \in Workers : loop.workers[w] \in WorkerRecords
  BY DEF LoopOK, Loops, FlushRecords
<1>2. \A w \in Workers : /\ next.workers[w] = [loop.workers[w] EXCEPT !.live = FALSE]
                         /\ next.workers[w] \in WorkerRecords
                         /\ next.workers[w].live = FALSE
  BY <1>1, ZenonT(40) DEF WorkerRecords
<1>3. next \in Loops
  BY <1>1, <1>2 DEF Loops
<1>4. ASSUME NEW w \in Workers PROVE WorkerOK(next.workers[w], S, C)
  <2>1. WorkerOK(loop.workers[w], S, C)
    BY DEF LoopOK
  <2>2. CASE loop.workers[w] = Idle
    <3>1. next.workers[w] = Idle
      BY <1>2, <2>2, IdleRests
    <3> QED BY <2>1, <2>2, <3>1
  <2>3. CASE loop.workers[w] # Idle
    <3> DEFINE r == next.workers[w]
               p == loop.workers[w]
    <3>1. /\ r.pc = p.pc /\ r.key = p.key /\ r.status = p.status /\ r.result = p.result
      BY <1>1, <1>2 DEF WorkerRecords
    <3> HIDE DEF next
    <3> QED BY <2>1, <2>3, <3>1 DEF WorkerOK
  <2> QED BY <2>2, <2>3
<1>5. OneOwner(next)
  BY <1>2 DEF OneOwner
<1>6. Stale(next) \subseteq Stale(loop) \cup {owner}
  <2>1. ASSUME NEW w \in Workers, next.workers[w] # Idle, w # owner
        PROVE  loop.workers[w] # Idle /\ ~loop.workers[w].live
    <3>1. loop.workers[w] = Idle => next.workers[w] = Idle
      BY <1>2, IdleRests
    <3>2. ~loop.workers[w].live
      BY <2>1 DEF LoopOK, OneOwner
    <3> QED BY <2>1, <3>1, <3>2
  <2> HIDE DEF next
  <2> QED BY <2>1 DEF Stale
<1>7. IsFiniteSet(Stale(loop))
  BY WorkersFinite, FS_Subset DEF Stale
<1>8. /\ IsFiniteSet(Stale(loop) \cup {owner})
      /\ Cardinality(Stale(loop) \cup {owner})
           = IF owner \in Stale(loop) THEN Cardinality(Stale(loop))
                                      ELSE Cardinality(Stale(loop)) + 1
  BY <1>7, FS_AddElement
<1>9. Cardinality(Stale(next)) <= Cardinality(Stale(loop) \cup {owner})
      /\ Cardinality(Stale(next)) \in Nat /\ Cardinality(Stale(loop)) \in Nat
  BY <1>6, <1>7, <1>8, FS_Subset, FS_CardinalityType
<1>10. Cardinality(Stale(loop)) <= n
  BY DEF LoopOK
<1> HIDE DEF next, owner
<1>11. Cardinality(Stale(next)) <= n + 1
  BY <1>8, <1>9, <1>10
<1>12. LoopOK(next, S, C, n + 1)
  BY <1>3, <1>4, <1>5, <1>11 DEF LoopOK
<1> QED
  BY <1>12 DEF next

LEMMA FreshOK ==
  ASSUME NEW S, NEW C, NEW n \in Nat
  PROVE  LoopOK([flush |-> Unowned, workers |-> [w \in Workers |-> Idle]], S, C, n)
<1> DEFINE next == [flush |-> Unowned, workers |-> [w \in Workers |-> Idle]]
<1>1. next \in Loops
  BY IdleTyped DEF Loops, Unowned, FlushRecords, NoWorker
<1>2. \A w \in Workers : next.workers[w] = Idle
  OBVIOUS
<1>3. WorkerOK(Idle, S, C)
  BY DEF WorkerOK, Idle
<1>4. OneOwner(next)
  BY <1>2, IdleTyped DEF OneOwner
<1>5. Stale(next) = {}
  BY <1>2 DEF Stale
<1>6. Cardinality(Stale(next)) <= n
  <2>1. Cardinality({}) = 0
    BY FS_EmptySet
  <2>2. Cardinality(Stale(next)) = 0
    BY <1>5, <2>1, Zenon
  <2> QED BY <2>2
<1> HIDE DEF next
<1>7. LoopOK(next, S, C, n)
  BY <1>1, <1>2, <1>3, <1>4, <1>6 DEF LoopOK
<1> QED
  BY <1>7 DEF next

-----------------------------------------------------------------------------
(* The inductive invariant.                                                *)

Authored == {k \in Keys : k[1] <= authored}
Entries == [kind : {"message"}, key : Keys]
             \cup [kind : {"access"}, conversation : Conversation, on : BOOLEAN]
Reads == [kind : {"catalog", "sync"}, read : {TRUE}, items : [Keys -> Items],
          shown : SUBSET Conversation]
Reloads == {NoReload} \cup [kind : {"catalog"}, read : {FALSE}] \cup Reads

(* The tables are typed, and hold only what a person wrote. *)
TablesHold ==
  /\ rows \in [Keys -> Items] /\ view \in [Keys -> Items]
  /\ waiting \subseteq Keys /\ access \subseteq Conversation /\ shown \subseteq Conversation
  /\ publishing \in Keys \cup {NoKey} /\ gates \subseteq Gates
  /\ reload \in Reloads /\ authored \in 0..MaxAuthored
  /\ Held(rows) \cup Held(view) \cup orphans \cup settled \subseteq Authored
  /\ reload \in Reads => Held(reload.items) \subseteq Authored

(* The log is typed, and as long as the bound lets it grow. *)
Changes(n) == {i \in 1..n : log[i].kind = "access"}
HistoryHolds ==
  /\ log \in Seq(Entries) /\ cursor \in 0..Len(log) /\ heard \in 0..Len(log)
  /\ CommittedKeys \subseteq Authored
  /\ used \in [DOMAIN Bounds -> Nat] /\ used["accesses"] <= MaxAccessChanges
  /\ Cardinality(Changes(Len(log))) <= used["accesses"]

(* The loop is sound; each stale one was retired by a change the socket told. *)
LoopHolds == LoopOK(Loop, Authored, CommittedKeys, Cardinality(Changes(heard)))

(* The last edit of every message is born: in the outbox, with the server, or *)
(* given up.                                                                 *)
Born == Held(rows) \cup CommittedKeys \cup settled
KeptIn(B, n) ==
  \A i \in 1..n : \E e \in 0..MaxReplacements :
    <<i, e>> \in B /\ \A m \in (e + 1)..MaxReplacements : <<i, m>> \notin B
Kept == KeptIn(Born, authored)

IInv == TablesHold /\ HistoryHolds /\ LoopHolds /\ Kept

-----------------------------------------------------------------------------
(* What the operators do to an outbox and to the keys that were born.      *)

LEMMA ItemsTyped ==
  /\ Absent \in Items /\ Pending \in Items /\ Absent.status = "none"
  /\ Pending.status = "pending"
  /\ \A s \in Status, n \in Nat : Item(s, n) \in Items /\ Item(s, n).status = s
BY DEF Absent, Pending, Item, Items, Status

LEMMA WithoutHolds ==
  ASSUME NEW q \in [Keys -> Items], NEW S
  PROVE  Without(q, S) \in [Keys -> Items] /\ Held(Without(q, S)) = Held(q) \ S
BY ItemsTyped DEF Without, Held

LEMMA LoadedHolds ==
  ASSUME NEW q \in [Keys -> Items]
  PROVE  Loaded(q) \in [Keys -> Items] /\ Held(Loaded(q)) = Held(q)
<1> DEFINE p(k) == [q[k] EXCEPT !.status = "pending"]
<1>1. \A k \in Keys : q[k] \in Items
  OBVIOUS
<1>2. \A k \in Keys : p(k) \in Items /\ p(k).status = "pending"
  BY <1>1 DEF Items, Status
<1> HIDE DEF p
<1>3. \A k \in Keys : Loaded(q)[k] = IF q[k].status = "sending" THEN p(k) ELSE q[k]
  BY DEF Loaded, p
<1>4. Loaded(q) \in [Keys -> Items]
  BY <1>1, <1>2 DEF Loaded, p
<1> QED
  BY <1>2, <1>3, <1>4 DEF Held

LEMMA RevokedHolds ==
  ASSUME NEW q \in [Keys -> Items], NEW S
  PROVE  Revoked(q, S) \in [Keys -> Items] /\ Held(Revoked(q, S)) = Held(q)
<1> DEFINE p(k) == Item("permanent_failure", q[k].attempt)
<1>1. \A k \in Keys : q[k] \in Items /\ q[k].attempt \in Nat
  BY DEF Items
<1>2. \A k \in Keys : p(k) \in Items /\ p(k).status = "permanent_failure"
  BY <1>1, ItemsTyped DEF Status
<1> HIDE DEF p
<1>3. \A k \in Keys : Revoked(q, S)[k] = IF k \in Held(q) /\ Conv(k) \notin S THEN p(k) ELSE q[k]
  BY DEF Revoked, p
<1>4. Revoked(q, S) \in [Keys -> Items]
  BY <1>1, <1>2 DEF Revoked, p
<1> QED
  BY <1>2, <1>3, <1>4 DEF Held

(* One more key is born: it is the last of its message, or another one is. *)
LEMMA KeptAdds ==
  ASSUME NEW B, NEW n \in Nat, KeptIn(B, n), NEW k \in Keys
  PROVE  KeptIn(B \cup {k}, n)
<1> SUFFICES ASSUME NEW i \in 1..n
             PROVE  \E e \in 0..MaxReplacements :
                      <<i, e>> \in B \cup {k}
                      /\ \A m \in (e + 1)..MaxReplacements : <<i, m>> \notin B \cup {k}
  BY DEF KeptIn
<1>1. PICK e \in 0..MaxReplacements :
        <<i, e>> \in B /\ \A m \in (e + 1)..MaxReplacements : <<i, m>> \notin B
  BY DEF KeptIn
<1>2. k = <<k[1], k[2]>> /\ k[2] \in 0..MaxReplacements /\ k[1] \in Nat
  BY DEF Keys
<1>3. CASE k[1] = i /\ k[2] > e
  <2>1. \A m \in (k[2] + 1)..MaxReplacements : m \in (e + 1)..MaxReplacements /\ m # k[2]
    BY <1>2, <1>3, BoundsTyped, SMTT(30)
  <2>2. \A m \in (k[2] + 1)..MaxReplacements : <<i, m>> \notin B \cup {k}
    BY <1>1, <1>2, <2>1
  <2>3. <<i, k[2]>> \in B \cup {k}
    BY <1>2, <1>3
  <2> QED BY <1>2, <2>2, <2>3
<1>4. CASE ~(k[1] = i /\ k[2] > e)
  <2>1. \A m \in (e + 1)..MaxReplacements : ~(k[1] = i /\ k[2] = m)
    BY <1>2, <1>4, BoundsTyped
  <2>2. \A m \in (e + 1)..MaxReplacements : <<i, m>> \notin B \cup {k}
    BY <1>1, <1>2, <2>1
  <2> QED BY <1>1, <2>2
<1> QED BY <1>3, <1>4

-----------------------------------------------------------------------------
(* The log, and the room its changes of the membership leave for loops.    *)

LEMMA ChangesCount ==
  ASSUME NEW m \in Nat, NEW n \in Nat, m <= n
  PROVE  /\ Changes(m) \subseteq Changes(n) /\ IsFiniteSet(Changes(n))
         /\ Cardinality(Changes(m)) \in Nat /\ Cardinality(Changes(n)) \in Nat
         /\ Cardinality(Changes(m)) <= Cardinality(Changes(n))
<1>1. IsFiniteSet(1..n) /\ IsFiniteSet(1..m)
  <2>1. 1 \in Int /\ m \in Int /\ n \in Int
    OBVIOUS
  <2> QED BY <2>1, FS_Interval
<1>2. IsFiniteSet(Changes(n)) /\ IsFiniteSet(Changes(m)) /\ Changes(m) \subseteq Changes(n)
  BY <1>1, FS_Subset DEF Changes
<1> QED
  BY <1>2, FS_Subset, FS_CardinalityType

LEMMA Room ==
  ASSUME HistoryHolds
  PROVE  Cardinality(Changes(heard)) \in 0..MaxAccessChanges
<1>1. heard \in Nat /\ Len(log) \in Nat /\ heard <= Len(log)
  BY DEF HistoryHolds
<1>2. /\ Cardinality(Changes(heard)) \in Nat /\ Cardinality(Changes(Len(log))) \in Nat
      /\ Cardinality(Changes(heard)) <= Cardinality(Changes(Len(log)))
  BY <1>1, ChangesCount
<1>3. Cardinality(Changes(Len(log))) <= used["accesses"] /\ used["accesses"] <= MaxAccessChanges
      /\ used["accesses"] \in Nat
  BY DEF HistoryHolds, Bounds
<1> QED
  BY <1>2, <1>3, BoundsTyped

LEMMA LogKept ==
  ASSUME UNCHANGED log
  PROVE  /\ CommittedKeys' = CommittedKeys
         /\ \A n : {i \in 1..n : log'[i].kind = "access"} = Changes(n)
BY DEF CommittedKeys, Messages, Changes

(* An entry is appended: what was committed stays so. *)
LEMMA LogAppends ==
  ASSUME HistoryHolds, NEW e \in Entries, log' = Append(log, e)
  PROVE  /\ log' \in Seq(Entries) /\ Len(log') = Len(log) + 1
         /\ e.kind = "message" => CommittedKeys' = CommittedKeys \cup {e.key}
         /\ e.kind = "access" => CommittedKeys' = CommittedKeys
         /\ \A n \in 0..Len(log) : {i \in 1..n : log'[i].kind = "access"} = Changes(n)
         /\ e.kind = "message" => {i \in 1..Len(log') : log'[i].kind = "access"} = Changes(Len(log))
         /\ e.kind = "access" =>
              {i \in 1..Len(log') : log'[i].kind = "access"} = Changes(Len(log)) \cup {Len(log) + 1}
<1> DEFINE n == Len(log) + 1
<1>1. log \in Seq(Entries) /\ Len(log) \in Nat
  BY DEF HistoryHolds
<1>2. /\ log' \in Seq(Entries) /\ Len(log') = n /\ DOMAIN log' = 1..n /\ DOMAIN log = 1..Len(log)
      /\ log'[n] = e /\ \A i \in 1..Len(log) : log'[i] = log[i]
  BY <1>1
<1>3. 1..n = 1..Len(log) \cup {n} /\ n \notin 1..Len(log)
  BY <1>1
<1> HIDE DEF n
<1>4. Messages' = IF e.kind = "message" THEN Messages \cup {n} ELSE Messages
  BY <1>2, <1>3 DEF Messages
<1>5. \A i \in Messages : log'[i].key = log[i].key
  BY <1>2 DEF Messages
<1>6. CommittedKeys' = IF e.kind = "message" THEN CommittedKeys \cup {e.key} ELSE CommittedKeys
  <2>1. \A x : x \in CommittedKeys' <=> \E i \in Messages' : log'[i].key = x
    BY DEF CommittedKeys
  <2>2. \A x : x \in CommittedKeys <=> \E i \in Messages : log[i].key = x
    BY DEF CommittedKeys
  <2>3. \A x : x \in CommittedKeys' <=>
          x \in CommittedKeys \/ (e.kind = "message" /\ x = e.key)
    <3>1. CASE e.kind = "message"
      <4>1. Messages' = Messages \cup {n} /\ log'[n].key = e.key
        BY <1>2, <1>4, <3>1
      <4> QED BY <1>5, <2>1, <2>2, <3>1, <4>1, ZenonT(40)
    <3>2. CASE e.kind # "message"
      BY <1>4, <1>5, <2>1, <2>2, <3>2, ZenonT(40)
    <3> QED BY <3>1, <3>2
  <2> QED BY <2>3
<1>7. \A m \in 0..Len(log) : {i \in 1..m : log'[i].kind = "access"} = Changes(m)
  BY <1>1, <1>2 DEF Changes
<1>8. {i \in 1..n : log'[i].kind = "access"}
        = IF e.kind = "access" THEN Changes(Len(log)) \cup {n} ELSE Changes(Len(log))
  BY <1>2, <1>3 DEF Changes
<1> QED
  BY <1>2, <1>6, <1>7, <1>8 DEF n

-----------------------------------------------------------------------------
(* What the parts of the invariant are left with by a step.                *)

(* The log, the socket's place and what was written are left alone. *)
Quiet == UNCHANGED <<log, heard, authored>>

LEMMA QuietKeeps ==
  ASSUME Quiet
  PROVE  /\ Authored' = Authored /\ CommittedKeys' = CommittedKeys
         /\ Cardinality(Changes(heard))' = Cardinality(Changes(heard))
         /\ Cardinality(Changes(Len(log)))' = Cardinality(Changes(Len(log)))
BY LogKept DEF Quiet, Authored, Changes

(* The history is left alone by a step that spends no change. *)
LEMMA HistoryRests ==
  ASSUME HistoryHolds, Quiet, cursor' \in 0..Len(log),
         used' \in [DOMAIN Bounds -> Nat], used'["accesses"] = used["accesses"]
  PROVE  HistoryHolds'
BY QuietKeeps DEF HistoryHolds, Quiet

LEMMA BoundNames ==
  DOMAIN Bounds = {"discards", "losses", "refusals", "accesses", "restarts", "catalogs", "syncs"}
BY DEF Bounds

LEMMA SpendHolds ==
  ASSUME HistoryHolds, NEW b \in DOMAIN Bounds, Spend(b)
  PROVE  /\ used' \in [DOMAIN Bounds -> Nat] /\ used[b] \in Nat /\ used'[b] = used[b] + 1
         /\ used[b] < Bounds[b]
         /\ b # "accesses" => used'["accesses"] = used["accesses"]
<1>1. used \in [DOMAIN Bounds -> Nat] /\ used' = [used EXCEPT ![b] = @ + 1] /\ used[b] < Bounds[b]
  BY DEF HistoryHolds, Spend
<1>2. used[b] \in Nat /\ used[b] + 1 \in Nat
  BY <1>1
<1>3. "accesses" \in DOMAIN Bounds
  BY BoundNames
<1> QED
  BY <1>1, <1>2, <1>3

(* The loop becomes one that the lemmas of the first part call sound. *)
LEMMA LoopBecomes ==
  ASSUME NEW next, NEW S, NEW C, NEW n,
         LoopOK(next, S, C, n), Becomes(next),
         Authored' = S, CommittedKeys' = C, Cardinality(Changes(heard))' = n
  PROVE  LoopHolds'
<1>1. next \in Loops /\ next = [flush |-> next.flush, workers |-> next.workers]
  BY DEF LoopOK, Loops
<1>2. Loop' = next
  BY <1>1 DEF Loop, Becomes
<1> QED
  BY <1>2 DEF LoopHolds

LEMMA LoopRests ==
  ASSUME LoopHolds, HistoryHolds, UNCHANGED <<flush, workers>>,
         Authored \subseteq Authored', CommittedKeys \subseteq CommittedKeys',
         NEW n \in Nat, Cardinality(Changes(heard))' = n, Cardinality(Changes(heard)) <= n
  PROVE  LoopHolds'
<1>1. LoopOK(Loop, Authored', CommittedKeys', n)
  BY Room, BoundsTyped, LoopGrows DEF LoopHolds
<1>2. Becomes(Loop)
  BY DEF Becomes, Loop
<1> QED
  BY <1>1, <1>2, LoopBecomes

LEMMA LoopQuiet ==
  ASSUME LoopHolds, HistoryHolds, Quiet, UNCHANGED <<flush, workers>>
  PROVE  LoopHolds'
<1>1. Cardinality(Changes(heard)) \in Nat
  BY Room, BoundsTyped
<1> QED
  BY <1>1, QuietKeeps, LoopRests

LEMMA BornSame ==
  ASSUME Kept, UNCHANGED authored, Born' = Born
  PROVE  Kept'
BY DEF Kept, KeptIn

LEMMA BornAdds ==
  ASSUME Kept, authored \in Nat, UNCHANGED authored, NEW k \in Keys, Born' = Born \cup {k}
  PROVE  Kept'
<1>1. KeptIn(Born \cup {k}, authored)
  BY KeptAdds DEF Kept
<1> QED
  BY <1>1 DEF Kept

(* In a quiet step the loop flushes, finishes or goes on. *)
LEMMA FlowKeeps ==
  ASSUME IInv, Quiet, NEW c, ContextOK(c, Authored),
         NEW loop, LoopOK(loop, Authored, CommittedKeys, Cardinality(Changes(heard)))
  PROVE  /\ Becomes(FlushOutbox(c, loop)) => LoopHolds'
         /\ \A w \in Workers : Becomes(Finish(w, c, loop)) => LoopHolds'
         /\ \A w \in Workers : Becomes(Again(w, c, loop)) => LoopHolds'
<1> DEFINE n == Cardinality(Changes(heard))
           S == Authored
           C == CommittedKeys
<1>1. S \in SUBSET Keys /\ n \in 0..MaxAccessChanges
  BY Room DEF IInv, Authored
<1>2. Authored' = S /\ CommittedKeys' = C /\ Cardinality(Changes(heard))' = n
  BY QuietKeeps
<1>3. LoopOK(loop, S, C, n) /\ ContextOK(c, S)
  OBVIOUS
<1> HIDE DEF n, S, C
<1>4. LoopOK(FlushOutbox(c, loop), S, C, n)
  BY <1>1, <1>3, FlushOK
<1>5. \A w \in Workers : LoopOK(Finish(w, c, loop), S, C, n)
  BY <1>1, <1>3, FinishOK
<1>6. \A w \in Workers : LoopOK(Again(w, c, loop), S, C, n)
  BY <1>1, <1>3, AgainOK
<1>7. Becomes(FlushOutbox(c, loop)) => LoopHolds'
  BY <1>2, <1>4, LoopBecomes
<1>8. \A w \in Workers : Becomes(Finish(w, c, loop)) => LoopHolds'
  BY <1>2, <1>5, LoopBecomes
<1>9. \A w \in Workers : Becomes(Again(w, c, loop)) => LoopHolds'
  BY <1>2, <1>6, LoopBecomes
<1> QED BY <1>7, <1>8, <1>9

-----------------------------------------------------------------------------
(* The person's actions.                                                   *)

LEMMA SendKeeps ==
  ASSUME IInv, sendMessage
  PROVE  IInv'
<1> USE DEF server, durable, screen, person
<1> DEFINE k == <<authored + 1, 0>>
           next == FlushOutbox(Context', Loop)
           n == Cardinality(Changes(heard))
<1>1. /\ authored \in Nat /\ authored < MaxAuthored /\ authored' = authored + 1
      /\ rows' = [rows EXCEPT ![k] = Pending] /\ view' = [view EXCEPT ![k] = Pending]
      /\ UNCHANGED <<log, access, orphans, cursor, shown, heard, publishing, gates, waiting,
                     reload, settled, used>>
      /\ Becomes(next)
  BY BoundsTyped DEF sendMessage, IInv, TablesHold
<1> HIDE DEF next
<1>2. /\ k \in Keys /\ k[1] = authored + 1 /\ authored + 1 \in 0..MaxAuthored
      /\ 0 \in 0..MaxReplacements
  BY <1>1, BoundsTyped DEF Keys
<1>3. Authored \subseteq Authored' /\ k \in Authored' /\ k \notin Authored
      /\ Authored' \in SUBSET Keys /\ \A j \in Authored : j[1] # authored + 1
  BY <1>1, <1>2 DEF Authored, Keys
<1> HIDE DEF k
<1>4. /\ rows' \in [Keys -> Items] /\ view' \in [Keys -> Items]
      /\ Held(rows') = Held(rows) \cup {k} /\ Held(view') = Held(view) \cup {k}
  BY <1>1, <1>2, ItemsTyped DEF IInv, TablesHold, Held
<1>5. TablesHold'
  BY <1>1, <1>2, <1>3, <1>4 DEF IInv, TablesHold
<1>6. /\ CommittedKeys' = CommittedKeys /\ Cardinality(Changes(heard))' = n
      /\ Cardinality(Changes(Len(log)))' = Cardinality(Changes(Len(log)))
  BY <1>1, LogKept DEF Changes
<1>7. HistoryHolds'
  BY <1>1, <1>3, <1>6 DEF IInv, HistoryHolds
<1>8. LoopHolds'
  <2>1. n \in 0..MaxAccessChanges /\ n \in Nat
    BY Room, BoundsTyped DEF IInv
  <2>2. LoopOK(Loop, Authored', CommittedKeys, n)
    BY <1>3, <2>1, LoopGrows DEF IInv, LoopHolds
  <2>3. ContextOK(Context', Authored')
    BY <1>4, <1>5 DEF ContextOK, Context, TablesHold
  <2> HIDE DEF n
  <2>4. LoopOK(next, Authored', CommittedKeys, n)
    BY <1>3, <2>1, <2>2, <2>3, FlushOK DEF next
  <2> QED BY <1>1, <1>6, <2>4, LoopBecomes
<1>9. Kept'
  <2>1. Born' = Born \cup {k} /\ Born \subseteq Authored
    BY <1>1, <1>4, <1>6 DEF Born, IInv, TablesHold, HistoryHolds
  <2>2. KeptIn(Born', authored)
    BY <1>1, <1>2, <2>1, KeptAdds DEF IInv, Kept
  <2>3. \A i \in 1..authored' : i \in 1..authored \/ i = authored + 1
    BY <1>1
  <2>4. <<authored + 1, 0>> \in Born'
    BY <2>1 DEF k
  <2>5. \A m \in (0 + 1)..MaxReplacements : <<authored + 1, m>> \notin Born'
    <3> SUFFICES ASSUME NEW m \in 1..MaxReplacements, <<authored + 1, m>> \in Born'
                 PROVE FALSE
      OBVIOUS
    <3>1. <<authored + 1, m>> # k
      BY DEF k
    <3>2. <<authored + 1, m>> \in Authored
      BY <2>1, <3>1
    <3> QED BY <1>3, <3>2
  <2> QED BY <1>2, <2>2, <2>3, <2>4, <2>5 DEF Kept, KeptIn
<1> QED BY <1>5, <1>7, <1>8, <1>9 DEF IInv

LEMMA RetryKeeps ==
  ASSUME IInv, NEW k \in Keys, retryMessage(k)
  PROVE  IInv'
<1> USE DEF server, durable, screen, person
<1>1. /\ view[k].status = "permanent_failure"
      /\ UNCHANGED <<log, access, orphans, cursor, shown, heard, publishing, gates, waiting,
                     reload, authored, settled, used>>
      /\ Becomes(FlushOutbox(Context', Loop))
  BY DEF retryMessage, Offered
<1>2. Quiet
  BY <1>1 DEF Quiet
<1>3. /\ rows' \in [Keys -> Items] /\ view' \in [Keys -> Items]
      /\ Held(rows') = Held(rows) /\ Held(view') = Held(view)
  <2>1. CASE Matches(rows[k], view[k].status, view[k].attempt)
    <3>1. rows' = [rows EXCEPT ![k] = Pending] /\ view' = [view EXCEPT ![k] = Pending]
      BY <2>1 DEF retryMessage
    <3>2. k \in Held(rows) /\ k \in Held(view)
      BY <1>1, <2>1 DEF Matches, Held
    <3> QED BY <3>1, <3>2, ItemsTyped DEF IInv, TablesHold, Held
  <2>2. CASE ~Matches(rows[k], view[k].status, view[k].attempt)
    <3>1. UNCHANGED <<rows, view>>
      BY <2>2 DEF retryMessage
    <3> QED BY <3>1 DEF IInv, TablesHold
  <2> QED BY <2>1, <2>2
<1>4. Authored' = Authored /\ CommittedKeys' = CommittedKeys
  BY <1>2, QuietKeeps
<1>5. TablesHold'
  BY <1>1, <1>3, <1>4 DEF IInv, TablesHold
<1>6. HistoryHolds'
  BY <1>1, <1>2, HistoryRests DEF IInv, HistoryHolds
<1>7. ContextOK(Context', Authored)
  BY <1>4, <1>5 DEF ContextOK, Context, TablesHold
<1>8. LoopHolds'
  BY <1>1, <1>2, <1>7, FlowKeeps DEF IInv, LoopHolds
<1>9. Kept'
  BY <1>1, <1>3, <1>4, BornSame DEF IInv, Born
<1> QED BY <1>5, <1>6, <1>8, <1>9 DEF IInv

LEMMA ReplaceKeeps ==
  ASSUME IInv, NEW k \in Keys, replaceFailedMessage(k)
  PROVE  IInv'
<1> USE DEF server, durable, screen, person
<1> DEFINE n == <<k[1], k[2] + 1>>
           swap(q) == [Without(q, {k}) EXCEPT ![n] = Pending]
<1>1. /\ n \in Keys /\ k \in Held(rows)
      /\ rows' = swap(rows) /\ view' = swap(view) /\ settled' = settled \cup {k}
      /\ UNCHANGED <<log, access, orphans, cursor, shown, heard, publishing, gates, waiting,
                     reload, authored, used>>
      /\ Becomes(FlushOutbox(Context', Loop))
  BY DEF replaceFailedMessage
<1>2. Quiet
  BY <1>1 DEF Quiet
<1>3. k \in Authored /\ n \in Authored /\ n # k
  BY <1>1 DEF IInv, TablesHold, Authored, Keys
<1> HIDE DEF n
<1>4. ASSUME NEW q \in [Keys -> Items]
      PROVE  swap(q) \in [Keys -> Items] /\ Held(swap(q)) = (Held(q) \ {k}) \cup {n}
  <2> DEFINE p == Without(q, {k})
  <2>1. p \in [Keys -> Items] /\ Held(p) = Held(q) \ {k}
    BY WithoutHolds
  <2> HIDE DEF p
  <2>2. [p EXCEPT ![n] = Pending] \in [Keys -> Items]
        /\ Held([p EXCEPT ![n] = Pending]) = Held(p) \cup {n}
    BY <1>1, <2>1, ItemsTyped DEF Held
  <2> QED BY <2>1, <2>2 DEF p
<1> HIDE DEF swap
<1>5. /\ rows' \in [Keys -> Items] /\ view' \in [Keys -> Items]
      /\ Held(rows') = (Held(rows) \ {k}) \cup {n} /\ Held(view') = (Held(view) \ {k}) \cup {n}
  BY <1>1, <1>4 DEF IInv, TablesHold
<1>6. Authored' = Authored /\ CommittedKeys' = CommittedKeys
  BY <1>2, QuietKeeps
<1>7. TablesHold'
  BY <1>1, <1>3, <1>5, <1>6 DEF IInv, TablesHold
<1>8. HistoryHolds'
  BY <1>1, <1>2, HistoryRests DEF IInv, HistoryHolds
<1>9. ContextOK(Context', Authored)
  BY <1>6, <1>7 DEF ContextOK, Context, TablesHold
<1>10. LoopHolds'
  BY <1>1, <1>2, <1>9, FlowKeeps DEF IInv, LoopHolds
<1>11. Kept'
  <2>1. Born' = Born \cup {n}
    BY <1>1, <1>5, <1>6 DEF Born
  <2>2. authored \in Nat
    BY BoundsTyped DEF IInv, TablesHold
  <2> QED BY <1>1, <2>1, <2>2, BornAdds DEF IInv
<1> QED BY <1>7, <1>8, <1>10, <1>11 DEF IInv

LEMMA DiscardKeeps ==
  ASSUME IInv, NEW k \in Keys, discardMessage(k)
  PROVE  IInv'
<1> USE DEF server, durable, screen, person
<1>1. /\ view[k].status = "permanent_failure"
      /\ rows' = Without(rows, {k}) /\ view' = Without(view, {k}) /\ settled' = settled \cup {k}
      /\ UNCHANGED <<log, access, orphans, cursor, shown, heard, publishing, gates, flush,
                     workers, waiting, reload, authored>>
      /\ Spend("discards")
  BY DEF discardMessage, Offered
<1>2. Quiet
  BY <1>1 DEF Quiet
<1>3. k \in Authored
  BY <1>1 DEF IInv, TablesHold, Held
<1>4. /\ rows' \in [Keys -> Items] /\ view' \in [Keys -> Items]
      /\ Held(rows') = Held(rows) \ {k} /\ Held(view') = Held(view) \ {k}
  BY <1>1, WithoutHolds DEF IInv, TablesHold
<1>5. Authored' = Authored /\ CommittedKeys' = CommittedKeys
  BY <1>2, QuietKeeps
<1>6. TablesHold'
  BY <1>1, <1>3, <1>4, <1>5 DEF IInv, TablesHold
<1>7. used' \in [DOMAIN Bounds -> Nat] /\ used'["accesses"] = used["accesses"]
  BY <1>1, BoundNames, SpendHolds DEF IInv
<1>8. HistoryHolds'
  BY <1>1, <1>2, <1>7, HistoryRests DEF IInv, HistoryHolds
<1>9. LoopHolds'
  BY <1>1, <1>2, LoopQuiet DEF IInv
<1>10. Kept'
  <2>1. Born' = Born \cup {k}
    BY <1>1, <1>4, <1>5 DEF Born
  <2>2. authored \in Nat
    BY BoundsTyped DEF IInv, TablesHold
  <2> QED BY <1>1, <2>1, <2>2, BornAdds DEF IInv
<1> QED BY <1>6, <1>8, <1>9, <1>10 DEF IInv

-----------------------------------------------------------------------------
(* The server's actions.                                                   *)

(* A request is handled or orphaned: what is committed is one key more, or not. *)
LEMMA CommitHolds ==
  ASSUME HistoryHolds, NEW k \in Authored, Commit(k), UNCHANGED <<cursor, heard, authored>>,
         used' \in [DOMAIN Bounds -> Nat], used'["accesses"] = used["accesses"]
  PROVE  /\ HistoryHolds' /\ CommittedKeys' = CommittedKeys \cup {k} /\ Authored' = Authored
         /\ Cardinality(Changes(heard))' = Cardinality(Changes(heard))
<1>1. Authored' = Authored /\ k \in Keys
  BY DEF Authored
<1>2. CASE k \in CommittedKeys
  <2>1. log' = log
    BY <1>2 DEF Commit
  <2>2. Quiet
    BY <2>1 DEF Quiet
  <2> QED BY <1>1, <1>2, <2>2, QuietKeeps, HistoryRests DEF HistoryHolds
<1>3. CASE k \notin CommittedKeys
  <2> DEFINE e == MessageEvent(k)
  <2>1. log' = Append(log, e) /\ e \in Entries /\ e.kind = "message" /\ e.key = k
    BY <1>1, <1>3 DEF Commit, MessageEvent, Entries
  <2> HIDE DEF e
  <2>2. /\ log' \in Seq(Entries) /\ Len(log') = Len(log) + 1
        /\ CommittedKeys' = CommittedKeys \cup {k}
        /\ \A n \in 0..Len(log) : {i \in 1..n : log'[i].kind = "access"} = Changes(n)
        /\ {i \in 1..Len(log') : log'[i].kind = "access"} = Changes(Len(log))
    BY <2>1, LogAppends
  <2>3. /\ heard \in 0..Len(log) /\ cursor \in 0..Len(log) /\ Len(log) \in Nat
        /\ heard \in 0..Len(log') /\ cursor \in 0..Len(log')
    BY <2>2 DEF HistoryHolds
  <2>4. Cardinality(Changes(heard))' = Cardinality(Changes(heard))
    BY <2>2, <2>3 DEF Changes
  <2>5. Cardinality(Changes(Len(log)))' = Cardinality(Changes(Len(log)))
    BY <2>2 DEF Changes
  <2>6. HistoryHolds'
    BY <1>1, <2>2, <2>3, <2>5 DEF HistoryHolds
  <2> QED BY <1>1, <2>2, <2>4, <2>6
<1> QED BY <1>2, <1>3

LEMMA LoopMoves ==
  ASSUME IInv, NEW w \in Workers, workers[w] # Idle,
         NEW r \in WorkerRecords, WorkerOK(r, Authored', CommittedKeys'),
         r.live = workers[w].live, workers' = [workers EXCEPT ![w] = r],
         flush' \in FlushRecords, flush'.owner = flush.owner,
         Authored \subseteq Authored', CommittedKeys \subseteq CommittedKeys',
         Cardinality(Changes(heard))' = Cardinality(Changes(heard))
  PROVE  LoopHolds'
<1> DEFINE n == Cardinality(Changes(heard))
           next == [flush |-> flush', workers |-> workers']
<1>1. n \in Nat /\ n <= n
  BY Room, BoundsTyped DEF IInv
<1>2. LoopOK(Loop, Authored', CommittedKeys', n)
  BY <1>1, LoopGrows DEF IInv, LoopHolds
<1>3. Loop.workers = workers /\ Loop.flush = flush /\ workers \in [Workers -> WorkerRecords]
  BY <1>2 DEF Loop, LoopOK, Loops
<1>4. next \in Loops /\ next.flush = flush' /\ next.workers = workers'
  BY <1>3 DEF Loops
<1> HIDE DEF next, n
<1>7. /\ Loop.workers[w] # Idle /\ r.live = Loop.workers[w].live
      /\ next.flush.owner = Loop.flush.owner /\ next.workers = [Loop.workers EXCEPT ![w] = r]
  BY <1>3, <1>4
<1>5. LoopOK(next, Authored', CommittedKeys', n)
  BY <1>1, <1>2, <1>4, <1>7, MoveOK
<1>6. Becomes(next)
  BY <1>4 DEF Becomes
<1> QED BY <1>5, <1>6, LoopBecomes DEF n

LEMMA WorkerTyped ==
  ASSUME IInv, NEW w \in Workers
  PROVE  /\ workers \in [Workers -> WorkerRecords] /\ flush \in FlushRecords
         /\ workers[w] \in WorkerRecords /\ WorkerOK(workers[w], Authored, CommittedKeys)
BY DEF IInv, LoopHolds, LoopOK, Loop, Loops

LEMMA ReplyHolds ==
  ASSUME IInv, NEW w \in Workers, workers[w].pc \in {"send", "replied"},
         NEW answer \in Answers, Reply(w, answer), UNCHANGED flush,
         Authored \subseteq Authored', CommittedKeys \subseteq CommittedKeys',
         answer = "accepted" => workers[w].key \in CommittedKeys',
         Cardinality(Changes(heard))' = Cardinality(Changes(heard))
  PROVE  LoopHolds'
<1> DEFINE r == [workers[w] EXCEPT !.pc = "replied", !.result = answer]
<1>1. /\ workers \in [Workers -> WorkerRecords] /\ flush \in FlushRecords
      /\ workers[w] \in WorkerRecords /\ WorkerOK(workers[w], Authored, CommittedKeys)
  BY WorkerTyped
<1>2. /\ r \in WorkerRecords /\ r.pc = "replied" /\ r.result = answer
      /\ r.key = workers[w].key /\ r.live = workers[w].live
  BY <1>1 DEF WorkerRecords
<1>3. workers' = [workers EXCEPT ![w] = r]
  BY <1>1 DEF Reply
<1> HIDE DEF r
<1>4. workers[w] # Idle
  BY DEF Idle
<1>5. r # Idle
  BY <1>2 DEF Idle
<1>6. WorkerOK(r, Authored', CommittedKeys')
  BY <1>1, <1>2, <1>4 DEF WorkerOK
<1> QED
  BY <1>1, <1>2, <1>3, <1>4, <1>6, LoopMoves

LEMMA HandlesKeeps ==
  ASSUME IInv, NEW w \in Workers, Handles(w)
  PROVE  IInv'
<1> USE DEF server, durable, screen, person
<1> DEFINE k == workers[w].key
<1>1. /\ workers[w].pc = "send"
      /\ UNCHANGED <<access, orphans, rows, cursor, view, shown, heard, publishing, gates, flush,
                     waiting, reload, authored, settled>>
  BY DEF Handles
<1>2. k \in Authored /\ Authored' = Authored /\ authored \in Nat
  <2>1. workers[w] # Idle
    BY <1>1 DEF Idle
  <2> QED BY <1>1, <2>1, WorkerTyped, BoundsTyped DEF WorkerOK, Authored, IInv, TablesHold
<1> HIDE DEF k
<1>3. TablesHold'
  BY <1>1, <1>2 DEF IInv, TablesHold
<1>4. CASE Commit(k) /\ Reply(w, "accepted") /\ UNCHANGED used
  <2>1. used' \in [DOMAIN Bounds -> Nat] /\ used'["accesses"] = used["accesses"]
    BY <1>4 DEF IInv, HistoryHolds
  <2>2. /\ HistoryHolds' /\ CommittedKeys' = CommittedKeys \cup {k}
        /\ Cardinality(Changes(heard))' = Cardinality(Changes(heard))
    BY <1>1, <1>2, <1>4, <2>1, CommitHolds DEF IInv
  <2>3. LoopHolds'
    BY <1>1, <1>2, <1>4, <2>2, ReplyHolds DEF Answers, k
  <2>4. Born' = Born \cup {k}
    BY <1>1, <2>2 DEF Born
  <2>5. Kept'
    BY <1>1, <1>2, <2>4, BornAdds DEF IInv, Authored
  <2> QED BY <1>3, <2>2, <2>3, <2>5 DEF IInv
<1>5. CASE /\ UNCHANGED log /\ \E r \in Answers \ {"accepted"} : Reply(w, r)
           /\ UNCHANGED used \/ Spend("refusals")
  <2>1. Quiet
    BY <1>1, <1>5 DEF Quiet
  <2>2. used' \in [DOMAIN Bounds -> Nat] /\ used'["accesses"] = used["accesses"]
    BY <1>5, BoundNames, SpendHolds DEF IInv, HistoryHolds
  <2>3. HistoryHolds'
    BY <1>1, <2>1, <2>2, HistoryRests DEF IInv, HistoryHolds
  <2>4. CommittedKeys' = CommittedKeys
        /\ Cardinality(Changes(heard))' = Cardinality(Changes(heard))
    BY <2>1, QuietKeeps
  <2>5. LoopHolds'
    BY <1>1, <1>2, <1>5, <2>4, ReplyHolds
  <2>6. Kept'
    BY <1>1, <2>4, BornSame DEF IInv, Born
  <2> QED BY <1>3, <2>3, <2>5, <2>6 DEF IInv
<1> QED BY <1>4, <1>5 DEF Handles, Answers, k

LEMMA LosesKeeps ==
  ASSUME IInv, NEW w \in Workers, Loses(w)
  PROVE  IInv'
<1> USE DEF server, durable, screen, person
<1>1. /\ workers[w].pc \in {"send", "replied"} /\ Spend("losses") /\ Reply(w, "retryable")
      /\ orphans' = orphans \cup (IF workers[w].pc = "send" THEN {workers[w].key} ELSE {})
      /\ UNCHANGED <<log, access, rows, cursor, view, shown, heard, publishing, gates, flush,
                     waiting, reload, authored, settled>>
  BY DEF Loses
<1>2. Quiet
  BY <1>1 DEF Quiet
<1>3. /\ Authored' = Authored /\ CommittedKeys' = CommittedKeys
      /\ Cardinality(Changes(heard))' = Cardinality(Changes(heard))
  BY <1>2, QuietKeeps
<1>4. workers[w].key \in Authored
  <2>1. workers[w] # Idle
    BY <1>1 DEF Idle
  <2> QED BY <2>1, WorkerTyped DEF WorkerOK
<1>5. TablesHold'
  BY <1>1, <1>3, <1>4 DEF IInv, TablesHold
<1>6. HistoryHolds'
  BY <1>1, <1>2, BoundNames, SpendHolds, HistoryRests DEF IInv, HistoryHolds
<1>7. LoopHolds'
  BY <1>1, <1>3, ReplyHolds DEF Answers
<1>8. Kept'
  BY <1>1, <1>3, BornSame DEF IInv, Born
<1> QED BY <1>5, <1>6, <1>7, <1>8 DEF IInv

LEMMA OrphanKeeps ==
  ASSUME IInv, NEW k \in Keys, OrphanArrives(k)
  PROVE  IInv'
<1> USE DEF server, durable, screen, person
<1>1. /\ k \in orphans /\ orphans' = orphans \ {k} /\ (Commit(k) \/ UNCHANGED log)
      /\ UNCHANGED <<access, rows, cursor, view, shown, heard, publishing, gates, flush, workers,
                     waiting, reload, authored, settled, used>>
  BY DEF OrphanArrives
<1>2. k \in Authored /\ Authored' = Authored /\ authored \in Nat
  BY <1>1, BoundsTyped DEF IInv, TablesHold, Authored
<1>3. TablesHold'
  BY <1>1, <1>2 DEF IInv, TablesHold
<1>4. used' \in [DOMAIN Bounds -> Nat] /\ used'["accesses"] = used["accesses"]
  BY <1>1 DEF IInv, HistoryHolds
<1>5. CASE Commit(k)
  <2>1. /\ HistoryHolds' /\ CommittedKeys' = CommittedKeys \cup {k}
        /\ Cardinality(Changes(heard))' = Cardinality(Changes(heard))
    BY <1>1, <1>2, <1>4, <1>5, CommitHolds DEF IInv
  <2>2. Cardinality(Changes(heard)) \in Nat
    BY Room, BoundsTyped DEF IInv
  <2>3. LoopHolds'
    BY <1>1, <1>2, <2>1, <2>2, LoopRests DEF IInv
  <2>4. Born' = Born \cup {k}
    BY <1>1, <2>1 DEF Born
  <2>5. Kept'
    BY <1>1, <1>2, <2>4, BornAdds DEF IInv, Authored
  <2> QED BY <1>3, <2>1, <2>3, <2>5 DEF IInv
<1>6. CASE UNCHANGED log
  <2>1. Quiet
    BY <1>1, <1>6 DEF Quiet
  <2>2. HistoryHolds'
    BY <1>1, <1>4, <2>1, HistoryRests DEF IInv, HistoryHolds
  <2>3. LoopHolds'
    BY <1>1, <2>1, LoopQuiet DEF IInv
  <2>4. Kept'
    BY <1>1, <2>1, QuietKeeps, BornSame DEF IInv, Born
  <2> QED BY <1>3, <2>2, <2>3, <2>4 DEF IInv
<1> QED BY <1>1, <1>5, <1>6

LEMMA AccessKeeps ==
  ASSUME IInv, NEW c \in Conversation, ChangesAccess(c)
  PROVE  IInv'
<1> USE DEF server, durable, screen, person
<1> DEFINE e == AccessEvent(c, c \notin access)
<1>1. /\ Spend("accesses") /\ access' \in SUBSET Conversation /\ log' = Append(log, e)
      /\ UNCHANGED <<orphans, rows, cursor, view, shown, heard, publishing, gates, flush, workers,
                     waiting, reload, authored, settled>>
  BY DEF ChangesAccess, IInv, TablesHold
<1>2. e \in Entries /\ e.kind = "access"
  BY DEF AccessEvent, Entries
<1> HIDE DEF e
<1>3. /\ log' \in Seq(Entries) /\ Len(log') = Len(log) + 1 /\ CommittedKeys' = CommittedKeys
      /\ \A n \in 0..Len(log) : {i \in 1..n : log'[i].kind = "access"} = Changes(n)
      /\ {i \in 1..Len(log') : log'[i].kind = "access"} = Changes(Len(log)) \cup {Len(log) + 1}
  BY <1>1, <1>2, LogAppends DEF IInv
<1>4. Authored' = Authored
  BY <1>1 DEF Authored
<1>5. TablesHold'
  BY <1>1, <1>4 DEF IInv, TablesHold
<1>6. /\ heard \in 0..Len(log) /\ cursor \in 0..Len(log) /\ Len(log) \in Nat
      /\ heard' \in 0..Len(log') /\ cursor' \in 0..Len(log')
  BY <1>1, <1>3 DEF IInv, HistoryHolds
<1>7. Cardinality(Changes(heard))' = Cardinality(Changes(heard))
  BY <1>1, <1>3, <1>6 DEF Changes
<1>8. Cardinality(Changes(Len(log)))' <= Cardinality(Changes(Len(log))) + 1
      /\ Cardinality(Changes(Len(log))) \in Nat
      /\ Cardinality(Changes(Len(log)))' \in Nat
  <2>1. IsFiniteSet(Changes(Len(log))) /\ Cardinality(Changes(Len(log))) \in Nat
    BY <1>6, ChangesCount
  <2>2. Changes(Len(log))' = Changes(Len(log)) \cup {Len(log) + 1}
    BY <1>3 DEF Changes
  <2>3. Cardinality(Changes(Len(log)) \cup {Len(log) + 1})
          = IF Len(log) + 1 \in Changes(Len(log)) THEN Cardinality(Changes(Len(log)))
                                                  ELSE Cardinality(Changes(Len(log))) + 1
    BY <2>1, FS_AddElement
  <2> QED BY <2>1, <2>2, <2>3
<1>9. HistoryHolds'
  <2>1. /\ used' \in [DOMAIN Bounds -> Nat] /\ used["accesses"] \in Nat
        /\ used'["accesses"] = used["accesses"] + 1 /\ used["accesses"] < MaxAccessChanges
    BY <1>1, BoundNames, SpendHolds DEF IInv, Bounds
  <2>2. Cardinality(Changes(Len(log))) <= used["accesses"]
    BY DEF IInv, HistoryHolds
  <2>3. Cardinality(Changes(Len(log)))' <= used'["accesses"] /\ used'["accesses"] <= MaxAccessChanges
    BY <1>8, <2>1, <2>2, BoundsTyped
  <2> QED BY <1>3, <1>4, <1>6, <2>1, <2>3 DEF IInv, HistoryHolds
<1>10. LoopHolds'
  <2>1. Cardinality(Changes(heard)) \in Nat
    BY Room, BoundsTyped DEF IInv
  <2> QED BY <1>1, <1>3, <1>4, <1>7, <2>1, LoopRests DEF IInv
<1>11. Kept'
  BY <1>1, <1>3, BornSame DEF IInv, Born
<1> QED BY <1>5, <1>9, <1>10, <1>11 DEF IInv

-----------------------------------------------------------------------------
(* The flush worker's actions.                                             *)

LEMMA Busy ==
  ASSUME IInv, NEW w \in Workers, workers[w].pc # "idle"
  PROVE  workers[w] # Idle /\ workers[w].key \in Authored /\ workers[w].key \in Keys
<1>1. workers[w] # Idle
  BY DEF Idle
<1> QED BY <1>1, WorkerTyped DEF WorkerOK, Authored

(* A cache transaction writes over the row the worker decided on, and drops *)
(* one only once the server has the message.                                *)
LEMMA CacheEffect ==
  ASSUME IInv, NEW w \in Workers, CacheWrites(w)
  PROVE  /\ rows' \in [Keys -> Items] /\ waiting' \subseteq Keys
         /\ \/ Held(rows') = Held(rows)
            \/ workers[w].key \in CommittedKeys /\ Held(rows') = Held(rows) \ {workers[w].key}
         /\ \A k \in Keys : rows[k].status = "permanent_failure" =>
                              rows'[k].status \in {"permanent_failure", "none"}
<1> DEFINE k == workers[w].key
           n == workers[w].attempt
           allowed == /\ workers[w].live
                      /\ \/ At(w, "claim") /\ Matches(rows[k], workers[w].status, n - 1)
                         \/ At(w, "accept") /\ k \in Held(rows) /\ Conv(k) \in shown
                         \/ At(w, "patch") /\ Matches(rows[k], "sending", n)
           written == IF At(w, "claim") THEN Item("sending", n)
                      ELSE IF At(w, "accept") THEN Absent
                      ELSE Item(workers[w].status, n)
<1>1. /\ workers[w].pc \in {"claim", "accept", "patch"}
      /\ rows' = IF allowed THEN [rows EXCEPT ![k] = written] ELSE rows
      /\ waiting' = IF allowed /\ written.status = "retry_wait" THEN waiting \cup {k} ELSE waiting
  BY DEF CacheWrites
<1>2. k \in Keys /\ workers[w] \in WorkerRecords /\ WorkerOK(workers[w], Authored, CommittedKeys)
  BY <1>1, Busy, WorkerTyped
<1>3. n \in Nat /\ workers[w].status \in Status
  BY <1>2 DEF WorkerRecords
<1>4. rows \in [Keys -> Items] /\ waiting \subseteq Keys
  BY DEF IInv, TablesHold
<1>5. CASE ~allowed
  BY <1>1, <1>4, <1>5
<1>6. CASE allowed
  <2>1. rows' = [rows EXCEPT ![k] = written] /\ waiting' \subseteq Keys
    BY <1>1, <1>2, <1>4, <1>6
  <2>2. CASE At(w, "claim")
    <3>1. written = Item("sending", n) /\ workers[w].status \in {"pending", "sending", "retry_wait"}
      BY <1>2, <2>2 DEF At, WorkerOK
    <3>2. rows[k].status \in {"pending", "sending", "retry_wait"}
      BY <1>6, <2>2, <3>1 DEF At, Matches
    <3> HIDE DEF written, allowed, n
    <3>3. written \in Items /\ written.status = "sending"
      BY <1>3, <3>1, ItemsTyped DEF Status
    <3> QED BY <1>2, <1>4, <2>1, <3>2, <3>3 DEF Held
  <2>3. CASE At(w, "accept")
    <3>1. written = Absent /\ k \in CommittedKeys
      BY <1>2, <2>3 DEF At, WorkerOK
    <3> HIDE DEF written, allowed, n, k
    <3>2. written \in Items /\ written.status = "none"
      BY <3>1, ItemsTyped
    <3>3. rows' \in [Keys -> Items] /\ Held(rows') = Held(rows) \ {k}
      BY <1>2, <1>4, <2>1, <3>2 DEF Held
    <3>4. \A j \in Keys : rows[j].status = "permanent_failure" =>
                            rows'[j].status \in {"permanent_failure", "none"}
      BY <1>2, <1>4, <2>1, <3>2
    <3> QED BY <2>1, <3>1, <3>3, <3>4 DEF k
  <2>4. CASE At(w, "patch")
    <3>1. written = Item(workers[w].status, n) /\ workers[w].status # "none"
      BY <1>2, <2>4 DEF At, WorkerOK
    <3>2. rows[k].status = "sending"
      BY <1>6, <2>4 DEF At, Matches
    <3> HIDE DEF written, allowed, n
    <3>3. written \in Items /\ written.status # "none"
      BY <1>3, <3>1, ItemsTyped
    <3> QED BY <1>2, <1>4, <2>1, <3>2, <3>3 DEF Held
  <2> QED BY <1>1, <2>2, <2>3, <2>4 DEF At
<1> QED BY <1>5, <1>6

LEMMA CacheKeeps ==
  ASSUME IInv, NEW w \in Workers, CacheWrites(w)
  PROVE  IInv'
<1> USE DEF server, durable, screen, person
<1> DEFINE k == workers[w].key
<1>1. /\ workers[w].pc \in {"claim", "accept", "patch"}
      /\ \E out \in {"written", "refused"} :
           workers' = [workers EXCEPT ![w].done = TRUE, ![w].result = out]
      /\ UNCHANGED <<log, access, orphans, cursor, view, shown, heard, publishing, gates, flush,
                     reload, authored, settled, used>>
  BY DEF CacheWrites
<1>2. Quiet
  BY <1>1 DEF Quiet
<1>3. /\ Authored' = Authored /\ CommittedKeys' = CommittedKeys
      /\ Cardinality(Changes(heard))' = Cardinality(Changes(heard))
  BY <1>2, QuietKeeps
<1>4. TablesHold'
  BY <1>1, <1>3, CacheEffect DEF IInv, TablesHold
<1>5. HistoryHolds'
  BY <1>1, <1>2, HistoryRests DEF IInv, HistoryHolds
<1>6. LoopHolds'
  <2>1. PICK out \in {"written", "refused"} :
          workers' = [workers EXCEPT ![w].done = TRUE, ![w].result = out]
    BY <1>1
  <2> DEFINE r == [workers[w] EXCEPT !.done = TRUE, !.result = out]
  <2>2. /\ workers \in [Workers -> WorkerRecords] /\ flush \in FlushRecords
        /\ workers[w] \in WorkerRecords /\ WorkerOK(workers[w], Authored, CommittedKeys)
        /\ workers[w] # Idle
    BY <1>1, WorkerTyped, Busy
  <2>3. /\ r \in WorkerRecords /\ r.pc = workers[w].pc /\ r.key = k
        /\ r.live = workers[w].live /\ r.status = workers[w].status
    BY <2>2 DEF WorkerRecords
  <2>4. workers' = [workers EXCEPT ![w] = r]
    BY <2>1, <2>2
  <2> HIDE DEF r
  <2>5. WorkerOK(r, Authored', CommittedKeys')
    BY <1>1, <1>3, <2>2, <2>3 DEF WorkerOK
  <2> QED BY <1>1, <1>3, <2>2, <2>3, <2>4, <2>5, LoopMoves
<1>7. Kept'
  <2>1. Born' = Born
    BY <1>1, <1>3, CacheEffect DEF Born
  <2> QED BY <1>1, <2>1, BornSame DEF IInv
<1> QED BY <1>4, <1>5, <1>6, <1>7 DEF IInv

(* A continuation touches the shown outbox, the gates and the loop. *)
LEMMA ContinuationKeeps ==
  ASSUME IInv, Elsewhere, view' \in [Keys -> Items], Held(view') \subseteq Authored,
         gates' \subseteq Gates
  PROVE  /\ Quiet /\ TablesHold' /\ HistoryHolds' /\ Kept'
         /\ ContextOK(Context', Authored) /\ ContextOK(Context, Authored)
         /\ Authored' = Authored /\ CommittedKeys' = CommittedKeys
         /\ Cardinality(Changes(heard))' = Cardinality(Changes(heard))
<1> USE DEF server, durable, screen, person
<1>1. UNCHANGED <<log, access, orphans, rows, cursor, shown, heard, publishing, waiting, reload,
                  authored, settled, used>>
  BY DEF Elsewhere
<1>2. Quiet
  BY <1>1 DEF Quiet
<1>3. /\ Authored' = Authored /\ CommittedKeys' = CommittedKeys
      /\ Cardinality(Changes(heard))' = Cardinality(Changes(heard))
  BY <1>2, QuietKeeps
<1>4. TablesHold'
  BY <1>1, <1>3 DEF IInv, TablesHold
<1>5. HistoryHolds'
  BY <1>1, <1>2, HistoryRests DEF IInv, HistoryHolds
<1>6. Kept'
  BY <1>1, <1>3, BornSame DEF IInv, Born
<1>7. ContextOK(Context, Authored)
  BY DEF ContextOK, Context, IInv, TablesHold
<1>8. ContextOK(Context', Authored)
  BY DEF ContextOK, Context
<1> QED BY <1>2, <1>3, <1>4, <1>5, <1>6, <1>7, <1>8

LEMMA SameView ==
  ASSUME IInv, UNCHANGED view
  PROVE  view' \in [Keys -> Items] /\ Held(view') \subseteq Authored
BY DEF IInv, TablesHold

LEMMA PublishHolds ==
  ASSUME IInv, NEW k \in Keys, NEW item \in Items, item.status # "none", Publish(k, item)
  PROVE  view' \in [Keys -> Items] /\ Held(view') \subseteq Authored
<1>1. view \in [Keys -> Items] /\ Held(view) \subseteq Authored
  BY DEF IInv, TablesHold
<1>2. CASE k \in Held(view)
  <2>1. view' = [view EXCEPT ![k] = item]
    BY <1>2 DEF Publish
  <2>2. view' \in [Keys -> Items] /\ Held(view') = Held(view)
    BY <1>1, <1>2, <2>1 DEF Held
  <2> QED BY <1>1, <2>2
<1>3. CASE k \notin Held(view)
  <2>1. view' = view
    BY <1>3 DEF Publish
  <2> QED BY <1>1, <2>1
<1> QED BY <1>2, <1>3

LEMMA ClaimKeeps ==
  ASSUME IInv, NEW w \in Workers, ClaimContinues(w)
  PROVE  IInv'
<1> DEFINE k == workers[w].key
<1>1. workers[w].pc = "claim" /\ UNCHANGED gates /\ Elsewhere
  BY DEF ClaimContinues, At
<1>2. /\ workers \in [Workers -> WorkerRecords] /\ flush \in FlushRecords
      /\ workers[w] \in WorkerRecords /\ WorkerOK(workers[w], Authored, CommittedKeys)
      /\ workers[w] # Idle /\ k \in Keys
  BY <1>1, WorkerTyped, Busy
<1>3. gates' \subseteq Gates
  BY <1>1 DEF IInv, TablesHold
<1>4. CASE /\ Publish(k, Item("sending", workers[w].attempt))
           /\ workers' = [workers EXCEPT ![w].pc = "send", ![w].done = FALSE, ![w].result = "none"]
           /\ UNCHANGED flush
  <2>1. Item("sending", workers[w].attempt) \in Items
        /\ Item("sending", workers[w].attempt).status = "sending"
    BY <1>2, ItemsTyped DEF WorkerRecords, Status
  <2>2. view' \in [Keys -> Items] /\ Held(view') \subseteq Authored
    BY <1>2, <1>4, <2>1, PublishHolds
  <2>3. /\ TablesHold' /\ HistoryHolds' /\ Kept'
        /\ Authored' = Authored /\ CommittedKeys' = CommittedKeys
        /\ Cardinality(Changes(heard))' = Cardinality(Changes(heard))
    BY <1>1, <1>3, <2>2, ContinuationKeeps
  <2> DEFINE r == [workers[w] EXCEPT !.pc = "send", !.done = FALSE, !.result = "none"]
  <2>4. /\ r \in WorkerRecords /\ r.pc = "send" /\ r.key = k /\ r.live = workers[w].live
    BY <1>2 DEF WorkerRecords
  <2>5. workers' = [workers EXCEPT ![w] = r]
    BY <1>2, <1>4
  <2> HIDE DEF r
  <2>6. WorkerOK(r, Authored', CommittedKeys')
    BY <1>1, <1>2, <2>3, <2>4 DEF WorkerOK
  <2>7. LoopHolds'
    BY <1>2, <1>4, <2>3, <2>4, <2>5, <2>6, LoopMoves
  <2> QED BY <2>3, <2>7 DEF IInv
<1>5. CASE UNCHANGED view /\ Becomes(Finish(w, Context, Loop))
  <2>1. Quiet /\ TablesHold' /\ HistoryHolds' /\ Kept' /\ ContextOK(Context, Authored)
    BY <1>1, <1>3, <1>5, SameView, ContinuationKeeps
  <2>2. LoopHolds'
    BY <1>5, <2>1, FlowKeeps DEF IInv, LoopHolds
  <2> QED BY <2>1, <2>2 DEF IInv
<1> QED BY <1>4, <1>5 DEF ClaimContinues

LEMMA AnswerKeeps ==
  ASSUME IInv, NEW w \in Workers, AnswerArrives(w)
  PROVE  IInv'
<1> DEFINE k == workers[w].key
           a == workers[w].result
<1>1. /\ workers[w].pc = "replied" /\ UNCHANGED view /\ Elsewhere
      /\ gates' = gates \cup {"protocol"} \/ gates' = gates
  BY DEF AnswerArrives, At
<1>2. /\ workers \in [Workers -> WorkerRecords] /\ flush \in FlushRecords
      /\ workers[w] \in WorkerRecords /\ WorkerOK(workers[w], Authored, CommittedKeys)
      /\ workers[w] # Idle /\ k \in Keys
  BY <1>1, WorkerTyped, Busy
<1>3. gates' \subseteq Gates
  BY <1>1 DEF IInv, TablesHold, Gates
<1>4. /\ Quiet /\ TablesHold' /\ HistoryHolds' /\ Kept'
      /\ ContextOK(Context, Authored)
      /\ Authored' = Authored /\ CommittedKeys' = CommittedKeys
      /\ Cardinality(Changes(heard))' = Cardinality(Changes(heard))
  BY <1>1, <1>3, SameView, ContinuationKeeps
<1>5. CASE Becomes(Finish(w, Context, Loop)) \/ Becomes(Again(w, Context, Loop))
  <2>1. LoopHolds'
    BY <1>4, <1>5, FlowKeeps DEF IInv, LoopHolds
  <2> QED BY <1>4, <2>1 DEF IInv
<1>6. CASE /\ workers' = [workers EXCEPT ![w].pc = IF a = "accepted" THEN "accept" ELSE "patch",
                                         ![w].status = IF a = "accepted" THEN "none" ELSE Settled[a],
                                         ![w].result = "none"]
           /\ flush' = IF a = "upgrade_required" THEN [flush EXCEPT !.timer = {}] ELSE flush
  <2> DEFINE pc == IF a = "accepted" THEN "accept" ELSE "patch"
             status == IF a = "accepted" THEN "none" ELSE Settled[a]
             r == [workers[w] EXCEPT !.pc = pc, !.status = status, !.result = "none"]
  <2>1. a \in Answers /\ (a = "accepted" => k \in CommittedKeys)
    BY <1>1, <1>2 DEF WorkerOK
  <2>2. /\ pc \in {"accept", "patch"} /\ status \in Status
        /\ pc = "accept" <=> a = "accepted"
        /\ pc = "patch" => status \notin {"none", "sending"}
    BY <2>1 DEF Answers, Settled, Status
  <2>3. workers' = [workers EXCEPT ![w] = r]
    BY <1>2, <1>6
  <2> HIDE DEF pc, status
  <2>4. /\ r \in WorkerRecords /\ r.pc = pc /\ r.status = status /\ r.result = "none"
        /\ r.key = k /\ r.live = workers[w].live
    BY <1>2, <2>2 DEF WorkerRecords
  <2> HIDE DEF r
  <2>5. WorkerOK(r, Authored', CommittedKeys')
    BY <1>1, <1>2, <1>4, <2>1, <2>2, <2>4 DEF WorkerOK
  <2>6. flush' \in FlushRecords /\ flush'.owner = flush.owner
    BY <1>2, <1>6 DEF FlushRecords
  <2>7. LoopHolds'
    BY <1>2, <1>4, <2>3, <2>4, <2>5, <2>6, LoopMoves
  <2> QED BY <1>4, <2>7 DEF IInv
<1> QED BY <1>5, <1>6 DEF AnswerArrives

LEMMA AcceptKeeps ==
  ASSUME IInv, NEW w \in Workers, AcceptContinues(w)
  PROVE  IInv'
<1> DEFINE k == workers[w].key
<1>1. UNCHANGED gates /\ Elsewhere
  BY DEF AcceptContinues
<1>2. gates' \subseteq Gates
  BY <1>1 DEF IInv, TablesHold
<1>3. CASE /\ UNCHANGED view
           /\ Becomes(Finish(w, Context, Loop)) \/ Becomes(Again(w, Context, Loop))
  <2>1. Quiet /\ TablesHold' /\ HistoryHolds' /\ Kept' /\ ContextOK(Context, Authored)
    BY <1>1, <1>2, <1>3, SameView, ContinuationKeeps
  <2>2. LoopHolds'
    BY <1>3, <2>1, FlowKeeps DEF IInv, LoopHolds
  <2> QED BY <2>1, <2>2 DEF IInv
<1>4. CASE view' = Without(view, {k}) /\ Becomes(Again(w, Context', Loop))
  <2>1. view' \in [Keys -> Items] /\ Held(view') \subseteq Authored
    BY <1>4, WithoutHolds DEF IInv, TablesHold
  <2>2. Quiet /\ TablesHold' /\ HistoryHolds' /\ Kept' /\ ContextOK(Context', Authored)
    BY <1>1, <1>2, <2>1, ContinuationKeeps
  <2>3. LoopHolds'
    BY <1>4, <2>2, FlowKeeps DEF IInv, LoopHolds
  <2> QED BY <2>2, <2>3 DEF IInv
<1> QED BY <1>3, <1>4 DEF AcceptContinues

LEMMA PatchKeeps ==
  ASSUME IInv, NEW w \in Workers, PatchContinues(w)
  PROVE  IInv'
<1> DEFINE k == workers[w].key
           item == Item(workers[w].status, workers[w].attempt)
           later == ScheduleNextRetry(Context', Loop)
<1>1. UNCHANGED gates /\ Elsewhere /\ workers[w].pc = "patch"
  BY DEF PatchContinues, At
<1>2. gates' \subseteq Gates
  BY <1>1 DEF IInv, TablesHold
<1>3. CASE UNCHANGED view /\ Becomes(Finish(w, Context, Loop))
  <2>1. Quiet /\ TablesHold' /\ HistoryHolds' /\ Kept' /\ ContextOK(Context, Authored)
    BY <1>1, <1>2, <1>3, SameView, ContinuationKeeps
  <2>2. LoopHolds'
    BY <1>3, <2>1, FlowKeeps DEF IInv, LoopHolds
  <2> QED BY <2>1, <2>2 DEF IInv
<1>4. CASE /\ Publish(k, item)
           /\ \/ Becomes(Again(w, Context', Loop))
              \/ Becomes(Finish(w, Context', later))
              \/ Becomes(Finish(w, Context', Loop))
  <2>1. k \in Keys /\ item \in Items /\ item.status # "none"
    <3>1. /\ workers[w] \in WorkerRecords /\ WorkerOK(workers[w], Authored, CommittedKeys)
          /\ k \in Keys
      BY <1>1, WorkerTyped, Busy
    <3> QED BY <1>1, <3>1, ItemsTyped DEF WorkerOK, WorkerRecords
  <2> HIDE DEF k, item
  <2>2. view' \in [Keys -> Items] /\ Held(view') \subseteq Authored
    BY <1>4, <2>1, PublishHolds
  <2>3. Quiet /\ TablesHold' /\ HistoryHolds' /\ Kept' /\ ContextOK(Context', Authored)
    BY <1>1, <1>2, <2>2, ContinuationKeeps
  <2>4. LoopOK(Loop, Authored, CommittedKeys, Cardinality(Changes(heard)))
    BY DEF IInv, LoopHolds
  <2>5. LoopOK(later, Authored, CommittedKeys, Cardinality(Changes(heard)))
    BY <2>4, ScheduleKeepsOK
  <2> HIDE DEF later
  <2>6. LoopHolds'
    BY <1>4, <2>3, <2>4, <2>5, FlowKeeps
  <2> QED BY <2>3, <2>6 DEF IInv
<1> QED BY <1>3, <1>4 DEF PatchContinues

-----------------------------------------------------------------------------
(* Time and the socket.                                                    *)

LEMMA ElapsesKeeps ==
  ASSUME IInv, NEW k \in Keys, Elapses(k)
  PROVE  IInv'
<1> USE DEF server, durable, screen, person
<1>1. /\ waiting' = waiting \ {k}
      /\ UNCHANGED <<log, access, orphans, rows, cursor, view, shown, heard, publishing, gates,
                     flush, workers, reload, authored, settled, used>>
  BY DEF Elapses
<1>2. Quiet
  BY <1>1 DEF Quiet
<1>3. Authored' = Authored /\ CommittedKeys' = CommittedKeys
  BY <1>2, QuietKeeps
<1>4. TablesHold'
  BY <1>1, <1>3 DEF IInv, TablesHold
<1>5. HistoryHolds'
  BY <1>1, <1>2, HistoryRests DEF IInv, HistoryHolds
<1>6. LoopHolds'
  BY <1>1, <1>2, LoopQuiet DEF IInv
<1>7. Kept'
  BY <1>1, <1>3, BornSame DEF IInv, Born
<1> QED BY <1>4, <1>5, <1>6, <1>7 DEF IInv

LEMMA TimerKeeps ==
  ASSUME IInv, TimerFires
  PROVE  IInv'
<1> USE DEF server, durable, screen, person
<1> DEFINE next == [Loop EXCEPT !.flush.timer = {}]
           n == Cardinality(Changes(heard))
<1>1. /\ Becomes(FlushOutbox(Context, next))
      /\ UNCHANGED <<log, access, orphans, rows, cursor, view, shown, heard, publishing, gates,
                     waiting, reload, authored, settled, used>>
  BY DEF TimerFires
<1>2. Quiet
  BY <1>1 DEF Quiet
<1>3. Authored' = Authored /\ CommittedKeys' = CommittedKeys
  BY <1>2, QuietKeeps
<1>4. TablesHold'
  BY <1>1, <1>3 DEF IInv, TablesHold
<1>5. HistoryHolds'
  BY <1>1, <1>2, HistoryRests DEF IInv, HistoryHolds
<1>6. LoopOK(next, Authored, CommittedKeys, n)
  <2>1. LoopOK(Loop, Authored, CommittedKeys, n)
    BY DEF IInv, LoopHolds
  <2>2. next \in Loops /\ next.workers = Loop.workers /\ next.flush.owner = Loop.flush.owner
    BY <2>1 DEF LoopOK, Loops, FlushRecords
  <2> HIDE DEF next
  <2>3. Stale(next) = Stale(Loop) /\ (OneOwner(Loop) => OneOwner(next))
    BY <2>2 DEF Stale, OneOwner
  <2> QED
    BY <2>1, <2>2, <2>3 DEF LoopOK
<1>7. ContextOK(Context, Authored)
  BY DEF ContextOK, Context, IInv, TablesHold
<1> HIDE DEF next
<1>8. LoopHolds'
  BY <1>1, <1>2, <1>6, <1>7, FlowKeeps
<1>9. Kept'
  BY <1>1, <1>3, BornSame DEF IInv, Born
<1> QED BY <1>4, <1>5, <1>8, <1>9 DEF IInv

LEMMA EntryTyped ==
  ASSUME HistoryHolds, NEW i \in 1..Len(log)
  PROVE  /\ log[i] \in Entries
         /\ log[i].kind = "message" => log[i].key \in CommittedKeys /\ log[i].key \in Keys
         /\ log[i].kind = "access" => log[i].conversation \in Conversation /\ log[i].on \in BOOLEAN
         /\ log[i].kind \in {"message", "access"}
<1>1. log[i] \in Entries /\ i \in DOMAIN log
  BY DEF HistoryHolds
<1>2. log[i].kind = "message" => log[i].key \in CommittedKeys
  BY <1>1 DEF CommittedKeys, Messages
<1> QED BY <1>1, <1>2 DEF Entries

LEMMA HearsKeeps ==
  ASSUME IInv, Hears
  PROVE  IInv'
<1> USE DEF server, durable, screen, person
<1> DEFINE e == log[heard + 1]
           n == Cardinality(Changes(heard))
           m == Cardinality(Changes(heard + 1))
<1>1. /\ heard < Len(log) /\ heard' = heard + 1
      /\ UNCHANGED <<log, access, orphans, rows, cursor, authored, settled, used, waiting>>
  BY DEF Hears
<1>2. heard \in Nat /\ Len(log) \in Nat /\ heard + 1 \in 1..Len(log) /\ heard' \in 0..Len(log')
  BY <1>1 DEF IInv, HistoryHolds
<1>3. Authored' = Authored /\ CommittedKeys' = CommittedKeys
  BY <1>1, LogKept DEF Authored
<1>4. Cardinality(Changes(Len(log)))' = Cardinality(Changes(Len(log)))
      /\ Cardinality(Changes(heard))' = m
  BY <1>1 DEF Changes
<1>5. HistoryHolds'
  BY <1>1, <1>2, <1>3, <1>4 DEF IInv, HistoryHolds
<1>6. Kept'
  BY <1>1, <1>3, BornSame DEF IInv, Born
<1>7. n \in Nat /\ m \in Nat /\ n <= m
  <2>1. heard + 1 \in Nat /\ heard <= heard + 1
    BY <1>2
  <2> QED BY <1>2, <2>1, ChangesCount
<1>8. CASE e.kind = "message"
  <2>1. UNCHANGED <<view, shown, publishing, gates, flush, workers, reload>>
    BY <1>8 DEF Hears
  <2>2. TablesHold'
    BY <1>1, <1>3, <2>1 DEF IInv, TablesHold
  <2> HIDE DEF n, m
  <2>3. LoopHolds'
    BY <1>3, <1>4, <1>7, <2>1, LoopRests DEF IInv, n
  <2> QED BY <1>5, <1>6, <2>2, <2>3 DEF IInv
<1>9. CASE e.kind # "message"
  <2>1. e.kind = "access"
    BY <1>2, <1>9, EntryTyped DEF IInv
  <2> DEFINE gone == e.kind = "access" /\ ~e.on
             hidden == {k \in Keys : gone /\ Conv(k) = e.conversation}
  <2>2. /\ view' = Without(view, hidden)
        /\ shown' = IF gone THEN shown \ {e.conversation} ELSE shown
        /\ publishing' = NoKey /\ gates' = (gates \ {"catalog"}) \cup {"membership"}
        /\ reload' = NoReload /\ Becomes(Rotated)
    BY <1>9 DEF Hears
  <2> HIDE DEF hidden, gone
  <2>3. view' \in [Keys -> Items] /\ Held(view') = Held(view) \ hidden
    BY <2>2, WithoutHolds DEF IInv, TablesHold
  <2>4. reload' \in Reloads /\ reload' \notin Reads
    BY <2>2 DEF Reloads, Reads, NoReload
  <2>5. gates' \subseteq Gates
    BY <2>2 DEF IInv, TablesHold, Gates
  <2>6. TablesHold'
    BY <1>1, <1>3, <2>2, <2>3, <2>4, <2>5 DEF IInv, TablesHold
  <2>7. m = n + 1
    <3>1. Changes(heard + 1) = Changes(heard) \cup {heard + 1} /\ heard + 1 \notin Changes(heard)
      BY <1>2, <2>1, SMTT(30) DEF Changes
    <3>2. IsFiniteSet(Changes(heard))
      BY <1>2, ChangesCount
    <3> QED BY <3>1, <3>2, FS_AddElement
  <2>8. LoopOK(Rotated, Authored, CommittedKeys, n + 1)
    <3>1. LoopOK(Loop, Authored, CommittedKeys, n)
      BY DEF IInv, LoopHolds
    <3>2. Rotated = [flush |-> [Loop.flush EXCEPT !.timer = {}],
                     workers |-> [w \in Workers |-> [Loop.workers[w] EXCEPT !.live = FALSE]]]
      BY DEF Rotated, Loop
    <3> HIDE DEF n
    <3> QED BY <1>7, <3>1, <3>2, RotationOK
  <2> HIDE DEF n, m
  <2>9. LoopHolds'
    BY <1>3, <1>4, <2>2, <2>7, <2>8, LoopBecomes
  <2> QED BY <1>5, <1>6, <2>6, <2>9 DEF IInv
<1> QED BY <1>8, <1>9

LEMMA EventCommitsKeeps ==
  ASSUME IInv, EventCommits
  PROVE  IInv'
<1> USE DEF server, durable, screen, person
<1> DEFINE e == log[cursor + 1]
<1>1. /\ cursor < heard /\ e.kind = "message" /\ rows' = Without(rows, {e.key})
      /\ cursor' = cursor + 1 /\ publishing' = e.key
      /\ UNCHANGED <<log, access, orphans, view, shown, heard, gates, flush, workers, waiting,
                     reload, authored, settled, used>>
  BY DEF EventCommits
<1>2. cursor + 1 \in 1..Len(log) /\ cursor' \in 0..Len(log)
  BY <1>1, SMTT(30) DEF IInv, HistoryHolds
<1>3. e.key \in CommittedKeys /\ e.key \in Keys
  BY <1>1, <1>2, EntryTyped DEF IInv
<1> HIDE DEF e
<1>4. Quiet
  BY <1>1 DEF Quiet
<1>5. Authored' = Authored /\ CommittedKeys' = CommittedKeys
  BY <1>4, QuietKeeps
<1>6. rows' \in [Keys -> Items] /\ Held(rows') = Held(rows) \ {e.key}
  BY <1>1, WithoutHolds DEF IInv, TablesHold
<1>7. TablesHold'
  BY <1>1, <1>3, <1>5, <1>6 DEF IInv, TablesHold
<1>8. HistoryHolds'
  BY <1>1, <1>2, <1>4, HistoryRests DEF IInv, HistoryHolds
<1>9. LoopHolds'
  BY <1>1, <1>4, LoopQuiet DEF IInv
<1>10. Kept'
  <2>1. Born' = Born
    BY <1>1, <1>3, <1>5, <1>6 DEF Born
  <2> QED BY <1>1, <2>1, BornSame DEF IInv
<1> QED BY <1>7, <1>8, <1>9, <1>10 DEF IInv

LEMMA EventPublishesKeeps ==
  ASSUME IInv, EventPublishes
  PROVE  IInv'
<1> USE DEF server, durable, screen, person
<1>1. /\ view' = Without(view, {publishing}) /\ publishing' = NoKey
      /\ UNCHANGED <<log, access, orphans, rows, cursor, shown, heard, gates, flush, workers,
                     waiting, reload, authored, settled, used>>
  BY DEF EventPublishes
<1>2. Quiet
  BY <1>1 DEF Quiet
<1>3. Authored' = Authored /\ CommittedKeys' = CommittedKeys
  BY <1>2, QuietKeeps
<1>4. view' \in [Keys -> Items] /\ Held(view') \subseteq Held(view)
  BY <1>1, WithoutHolds DEF IInv, TablesHold
<1>5. TablesHold'
  BY <1>1, <1>3, <1>4 DEF IInv, TablesHold
<1>6. HistoryHolds'
  BY <1>1, <1>2, HistoryRests DEF IInv, HistoryHolds
<1>7. LoopHolds'
  BY <1>1, <1>2, LoopQuiet DEF IInv
<1>8. Kept'
  BY <1>1, <1>3, BornSame DEF IInv, Born
<1> QED BY <1>5, <1>6, <1>7, <1>8 DEF IInv

-----------------------------------------------------------------------------
(* The recoveries.                                                         *)

(* A recovery that sets the durable rows and position, and rests the loop. *)
LEMMA RecoveryKeeps ==
  ASSUME IInv, Quiet, UNCHANGED <<access, orphans, publishing, waiting, settled, flush, workers>>,
         rows' \in [Keys -> Items], Held(rows') \subseteq Held(rows),
         Held(rows) \subseteq Held(rows') \cup CommittedKeys,
         view' \in [Keys -> Items], Held(view') \subseteq Authored,
         shown' \subseteq Conversation, gates' \subseteq Gates,
         reload' \in Reloads, reload' \in Reads => Held(reload'.items) \subseteq Authored,
         cursor' \in 0..Len(log),
         used' \in [DOMAIN Bounds -> Nat], used'["accesses"] = used["accesses"]
  PROVE  IInv'
<1>1. Authored' = Authored /\ CommittedKeys' = CommittedKeys
  BY QuietKeeps
<1>2. TablesHold'
  BY <1>1 DEF IInv, TablesHold, Quiet
<1>3. HistoryHolds'
  BY HistoryRests DEF IInv
<1>4. LoopHolds'
  BY LoopQuiet DEF IInv
<1>5. Kept'
  <2>1. Born' = Born
    BY <1>1 DEF Born
  <2> QED BY <2>1, BornSame DEF IInv, Quiet
<1> QED BY <1>2, <1>3, <1>4, <1>5 DEF IInv

LEMMA TablesTyped ==
  ASSUME IInv
  PROVE  /\ rows \in [Keys -> Items] /\ view \in [Keys -> Items] /\ Len(log) \in Nat
         /\ Held(rows) \subseteq Authored /\ Held(view) \subseteq Authored
         /\ shown \subseteq Conversation /\ access \subseteq Conversation /\ gates \subseteq Gates
         /\ reload \in Reloads /\ (reload \in Reads => Held(reload.items) \subseteq Authored)
         /\ cursor \in 0..Len(log) /\ heard \in 0..Len(log) /\ log \in Seq(Entries)
         /\ used \in [DOMAIN Bounds -> Nat]
BY DEF IInv, TablesHold, HistoryHolds

LEMMA RepairBeginsKeeps ==
  ASSUME IInv, RepairBegins
  PROVE  IInv'
<1> USE DEF server, durable, screen, person
<1> DEFINE pending == Memberships(cursor, heard)
           n == CHOOSE i \in pending : \A j \in pending : i <= j
           e == log[n]
           left == IF e.on THEN Conversation ELSE Conversation \ {e.conversation}
<1>1. /\ pending # {} /\ rows' = Revoked(rows, left) /\ cursor' = n
      /\ view' = Loaded(rows') /\ shown' = shown \cap left
      /\ UNCHANGED <<log, access, orphans, heard, publishing, gates, flush, workers, waiting,
                     reload, authored, settled, used>>
  BY DEF RepairBegins
<1>2. pending \in SUBSET Nat /\ pending \subseteq 1..Len(log)
  BY TablesTyped DEF Memberships
<1> HIDE DEF pending
<1>3. n \in pending
  BY <1>1, <1>2, Least
<1> HIDE DEF n, left
<1>4. cursor' \in 0..Len(log)
  BY <1>1, <1>2, <1>3, TablesTyped
<1>5. rows' \in [Keys -> Items] /\ Held(rows') = Held(rows)
  BY <1>1, TablesTyped, RevokedHolds
<1>6. view' \in [Keys -> Items] /\ Held(view') = Held(rows')
  BY <1>1, <1>5, LoadedHolds
<1>7. Quiet
  BY <1>1 DEF Quiet
<1> QED BY <1>1, <1>4, <1>5, <1>6, <1>7, TablesTyped, RecoveryKeeps

(* The authoritative snapshot, after which the socket resumes and sends go on. *)
LEMMA SnapshotKeeps ==
  ASSUME IInv, Snapshot, heard' = cursor', gates' \subseteq Gates,
         UNCHANGED <<log, access, orphans, publishing, waiting, reload, authored, settled, used>>,
         Becomes(FlushOutbox(Context', Loop))
  PROVE  IInv'
<1> DEFINE n == Cardinality(Changes(heard))
           m == Cardinality(Changes(Len(log)))
           next == FlushOutbox(Context', Loop)
<1>1. /\ rows' = Revoked(rows, access) /\ cursor' = Len(log)
      /\ view' = Loaded(rows') /\ shown' = access
  BY DEF Snapshot
<1>2. rows' \in [Keys -> Items] /\ Held(rows') = Held(rows)
  BY <1>1, TablesTyped, RevokedHolds
<1>3. view' \in [Keys -> Items] /\ Held(view') = Held(rows')
  BY <1>1, <1>2, LoadedHolds
<1>4. Authored' = Authored /\ CommittedKeys' = CommittedKeys
  BY LogKept DEF Authored
<1>5. TablesHold'
  BY <1>1, <1>2, <1>3, <1>4 DEF IInv, TablesHold
<1>6. Cardinality(Changes(heard))' = m /\ Cardinality(Changes(Len(log)))' = m
  BY <1>1 DEF Changes
<1>7. HistoryHolds'
  BY <1>1, <1>4, <1>6, TablesTyped DEF IInv, HistoryHolds
<1>8. n \in Nat /\ m \in Nat /\ n <= m
  BY TablesTyped, ChangesCount
<1>9. m \in 0..MaxAccessChanges
  BY <1>6, <1>7, <1>8, BoundsTyped, BoundNames DEF HistoryHolds
<1>10. ContextOK(Context', Authored)
  BY <1>2, <1>3, TablesTyped DEF ContextOK, Context
<1>11. Authored \in SUBSET Keys
  BY DEF Authored
<1>12. LoopOK(Loop, Authored, CommittedKeys, n)
  BY DEF IInv, LoopHolds
<1> HIDE DEF n, m
<1>13. LoopOK(Loop, Authored, CommittedKeys, m)
  BY <1>8, <1>12, LoopGrows
<1>14. LoopOK(next, Authored, CommittedKeys, m)
  BY <1>9, <1>10, <1>11, <1>13, FlushOK
<1> HIDE DEF next
<1>15. Becomes(next)
  BY DEF next
<1>16. LoopHolds'
  BY <1>4, <1>6, <1>14, <1>15, LoopBecomes
<1>17. Kept'
  BY <1>2, <1>4, BornSame DEF IInv, Born
<1> QED BY <1>5, <1>7, <1>16, <1>17 DEF IInv

LEMMA RepairEndsKeeps ==
  ASSUME IInv, RepairEnds
  PROVE  IInv'
<1>1. /\ Snapshot /\ heard' = cursor' /\ gates' \subseteq Gates
      /\ UNCHANGED <<log, access, orphans, publishing, waiting, reload, authored, settled, used>>
      /\ Becomes(FlushOutbox(Context', Loop))
  BY TablesTyped DEF RepairEnds, server, person
<1> QED BY <1>1, SnapshotKeeps

LEMMA StartupKeeps ==
  ASSUME IInv, StartupCompletes
  PROVE  IInv'
<1>1. /\ Snapshot /\ heard' = cursor' /\ gates' \subseteq Gates
      /\ UNCHANGED <<log, access, orphans, publishing, waiting, reload, authored, settled, used>>
      /\ Becomes(FlushOutbox(Context', Loop))
  BY TablesTyped DEF StartupCompletes, server, person
<1> QED BY <1>1, SnapshotKeeps

LEMMA CatalogBeginsKeeps ==
  ASSUME IInv, CatalogBegins
  PROVE  IInv'
<1> USE DEF server, durable, screen, person
<1>1. /\ Spend("catalogs") /\ gates' = gates \cup {"catalog"}
      /\ reload' = [kind |-> "catalog", read |-> FALSE]
      /\ UNCHANGED <<log, access, orphans, rows, cursor, view, shown, heard, publishing, flush,
                     workers, authored, settled, waiting>>
  BY DEF CatalogBegins
<1>2. Quiet /\ gates' \subseteq Gates
  BY <1>1, TablesTyped DEF Quiet, Gates
<1>3. reload' \in Reloads /\ reload' \notin Reads
  BY <1>1 DEF Reloads, Reads
<1>4. used' \in [DOMAIN Bounds -> Nat] /\ used'["accesses"] = used["accesses"]
  BY <1>1, BoundNames, SpendHolds DEF IInv
<1> QED BY <1>1, <1>2, <1>3, <1>4, TablesTyped, RecoveryKeeps

LEMMA CatalogFailsKeeps ==
  ASSUME IInv, CatalogFails
  PROVE  IInv'
<1> USE DEF server, durable, screen, person
<1>1. /\ reload' = NoReload /\ gates' = gates \ {"catalog"}
      /\ UNCHANGED <<log, access, orphans, rows, cursor, view, shown, heard, publishing, flush,
                     workers, authored, settled, waiting, used>>
  BY DEF CatalogFails
<1>2. Quiet /\ gates' \subseteq Gates
  BY <1>1, TablesTyped DEF Quiet
<1>3. reload' \in Reloads /\ reload' \notin Reads
  BY <1>1 DEF Reloads, Reads, NoReload
<1> QED BY <1>1, <1>2, <1>3, TablesTyped, RecoveryKeeps

LEMMA CatalogReadsKeeps ==
  ASSUME IInv, CatalogReads
  PROVE  IInv'
<1> USE DEF server, durable, screen, person
<1>1. /\ rows' = Revoked(rows, access) /\ cursor' = Len(log)
      /\ reload' = [kind |-> "catalog", read |-> TRUE, items |-> Loaded(rows'), shown |-> access]
      /\ UNCHANGED <<log, access, orphans, view, shown, heard, publishing, gates, flush, workers,
                     authored, settled, used, waiting>>
  BY DEF CatalogReads
<1>2. rows' \in [Keys -> Items] /\ Held(rows') = Held(rows)
  BY <1>1, TablesTyped, RevokedHolds
<1>3. Loaded(rows') \in [Keys -> Items] /\ Held(Loaded(rows')) = Held(rows)
  BY <1>2, LoadedHolds
<1>4. reload' \in Reloads /\ Held(reload'.items) = Held(rows)
  BY <1>1, <1>3, TablesTyped DEF Reloads, Reads
<1>5. Quiet
  BY <1>1 DEF Quiet
<1> QED BY <1>1, <1>2, <1>4, <1>5, TablesTyped, RecoveryKeeps

LEMMA SyncKeeps ==
  ASSUME IInv, SyncReads
  PROVE  IInv'
<1> USE DEF server, durable, screen, person
<1> DEFINE seen == {log[i].key : i \in {n \in Messages : n > cursor}}
<1>1. /\ Spend("syncs") /\ rows' = Without(rows, seen) /\ cursor' = Len(log)
      /\ reload' = [kind |-> "sync", read |-> TRUE, items |-> Loaded(rows'), shown |-> shown]
      /\ UNCHANGED <<log, access, orphans, view, shown, heard, publishing, gates, flush, workers,
                     authored, settled, waiting>>
  BY DEF SyncReads
<1>2. seen \subseteq CommittedKeys
  BY DEF CommittedKeys
<1> HIDE DEF seen
<1>3. rows' \in [Keys -> Items] /\ Held(rows') = Held(rows) \ seen
  BY <1>1, TablesTyped, WithoutHolds
<1>4. Loaded(rows') \in [Keys -> Items] /\ Held(Loaded(rows')) = Held(rows')
  BY <1>3, LoadedHolds
<1>5. reload' \in Reloads /\ Held(reload'.items) \subseteq Held(rows)
  BY <1>1, <1>3, <1>4, TablesTyped DEF Reloads, Reads
<1>6. Quiet
  BY <1>1 DEF Quiet
<1>7. used' \in [DOMAIN Bounds -> Nat] /\ used'["accesses"] = used["accesses"]
  BY <1>1, BoundNames, SpendHolds DEF IInv
<1> QED BY <1>1, <1>2, <1>3, <1>5, <1>6, <1>7, TablesTyped, RecoveryKeeps

LEMMA ReloadKeeps ==
  ASSUME IInv, ReloadPublishes
  PROVE  IInv'
<1> USE DEF server, durable, screen, person
<1>1. /\ reload.kind # "none" /\ reload.read
      /\ view' = reload.items /\ shown' = reload.shown /\ reload' = NoReload
      /\ UNCHANGED <<log, access, orphans, rows, cursor, heard, publishing, authored, settled,
                     used, waiting>>
  BY DEF ReloadPublishes
<1>2. reload \in Reads
  <2>1. \/ reload = NoReload \/ reload \in [kind : {"catalog"}, read : {FALSE}] \/ reload \in Reads
    BY TablesTyped DEF Reloads
  <2>2. reload # NoReload
    BY <1>1 DEF NoReload
  <2>3. reload \notin [kind : {"catalog"}, read : {FALSE}]
    BY <1>1
  <2> QED BY <2>1, <2>2, <2>3
<1>3. /\ view' \in [Keys -> Items] /\ Held(view') \subseteq Authored /\ shown' \subseteq Conversation
  BY <1>1, <1>2, TablesTyped DEF Reads
<1>4. reload' \in Reloads /\ reload' \notin Reads
  BY <1>1 DEF Reloads, Reads, NoReload
<1>5. Quiet
  BY <1>1 DEF Quiet
<1>6. gates' \subseteq Gates
  BY TablesTyped DEF ReloadPublishes
<1>7. CASE UNCHANGED <<flush, workers>>
  BY <1>1, <1>3, <1>4, <1>5, <1>6, <1>7, TablesTyped, RecoveryKeeps
<1>8. CASE Becomes(FlushOutbox(Context', Loop))
  <2>1. Authored' = Authored /\ CommittedKeys' = CommittedKeys
    BY <1>5, QuietKeeps
  <2>2. TablesHold'
    BY <1>1, <1>3, <1>4, <1>6, <2>1 DEF IInv, TablesHold
  <2>3. HistoryHolds'
    BY <1>1, <1>5, TablesTyped, HistoryRests DEF IInv
  <2>4. ContextOK(Context', Authored)
    BY <1>3 DEF ContextOK, Context
  <2>5. LoopHolds'
    BY <1>5, <1>8, <2>4, FlowKeeps DEF IInv, LoopHolds
  <2>6. Kept'
    BY <1>1, <2>1, BornSame DEF IInv, Born
  <2> QED BY <2>2, <2>3, <2>5, <2>6 DEF IInv
<1> QED BY <1>7, <1>8 DEF ReloadPublishes

LEMMA CrashKeeps ==
  ASSUME IInv, Crashes
  PROVE  IInv'
<1> USE DEF server, durable, screen, person
<1> DEFINE sent == {workers[w].key : w \in {i \in Workers : At(i, "send")}}
           next == [flush |-> Unowned, workers |-> [w \in Workers |-> Idle]]
           m == Cardinality(Changes(cursor))
<1>1. /\ Spend("restarts") /\ orphans' = orphans \cup sent /\ view' = Loaded(rows)
      /\ gates' = {"startup"} /\ heard' = cursor /\ publishing' = NoKey /\ reload' = NoReload
      /\ flush' = Unowned /\ workers' = [w \in Workers |-> Idle]
      /\ UNCHANGED <<log, access, rows, cursor, shown, authored, settled, waiting>>
  BY DEF Crashes
<1>2. sent \subseteq Authored
  BY Busy DEF At
<1> HIDE DEF sent
<1>3. view' \in [Keys -> Items] /\ Held(view') = Held(rows)
  BY <1>1, TablesTyped, LoadedHolds
<1>4. Authored' = Authored /\ CommittedKeys' = CommittedKeys
  BY <1>1, LogKept DEF Authored
<1>5. reload' \in Reloads /\ reload' \notin Reads /\ gates' \subseteq Gates
  BY <1>1 DEF Reloads, Reads, NoReload, Gates
<1>6. TablesHold'
  BY <1>1, <1>2, <1>3, <1>4, <1>5 DEF IInv, TablesHold
<1>7. used' \in [DOMAIN Bounds -> Nat] /\ used'["accesses"] = used["accesses"]
  BY <1>1, BoundNames, SpendHolds DEF IInv
<1>8. Cardinality(Changes(heard))' = m
      /\ Cardinality(Changes(Len(log)))' = Cardinality(Changes(Len(log)))
  BY <1>1 DEF Changes
<1>9. HistoryHolds'
  BY <1>1, <1>4, <1>7, <1>8, TablesTyped DEF IInv, HistoryHolds
<1>10. m \in Nat
  BY TablesTyped, ChangesCount
<1> HIDE DEF m
<1>11. LoopOK(next, Authored, CommittedKeys, m)
  BY <1>10, FreshOK
<1>12. Becomes(next)
  BY <1>1 DEF Becomes
<1> HIDE DEF next
<1>13. LoopHolds'
  BY <1>4, <1>8, <1>11, <1>12, LoopBecomes
<1>14. Kept'
  BY <1>1, <1>4, BornSame DEF IInv, Born
<1> QED BY <1>6, <1>9, <1>13, <1>14 DEF IInv

-----------------------------------------------------------------------------
(* The theorems.                                                           *)

(* The outbox begins empty, with no loop and nothing in the log. *)
LEMMA InitIInv == Init => IInv
<1> SUFFICES ASSUME Init PROVE IInv
  OBVIOUS
<1>1. /\ log = <<>> /\ access = Conversation /\ orphans = {}
      /\ rows = [k \in Keys |-> Absent] /\ cursor = 0 /\ view = rows /\ shown = Conversation
      /\ heard = 0 /\ publishing = NoKey /\ gates = {} /\ waiting = {}
      /\ flush = Unowned /\ workers = [w \in Workers |-> Idle] /\ reload = NoReload
      /\ authored = 0 /\ settled = {} /\ used = [b \in DOMAIN Bounds |-> 0]
  BY DEF Init, NoReload
<1>2. rows \in [Keys -> Items] /\ Held(rows) = {} /\ Held(view) = {}
  BY <1>1, ItemsTyped DEF Held
<1>3. CommittedKeys = {} /\ Changes(heard) = {} /\ Changes(Len(log)) = {} /\ Len(log) = 0
  BY <1>1 DEF CommittedKeys, Messages, Changes
<1>4. reload \in Reloads /\ reload \notin Reads
  BY <1>1 DEF Reloads, Reads, NoReload
<1>5. TablesHold
  BY <1>1, <1>2, <1>4, BoundsTyped DEF TablesHold
<1>6. Cardinality(Changes(heard)) = 0 /\ Cardinality(Changes(Len(log))) = 0
  <2>1. Cardinality({}) = 0
    BY FS_EmptySet
  <2> QED BY <1>3, <2>1, Zenon
<1>7. used \in [DOMAIN Bounds -> Nat] /\ used["accesses"] = 0
  BY <1>1, BoundNames
<1>8. HistoryHolds
  BY <1>1, <1>3, <1>6, <1>7, BoundsTyped DEF HistoryHolds
<1>9. LoopHolds
  <2>1. Loop = [flush |-> Unowned, workers |-> [w \in Workers |-> Idle]]
    BY <1>1 DEF Loop
  <2> QED BY <1>6, <2>1, FreshOK DEF LoopHolds
<1>10. Kept
  BY <1>1 DEF Kept, KeptIn
<1> QED BY <1>5, <1>8, <1>9, <1>10 DEF IInv

LEMMA StutterKeeps ==
  ASSUME IInv, UNCHANGED vars
  PROVE  IInv'
<1> USE DEF vars, server, durable, screen, person
<1>1. Quiet /\ UNCHANGED <<access, orphans, publishing, waiting, settled, flush, workers, rows,
                           view, shown, gates, reload, cursor, used>>
  BY DEF Quiet
<1> QED BY <1>1, TablesTyped, RecoveryKeeps

(* Every action keeps the tables, the history and the loop in order. *)
LEMMA NextIInv == IInv /\ [Next]_vars => IInv'
<1> SUFFICES ASSUME IInv, [Next]_vars PROVE IInv'
  OBVIOUS
<1>1. CASE Person
  BY <1>1, SendKeeps, RetryKeeps, ReplaceKeeps, DiscardKeeps DEF Person
<1>2. CASE Server
  BY <1>2, HandlesKeeps, LosesKeeps, OrphanKeeps, AccessKeeps DEF Server
<1>3. CASE Events
  BY <1>3, HearsKeeps, EventCommitsKeeps, EventPublishesKeeps, RepairBeginsKeeps, RepairEndsKeeps
     DEF Events
<1>4. CASE Recoveries
  BY <1>4, CatalogBeginsKeeps, CatalogReadsKeeps, CatalogFailsKeeps, SyncKeeps, ReloadKeeps,
     CrashKeeps, StartupKeeps DEF Recoveries
<1>5. CASE TimerFires
  BY <1>5, TimerKeeps
<1>6. CASE \E w \in Workers : Worker(w)
  BY <1>6, CacheKeeps, ClaimKeeps, AnswerKeeps, AcceptKeeps, PatchKeeps DEF Worker
<1>7. CASE \E k \in Keys : Elapses(k)
  BY <1>7, ElapsesKeeps
<1>8. CASE UNCHANGED vars
  BY <1>8, StutterKeeps
<1> QED BY <1>1, <1>2, <1>3, <1>4, <1>5, <1>6, <1>7, <1>8 DEF Next

THEOREM OutboxInductive == Spec => []IInv
BY InitIInv, NextIInv, PTL DEF Spec

LEMMA InvariantHolds == IInv => OutboxHolds
<1> SUFFICES ASSUME IInv PROVE OutboxHolds
  OBVIOUS
<1>1. TypeOK
  <2>1. orphans \subseteq Keys /\ settled \subseteq Keys
    BY DEF IInv, TablesHold, Authored
  <2>2. flush \in FlushRecords
    BY DEF IInv, LoopHolds, LoopOK, Loop, Loops
  <2>3. \A w \in Workers : workers[w] # Idle => workers[w].key \in Keys
    BY WorkerTyped DEF WorkerOK, Authored
  <2> QED BY <2>1, <2>2, <2>3 DEF TypeOK, FlushRecords, IInv, TablesHold, HistoryHolds
<1>2. OneLiveLoop
  BY DEF OneLiveLoop, IInv, LoopHolds, LoopOK, OneOwner, Loop
<1> QED BY <1>1, <1>2 DEF OutboxHolds

(* Two loops of a projection never send at once, however flushes, rotations  *)
(* and crashes fall, and everything keeps its type: #flushOutbox.            *)
THEOREM OutboxHoldsAlways == Spec => []OutboxHolds
BY OutboxInductive, InvariantHolds, PTL

LEMMA KeptLosesNothing == IInv => NothingLost
<1> SUFFICES ASSUME IInv, NEW i \in 1..authored
             PROVE  \E n \in 0..MaxReplacements :
                      \/ <<i, n>> \in Held(rows) \cup CommittedKeys
                      \/ /\ <<i, n>> \in settled
                         /\ <<i, n + 1>> \notin Held(rows) \cup CommittedKeys \cup settled
  BY DEF NothingLost
<1>1. PICK n \in 0..MaxReplacements :
        <<i, n>> \in Born /\ \A m \in (n + 1)..MaxReplacements : <<i, m>> \notin Born
  BY DEF IInv, Kept, KeptIn
<1>2. <<i, n + 1>> \notin Born
  <2>1. CASE n + 1 \in (n + 1)..MaxReplacements
    BY <1>1, <2>1
  <2>2. CASE n + 1 \notin (n + 1)..MaxReplacements
    <3>1. n + 1 > MaxReplacements
      BY <2>2, BoundsTyped
    <3>2. <<i, n + 1>> \notin Keys
      BY <3>1, BoundsTyped DEF Keys
    <3>3. Born \subseteq Keys
      BY DEF Born, IInv, TablesHold, HistoryHolds, Authored
    <3> QED BY <3>2, <3>3
  <2> QED BY <2>1, <2>2
<1> QED BY <1>1, <1>2 DEF Born

(* What a person wrote is in the durable outbox until the server has it or the *)
(* person gave it up, however many messages, edits, losses, crashes, reloads   *)
(* and changes of the membership: workspace-cache.ts drops a row only then.    *)
THEOREM NothingLostHolds == Spec => []NothingLost
BY OutboxInductive, KeptLosesNothing, PTL

LEMMA FailedStep ==
  ASSUME IInv, [Next]_vars
  PROVE  FailedStaysFailed
<1> USE DEF vars, server, durable, screen, person
<1> SUFFICES ASSUME NEW k \in Keys, rows[k].status = "permanent_failure", ~Person
             PROVE  rows'[k].status \in {"permanent_failure", "none"}
  BY DEF FailedStaysFailed
<1>1. /\ rows \in [Keys -> Items]
      /\ \A S : Revoked(rows, S)[k].status = "permanent_failure"
      /\ \A S : Without(rows, S)[k].status \in {"permanent_failure", "none"}
  <2>1. Item("permanent_failure", rows[k].attempt).status = "permanent_failure"
        /\ Absent.status = "none"
    BY DEF Item, Absent
  <2> QED BY <2>1, TablesTyped DEF Revoked, Without
<1>2. CASE UNCHANGED rows
  BY <1>1, <1>2
<1>3. CASE Server
  <2>1. UNCHANGED rows
    BY <1>3 DEF Server, Handles, Loses, OrphanArrives, ChangesAccess
  <2> QED BY <1>2, <2>1
<1>4. CASE Events
  <2>1. CASE Hears \/ EventPublishes
    BY <1>2, <2>1 DEF Hears, EventPublishes
  <2>2. CASE EventCommits
    BY <1>1, <2>2 DEF EventCommits
  <2>3. CASE RepairBegins
    BY <1>1, <2>3 DEF RepairBegins
  <2>4. CASE RepairEnds
    BY <1>1, <2>4 DEF RepairEnds, Snapshot
  <2> QED BY <1>4, <2>1, <2>2, <2>3, <2>4 DEF Events
<1>5. CASE Recoveries
  <2>1. CASE CatalogBegins \/ CatalogFails \/ ReloadPublishes \/ Crashes
    BY <1>2, <2>1 DEF CatalogBegins, CatalogFails, ReloadPublishes, Crashes
  <2>2. CASE CatalogReads
    BY <1>1, <2>2 DEF CatalogReads
  <2>3. CASE SyncReads
    BY <1>1, <2>3 DEF SyncReads
  <2>4. CASE StartupCompletes
    BY <1>1, <2>4 DEF StartupCompletes, Snapshot
  <2> QED BY <1>5, <2>1, <2>2, <2>3, <2>4 DEF Recoveries
<1>6. CASE TimerFires \/ \E j \in Keys : Elapses(j)
  BY <1>2, <1>6 DEF TimerFires, Elapses
<1>7. ASSUME NEW w \in Workers, Worker(w) PROVE rows'[k].status \in {"permanent_failure", "none"}
  <2>1. CASE CacheWrites(w)
    BY <2>1, CacheEffect
  <2>2. CASE ClaimContinues(w) \/ AnswerArrives(w) \/ AcceptContinues(w) \/ PatchContinues(w)
    BY <1>2, <2>2 DEF ClaimContinues, AnswerArrives, AcceptContinues, PatchContinues, Elsewhere
  <2> QED BY <1>7, <2>1, <2>2 DEF Worker
<1> QED BY <1>2, <1>3, <1>4, <1>5, <1>6, <1>7 DEF Next

(* A message marked as failed is sent again only because the person asked: no *)
(* worker, timer, event, recovery or restart makes its row sendable.          *)
THEOREM NeverRetriedAlone == Spec => NoAutomaticRetry
<1>1. IInv /\ [Next]_vars => [FailedStaysFailed]_vars
  BY FailedStep
<1> QED BY <1>1, OutboxInductive, PTL DEF Spec, NoAutomaticRetry

=============================================================================
