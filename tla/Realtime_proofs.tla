-------------------------- MODULE Realtime_proofs ---------------------------
(***************************************************************************)
(* What the server's realtime path promises: the hub for any number of     *)
(* connections, concurrent calls of #listen, sockets, losses and commits,  *)
(* and a socket for a log of any length, pages of any size and any number  *)
(* of checks and failures.                                                 *)
(*                                                                         *)
(* Hub.  Every connection that is out of the pool has one owner: the hub,  *)
(* the call to close() or one run of #listen, so releases never overlap; a *)
(* serving hub that has no listener owes the attempt to its own timer,     *)
(* never to a caller of start(); and while start() was called once a       *)
(* single attempt is under way, which decides what a commit may be behind. *)
(*                                                                         *)
(* Socket.  A page is a snapshot: the commits that it misses leave a       *)
(* wake-up on its way or a round asked for, so that the call of flush that *)
(* sends the last page does not end behind them.  And a page of an agent   *)
(* has one check of its own in the queue until that check has settled, and *)
(* its verdict is as fresh as the page.                                    *)
(***************************************************************************)
EXTENDS RealtimeHub, RealtimeSocket, TLAPS

-----------------------------------------------------------------------------
(* The hub.                                                                *)

Attempts == [phase: {"idle", "connect", "listen", "settled", "failed"},
             client: Clients \cup {NoClient}, relisten: BOOLEAN, byTimer: BOOLEAN]

Holding(r) == run[r].phase \in {"listen", "settled", "failed"}

HubFlags ==
  /\ timer \in BOOLEAN /\ stopped \in BOOLEAN /\ hasListened \in BOOLEAN
  /\ serving \in BOOLEAN /\ misreleased = FALSE

HubTyped ==
  /\ conn \in [Clients -> {"pool", "out"}]
  /\ alive \subseteq Clients /\ registered \subseteq Clients
  /\ transit \subseteq Clients /\ lost \subseteq Clients
  /\ run \in [Runs -> Attempts]
  /\ client \in Clients \cup {NoClient} /\ closing \in Clients \cup {NoClient}
  /\ listeners \subseteq Subscribers
  /\ missed \in [Subscribers -> {"none", "early", "late"}]
  /\ starts \in Nat

(* One owner for each connection that is out, and every owner's is out. *)
Owned ==
  /\ \A r \in Runs : IF Holding(r) THEN run[r].client \in Clients ELSE run[r].client = NoClient
  /\ \A c \in Clients :
       conn[c] = "out" <=> c = client \/ c = closing \/ \E r \in Runs : run[r].client = c
  /\ client # NoClient => client # closing
  /\ \A r \in Runs : Holding(r) => run[r].client # client /\ run[r].client # closing
  /\ \A r, q \in Runs : Holding(r) /\ Holding(q) /\ run[r].client = run[q].client => r = q

(* What still works: everything in the pool, the listener, and a run whose  *)
(* connection was not lost.                                                *)
Working ==
  /\ \A c \in Clients : conn[c] = "pool" => c \in alive
  /\ client # NoClient => client \in alive \cap registered /\ ~stopped
  /\ \A r \in Runs :
       /\ run[r].phase = "listen" => run[r].client \in alive
       /\ run[r].phase = "settled" => run[r].client \in lost \cup (alive \cap registered)

(* Who tries again. *)
Attempted ==
  /\ stopped => ~serving
  /\ serving /\ client = NoClient =>
       timer \/ \E r \in Runs : run[r].phase # "idle" /\ run[r].byTimer

(* While start() was called once there is one listener, timer or attempt,   *)
(* and an attempt knows whether the hub has listened before.               *)
Single ==
  /\ starts = 0 => ~timer /\ client = NoClient /\ \A r \in Runs : run[r].phase = "idle"
  /\ starts = 1 =>
       /\ client # NoClient => ~timer
       /\ client # NoClient \/ timer => \A r \in Runs : run[r].phase = "idle"
       /\ \A r, q \in Runs : run[r].phase # "idle" /\ run[q].phase # "idle" => r = q
       /\ \A r \in Runs : Holding(r) => run[r].relisten = hasListened

(* Behind a commit is only whom the listener is still to be told of. *)
Caught ==
  /\ ~hasListened => client = NoClient /\ \A s \in Subscribers : missed[s] # "late"
  /\ starts = 1 /\ client # NoClient /\ client \notin transit =>
       \A s \in listeners : missed[s] # "late"

HubInv == HubTyped /\ HubFlags /\ Owned /\ Working /\ Attempted /\ Single /\ Caught

-----------------------------------------------------------------------------
USE HubAssumption

LEMMA HubInitInv == HubInit => HubInv
<1> SUFFICES ASSUME HubInit PROVE HubInv
  OBVIOUS
<1> USE DEF HubInit, Idle
<1>1. HubTyped
  BY DEF HubTyped, Attempts
<1>2. HubFlags /\ Owned /\ Working
  BY DEF HubFlags, Owned, Working, Holding
<1>3. Attempted /\ Single /\ Caught
  BY DEF Attempted, Single, Caught, Holding
<1> QED BY <1>1, <1>2, <1>3 DEF HubInv

-----------------------------------------------------------------------------
(* The sockets, the commits and close().                                   *)

LEMMA CloseKeeps ==
  ASSUME HubInv, Close
  PROVE  HubInv'
<1> USE DEF Close, connVars, hubVars, subVars, counters
<1>1. HubTyped'
  BY DEF HubInv, HubTyped
<1>2. HubFlags'
  BY DEF HubInv, HubFlags
<1>3. Owned'
  BY DEF HubInv, HubTyped, Owned, Holding
<1>4. Working'
  BY DEF HubInv, HubTyped, Working, Owned
<1>5. Attempted'
  BY DEF HubInv, HubTyped, HubFlags, Attempted
<1>6. Single'
  BY DEF HubInv, HubTyped, Single, Holding
<1>7. Caught'
  BY DEF HubInv, HubTyped, Working, Owned, Caught
<1> QED BY <1>1, <1>2, <1>3, <1>4, <1>5, <1>6, <1>7 DEF HubInv

LEMMA CloseReleasesKeeps ==
  ASSUME HubInv, CloseReleases
  PROVE  HubInv'
<1> USE DEF CloseReleases, connVars, hubVars, subVars, counters
<1>1. HubTyped'
  BY DEF HubInv, HubTyped
<1>0. conn[closing] = "out"
  BY DEF HubInv, HubTyped, Owned
<1>2. HubFlags'
  BY <1>0 DEF HubInv, HubFlags
<1>3. Owned'
  BY DEF HubInv, HubTyped, Owned, Holding
<1>4. Working'
  BY DEF HubInv, HubTyped, Working, Owned
<1>5. Attempted'
  BY DEF HubInv, HubTyped, HubFlags, Attempted
<1>6. Single'
  BY DEF HubInv, HubTyped, Single, Holding
<1>7. Caught'
  BY DEF HubInv, HubTyped, Working, Owned, Caught
<1> QED BY <1>1, <1>2, <1>3, <1>4, <1>5, <1>6, <1>7 DEF HubInv

LEMMA CommitNotifiesKeeps ==
  ASSUME HubInv, CommitNotifies
  PROVE  HubInv'
<1> USE DEF CommitNotifies, connVars, hubVars, subVars, counters
<1>1. HubTyped'
  BY DEF HubInv, HubTyped
<1>2. HubFlags'
  BY DEF HubInv, HubFlags
<1>3. Owned'
  BY DEF HubInv, HubTyped, Owned, Holding
<1>4. Working'
  BY DEF HubInv, HubTyped, Working, Owned
<1>5. Attempted'
  BY DEF HubInv, HubTyped, HubFlags, Attempted
<1>6. Single'
  BY DEF HubInv, HubTyped, Single, Holding
<1>7. Caught'
  BY DEF HubInv, HubTyped, Working, Owned, Caught
<1> QED BY <1>1, <1>2, <1>3, <1>4, <1>5, <1>6, <1>7 DEF HubInv

LEMMA NotificationKeeps ==
  ASSUME HubInv, NEW c \in Clients, Notification(c)
  PROVE  HubInv'
<1> USE DEF Notification, Woken, connVars, hubVars, subVars, counters
<1>1. HubTyped'
  BY DEF HubInv, HubTyped
<1>2. HubFlags'
  BY DEF HubInv, HubFlags
<1>3. Owned'
  BY DEF HubInv, HubTyped, Owned, Holding
<1>4. Working'
  BY DEF HubInv, HubTyped, Working, Owned
<1>5. Attempted'
  BY DEF HubInv, HubTyped, HubFlags, Attempted
<1>6. Single'
  BY DEF HubInv, HubTyped, Single, Holding
<1>7. Caught'
  BY DEF HubInv, HubTyped, Working, Owned, Caught
<1> QED BY <1>1, <1>2, <1>3, <1>4, <1>5, <1>6, <1>7 DEF HubInv

LEMMA SubscribeKeeps ==
  ASSUME HubInv, NEW s \in Subscribers, Subscribe(s)
  PROVE  HubInv'
<1> USE DEF Subscribe, connVars, hubVars, subVars, counters
<1>1. HubTyped'
  BY DEF HubInv, HubTyped
<1>2. HubFlags'
  BY DEF HubInv, HubFlags
<1>3. Owned'
  BY DEF HubInv, HubTyped, Owned, Holding
<1>4. Working'
  BY DEF HubInv, HubTyped, Working, Owned
<1>5. Attempted'
  BY DEF HubInv, HubTyped, HubFlags, Attempted
<1>6. Single'
  BY DEF HubInv, HubTyped, Single, Holding
<1>7. Caught'
  BY DEF HubInv, HubTyped, Working, Owned, Caught
<1> QED BY <1>1, <1>2, <1>3, <1>4, <1>5, <1>6, <1>7 DEF HubInv

LEMMA UnsubscribeKeeps ==
  ASSUME HubInv, NEW s \in Subscribers, Unsubscribe(s)
  PROVE  HubInv'
<1> USE DEF Unsubscribe, connVars, hubVars, subVars, counters
<1>1. HubTyped'
  BY DEF HubInv, HubTyped
<1>2. HubFlags'
  BY DEF HubInv, HubFlags
<1>3. Owned'
  BY DEF HubInv, HubTyped, Owned, Holding
<1>4. Working'
  BY DEF HubInv, HubTyped, Working, Owned
<1>5. Attempted'
  BY DEF HubInv, HubTyped, HubFlags, Attempted
<1>6. Single'
  BY DEF HubInv, HubTyped, Single, Holding
<1>7. Caught'
  BY DEF HubInv, HubTyped, Working, Owned, Caught
<1> QED BY <1>1, <1>2, <1>3, <1>4, <1>5, <1>6, <1>7 DEF HubInv

-----------------------------------------------------------------------------
(* Connections and runs.                                                   *)

(* A run changes alone. *)
LEMMA RunChanges ==
  ASSUME HubTyped, NEW r \in Runs, NEW next \in Attempts, run' = [run EXCEPT ![r] = next]
  PROVE  /\ run' \in [Runs -> Attempts] /\ run'[r] = next
         /\ \A q \in Runs : q # r => run'[q] = run[q]
  BY DEF HubTyped

(* A connection that is out goes back once and works again. *)
LEMMA ReleaseReturns ==
  ASSUME HubTyped, HubFlags, NEW c \in Clients, conn[c] = "out", NEW broken \in BOOLEAN,
         Release(c, broken), \A d \in Clients : conn[d] = "pool" => d \in alive
  PROVE  /\ conn' \in [Clients -> {"pool", "out"}] /\ conn'[c] = "pool"
         /\ \A d \in Clients : d # c => conn'[d] = conn[d]
         /\ misreleased' = FALSE
         /\ alive' = alive \cup {c} /\ registered' \subseteq Clients
         /\ \A d \in Clients : d # c => (d \in registered' <=> d \in registered)
  BY DEF Release, HubTyped, HubFlags

(* The owner of a run's connection is the run. *)
LEMMA HeldApart ==
  ASSUME HubTyped, Owned, NEW r \in Runs, Holding(r)
  PROVE  /\ run[r].client \in Clients /\ conn[run[r].client] = "out"
         /\ run[r].client # client /\ run[r].client # closing /\ run[r].client # NoClient
         /\ \A q \in Runs : q # r => run[q].client # run[r].client
  BY DEF HubTyped, Owned, Attempts

LEMMA IdleTyped == Idle \in Attempts /\ Idle.phase = "idle" /\ Idle.client = NoClient
                   /\ Idle.relisten = FALSE /\ Idle.byTimer = FALSE
  BY DEF Idle, Attempts

(* A call of #listen that begins, while the hub has no listener. *)
LEMMA BeginListenKeeps ==
  ASSUME HubInv, NEW r \in Runs, NEW byTimer \in BOOLEAN, BeginListen(r, byTimer), client = NoClient,
         ~stopped,
         \/ ~byTimer /\ starts' = starts + 1 /\ UNCHANGED timer
         \/ byTimer /\ timer /\ timer' = FALSE /\ UNCHANGED starts,
         UNCHANGED <<connVars, transit, lost, client, stopped, hasListened, closing, serving,
                     subVars>>
  PROVE  HubInv'
<1> USE DEF connVars, subVars
<1> DEFINE next == [Idle EXCEPT !.phase = "connect", !.byTimer = byTimer]
<1>1. run[r].phase = "idle" /\ run' = [run EXCEPT ![r] = next]
  BY DEF BeginListen
<1>2. /\ next \in Attempts /\ next.phase = "connect" /\ next.client = NoClient
      /\ next.byTimer = byTimer
  BY IdleTyped DEF Attempts
<1> HIDE DEF next
<1>3. /\ run' \in [Runs -> Attempts] /\ run'[r] = next
      /\ \A q \in Runs : q # r => run'[q] = run[q]
  BY <1>1, <1>2, RunChanges DEF HubInv
<1>4. run[r].client = NoClient /\ ~Holding(r) /\ ~Holding(r)'
      /\ \A q \in Runs : run'[q].client = run[q].client
      /\ \A p \in Runs : Holding(p)' => p # r /\ Holding(p)
  BY <1>1, <1>2, <1>3 DEF HubInv, Owned, Holding
<1>5. HubTyped'
  BY <1>3 DEF HubInv, HubTyped
<1>6. HubFlags'
  BY DEF HubInv, HubFlags
<1>7. Owned'
  BY <1>3, <1>4 DEF HubInv, Owned, Holding
<1>8. Working'
  BY <1>2, <1>3 DEF HubInv, Working
<1>9. Attempted'
  BY <1>1, <1>2, <1>3 DEF HubInv, Attempted
<1>10. Single'
  BY <1>2, <1>3, <1>4 DEF HubInv, HubTyped, Single, Holding
<1>11. Caught'
  BY DEF HubInv, Caught
<1> QED BY <1>5, <1>6, <1>7, <1>8, <1>9, <1>10, <1>11 DEF HubInv

LEMMA StartKeeps ==
  ASSUME HubInv, Start
  PROVE  HubInv'
<1> USE DEF connVars, subVars
<1>1. /\ ~stopped /\ starts' = starts + 1
      /\ UNCHANGED <<connVars, transit, lost, client, timer, stopped, hasListened, closing,
                     subVars>>
  BY DEF Start
<1>2. CASE MustListen
  <2>1. PICK r \in Runs : BeginListen(r, FALSE)
    BY <1>2 DEF Start
  <2>2. client = NoClient /\ FALSE \in BOOLEAN /\ UNCHANGED serving
    BY <1>2 DEF Start, MustListen
  <2> QED BY <1>1, <2>1, <2>2, BeginListenKeeps
<1>3. CASE ~MustListen
  <2> USE <1>1, <1>3 DEF MustListen
  <2>1. serving' = TRUE /\ UNCHANGED run
    BY DEF Start
  <2>2. HubTyped' /\ HubFlags'
    BY <2>1 DEF HubInv, HubTyped, HubFlags
  <2>3. Owned' /\ Working' /\ Attempted'
    BY <2>1 DEF HubInv, Owned, Working, Attempted, Holding
  <2>4. Single' /\ Caught'
    BY <2>1 DEF HubInv, HubTyped, Single, Caught, Holding
  <2> QED BY <2>2, <2>3, <2>4 DEF HubInv
<1> QED BY <1>2, <1>3

LEMMA ReconnectTimerKeeps ==
  ASSUME HubInv, ReconnectTimer
  PROVE  HubInv'
<1> USE DEF connVars, subVars, counters
<1>1. /\ timer /\ timer' = FALSE
      /\ UNCHANGED <<connVars, transit, lost, client, stopped, hasListened, closing, serving,
                     subVars, counters>>
  BY DEF ReconnectTimer
<1>2. CASE MustListen /\ ~stopped
  <2>1. PICK r \in Runs : BeginListen(r, TRUE)
    BY <1>2 DEF ReconnectTimer
  <2>2. client = NoClient /\ TRUE \in BOOLEAN
    BY <1>2 DEF MustListen
  <2> QED BY <1>1, <1>2, <2>1, <2>2, BeginListenKeeps
<1>3. CASE ~(MustListen /\ ~stopped)
  <2> USE <1>1, <1>3 DEF MustListen
  <2>1. UNCHANGED run
    BY DEF ReconnectTimer
  <2>2. HubTyped' /\ HubFlags'
    BY <2>1 DEF HubInv, HubTyped, HubFlags
  <2>3. Owned' /\ Working' /\ Attempted'
    BY <2>1 DEF HubInv, Owned, Working, Attempted, Holding
  <2>4. Single' /\ Caught'
    BY <2>1 DEF HubInv, HubTyped, Single, Caught, Holding
  <2> QED BY <2>2, <2>3, <2>4 DEF HubInv
<1> QED BY <1>2, <1>3

LEMMA ConnectKeeps ==
  ASSUME HubInv, NEW r \in Runs, NEW c \in Clients, Connect(r, c)
  PROVE  HubInv'
<1> USE DEF Connect, hubVars, subVars, counters
<1> DEFINE next == [run[r] EXCEPT !.phase = "listen", !.client = c, !.relisten = hasListened]
<1>1. run[r] \in Attempts /\ run \in [Runs -> Attempts] /\ hasListened \in BOOLEAN
  BY DEF HubInv, HubTyped, HubFlags
<1>2. /\ next \in Attempts /\ next.phase = "listen" /\ next.client = c
      /\ next.relisten = hasListened /\ next.byTimer = run[r].byTimer
  BY <1>1 DEF Attempts
<1>3. run' = [run EXCEPT ![r] = next]
  BY <1>1
<1> HIDE DEF next
<1>4. /\ run' \in [Runs -> Attempts] /\ run'[r] = next
      /\ \A q \in Runs : q # r => run'[q] = run[q]
  BY <1>2, <1>3, RunChanges DEF HubInv
<1>5. /\ conn' \in [Clients -> {"pool", "out"}] /\ conn'[c] = "out" /\ conn[c] = "pool"
      /\ \A d \in Clients : d # c => conn'[d] = conn[d]
  BY DEF HubInv, HubTyped
<1>6. /\ c # client /\ c # closing /\ c # NoClient /\ \A q \in Runs : run[q].client # c
      /\ run[r].client = NoClient /\ ~Holding(r) /\ Holding(r)'
  BY <1>2, <1>4, <1>5 DEF HubInv, Owned, Holding
<1>7. HubTyped'
  BY <1>4, <1>5 DEF HubInv, HubTyped
<1>8. HubFlags' /\ Attempted' /\ Caught'
  BY <1>2, <1>4 DEF HubInv, HubFlags, Attempted, Caught
<1>9. Owned'
  BY <1>2, <1>4, <1>5, <1>6 DEF HubInv, Owned, Holding
<1>10. Working'
  BY <1>2, <1>4, <1>5, <1>6 DEF HubInv, Working, HubTyped, Holding, Owned
<1>11. Single'
  BY <1>2, <1>4 DEF HubInv, Single, Holding
<1> QED BY <1>7, <1>8, <1>9, <1>10, <1>11 DEF HubInv

(* The LISTEN of a run takes effect, or is refused. *)
LEMMA AnswerKeeps ==
  ASSUME HubInv, NEW r \in Runs, ListenTakesEffect(r) \/ ListenFails(r)
  PROVE  HubInv'
<1> USE DEF ListenTakesEffect, ListenFails, connVars, hubVars, subVars, counters
<1> DEFINE phase == IF ListenTakesEffect(r) THEN "settled" ELSE "failed"
           next == [run[r] EXCEPT !.phase = phase]
<1>1. run[r] \in Attempts /\ run \in [Runs -> Attempts] /\ run[r].phase = "listen"
  BY DEF HubInv, HubTyped
<1>2. /\ next \in Attempts /\ next.phase = phase /\ next.client = run[r].client
      /\ next.relisten = run[r].relisten /\ next.byTimer = run[r].byTimer
      /\ phase \in {"settled", "failed"}
  BY <1>1 DEF Attempts
<1>3. run' = [run EXCEPT ![r] = next]
  BY <1>1
<1>0. /\ phase = "settled" => registered' = registered \cup {run[r].client}
      /\ registered' \in {registered, registered \cup {run[r].client}}
      /\ UNCHANGED <<conn, alive, misreleased, transit, lost, hubVars, subVars, starts>>
  OBVIOUS
<1> HIDE DEF next, phase, ListenTakesEffect, ListenFails
<1>4. /\ run' \in [Runs -> Attempts] /\ run'[r] = next
      /\ \A q \in Runs : q # r => run'[q] = run[q]
  BY <1>2, <1>3, RunChanges DEF HubInv
<1>5. /\ Holding(r) /\ Holding(r)' /\ run[r].client \in Clients
      /\ \A q \in Runs : run'[q].client = run[q].client /\ (Holding(q)' <=> Holding(q))
                         /\ run'[q].byTimer = run[q].byTimer
                         /\ run'[q].relisten = run[q].relisten
                         /\ (run'[q].phase = "idle" <=> run[q].phase = "idle")
  BY <1>1, <1>2, <1>4 DEF HubInv, Owned, Holding
<1>6. HubTyped'
  BY <1>0, <1>4, <1>5 DEF HubInv, HubTyped
<1>7. HubFlags' /\ Attempted' /\ Caught'
  BY <1>0, <1>5 DEF HubInv, HubFlags, Attempted, Caught
<1>8. Owned'
  BY <1>0, <1>5 DEF HubInv, Owned
<1>9. Working'
  BY <1>0, <1>1, <1>2, <1>4 DEF HubInv, Working
<1>10. Single'
  BY <1>0, <1>5 DEF HubInv, Single
<1> QED BY <1>6, <1>7, <1>8, <1>9, <1>10 DEF HubInv

(* A run that ends without a connection, or with one that it gives back. *)
LEMMA ConnectFailsKeeps ==
  ASSUME HubInv, NEW r \in Runs, ConnectFails(r)
  PROVE  HubInv'
<1> USE DEF connVars, subVars
<1>1. /\ run[r].phase = "connect" /\ run' = [run EXCEPT ![r] = Idle] /\ Rejected(r)
      /\ UNCHANGED <<connVars, transit, lost, client, stopped, hasListened, closing, subVars,
                     starts>>
  BY DEF ConnectFails, Finish
<1>2. /\ run' \in [Runs -> Attempts] /\ run'[r] = Idle
      /\ \A q \in Runs : q # r => run'[q] = run[q]
  BY <1>1, IdleTyped, RunChanges DEF HubInv
<1>3. /\ UNCHANGED serving
      /\ timer' \in BOOLEAN /\ (timer => timer')
      /\ timer' => timer \/ (~stopped /\ client = NoClient)
      /\ run[r].byTimer /\ ~stopped /\ client = NoClient => timer'
  <2>1. /\ UNCHANGED serving
        /\ timer' = IF run[r].byTimer THEN (timer \/ (~stopped /\ client = NoClient)) ELSE timer
    BY <1>1 DEF Rejected, ScheduleReconnect
  <2>2. timer \in BOOLEAN
    BY DEF HubInv, HubFlags
  <2>3. CASE run[r].byTimer
    BY <2>1, <2>2, <2>3
  <2>4. CASE ~run[r].byTimer
    BY <2>1, <2>2, <2>4
  <2> QED BY <2>3, <2>4
<1>4. /\ \A q \in Runs : run'[q].client = run[q].client /\ (Holding(q)' <=> Holding(q))
      /\ \A q \in Runs : Holding(q) => q # r
  BY <1>1, <1>2, IdleTyped DEF HubInv, Owned, Holding
<1>5. HubTyped'
  BY <1>1, <1>2 DEF HubInv, HubTyped
<1>6. HubFlags' /\ Caught'
  BY <1>1, <1>3 DEF HubInv, HubFlags, Caught
<1>7. Owned'
  BY <1>1, <1>4 DEF HubInv, Owned
<1>8. Working'
  BY <1>1, <1>2, <1>4, IdleTyped DEF HubInv, Working, Holding
<1>9. Attempted'
  BY <1>1, <1>2, <1>3 DEF HubInv, Attempted
<1>10. Single'
  BY <1>1, <1>2, <1>3, <1>4, IdleTyped DEF HubInv, Single
<1> QED BY <1>5, <1>6, <1>7, <1>8, <1>9, <1>10 DEF HubInv

(* A run ends and gives back the connection it holds. *)
LEMMA GivenBackKeeps ==
  ASSUME HubInv, NEW r \in Runs, Holding(r), NEW broken \in BOOLEAN,
         Release(run[r].client, broken), Finish(r), lost' = lost \ {run[r].client},
         timer' \in BOOLEAN, timer => timer',
         timer' => timer \/ (~stopped /\ client = NoClient),
         serving' \in BOOLEAN, serving' => serving \/ ~stopped,
         serving' /\ client = NoClient => timer' \/ (serving /\ ~run[r].byTimer),
         UNCHANGED <<transit, client, stopped, hasListened, closing, subVars, counters>>
  PROVE  HubInv'
<1> USE DEF subVars, counters
<1> DEFINE c == run[r].client
<1>1. run' = [run EXCEPT ![r] = Idle] /\ Release(c, broken) /\ lost' = lost \ {c}
  BY DEF Finish
<1>2. /\ run' \in [Runs -> Attempts] /\ run'[r] = Idle
      /\ \A q \in Runs : q # r => run'[q] = run[q]
  BY <1>1, IdleTyped, RunChanges DEF HubInv
<1>4. /\ c \in Clients /\ conn[c] = "out" /\ c # client /\ c # closing
      /\ c # NoClient /\ \A q \in Runs : q # r => run[q].client # c
  BY HeldApart DEF HubInv
<1> HIDE DEF c
<1>5. /\ conn' \in [Clients -> {"pool", "out"}] /\ conn'[c] = "pool"
      /\ \A d \in Clients : d # c => conn'[d] = conn[d]
      /\ misreleased' = FALSE
      /\ alive' = alive \cup {c} /\ registered' \subseteq Clients
      /\ \A d \in Clients : d # c => (d \in registered' <=> d \in registered)
  <2>1. /\ HubTyped /\ HubFlags
        /\ \A d \in Clients : conn[d] = "pool" => d \in alive
    BY DEF HubInv, Working
  <2> QED BY <1>1, <1>4, <2>1, ReleaseReturns
<1>6. HubTyped'
  BY <1>1, <1>2, <1>4, <1>5 DEF HubInv, HubTyped
<1>7. HubFlags' /\ Caught'
  BY <1>1, <1>5 DEF HubInv, HubFlags, Caught
<1>8. Owned'
  BY <1>1, <1>2, <1>4, <1>5, IdleTyped DEF HubInv, Owned, Holding, c
<1>9. Working'
  BY <1>1, <1>2, <1>4, <1>5, IdleTyped DEF HubInv, HubTyped, Working, Owned, Holding
<1>10. Attempted'
  BY <1>1, <1>2 DEF HubInv, Attempted
<1>11. Single'
  BY <1>1, <1>2, IdleTyped DEF HubInv, Single, Holding
<1> QED BY <1>6, <1>7, <1>8, <1>9, <1>10, <1>11 DEF HubInv

LEMMA ListenRejectedKeeps ==
  ASSUME HubInv, NEW r \in Runs, ListenRejected(r)
  PROVE  HubInv'
<1>1. /\ Holding(r) /\ Release(run[r].client, TRUE) /\ Finish(r)
      /\ lost' = lost \ {run[r].client} /\ Rejected(r)
      /\ UNCHANGED <<transit, client, stopped, hasListened, closing, subVars, counters>>
  BY DEF ListenRejected, Holding
<1>2. timer \in BOOLEAN /\ serving \in BOOLEAN /\ (serving => ~stopped)
  BY DEF HubInv, HubFlags, Attempted
<1>3. /\ UNCHANGED serving
      /\ timer' = IF run[r].byTimer THEN (timer \/ (~stopped /\ client = NoClient)) ELSE timer
  BY <1>1 DEF Rejected, ScheduleReconnect
<1>4. /\ timer' \in BOOLEAN /\ (timer => timer')
      /\ timer' => timer \/ (~stopped /\ client = NoClient)
      /\ serving' \in BOOLEAN /\ (serving' => serving \/ ~stopped)
      /\ serving' /\ client = NoClient => timer' \/ (serving /\ ~run[r].byTimer)
  <2>1. CASE run[r].byTimer
    BY <1>2, <1>3, <2>1
  <2>2. CASE ~run[r].byTimer
    BY <1>2, <1>3, <2>2
  <2> QED BY <2>1, <2>2
<1>5. TRUE \in BOOLEAN
  OBVIOUS
<1> QED BY <1>1, <1>4, <1>5, GivenBackKeeps

(* The new listener. *)
LEMMA AdoptKeeps ==
  ASSUME HubInv, NEW r \in Runs, ListenResolved(r), Adopt(r)
  PROVE  HubInv'
<1> USE DEF connVars
<1> DEFINE c == run[r].client
<1>1. /\ run[r].phase = "settled" /\ run' = [run EXCEPT ![r] = Idle] /\ lost' = lost \ {c}
      /\ c \notin lost /\ ~stopped /\ client = NoClient /\ client' = c /\ hasListened' = TRUE
      /\ missed' = IF run[r].relisten THEN Woken ELSE missed
      /\ serving' = (serving \/ (~run[r].byTimer /\ ~stopped))
      /\ UNCHANGED <<connVars, timer, transit, stopped, closing, listeners, counters>>
  BY DEF ListenResolved, Finish, Resolved, Adopt
<1>2. /\ run' \in [Runs -> Attempts] /\ run'[r] = Idle
      /\ \A q \in Runs : q # r => run'[q] = run[q]
  BY <1>1, IdleTyped, RunChanges DEF HubInv
<1>3. Holding(r)
  BY <1>1 DEF Holding
<1>4. /\ c \in Clients /\ conn[c] = "out" /\ c # client /\ c # closing
      /\ c # NoClient /\ \A q \in Runs : q # r => run[q].client # c
  BY <1>3, HeldApart DEF HubInv
<1>5. c \in alive \cap registered
  BY <1>1 DEF HubInv, Working
<1> HIDE DEF c
<1>6. missed' \in [Subscribers -> {"none", "early", "late"}]
  BY <1>1 DEF HubInv, HubTyped, Woken
<1>7. HubTyped'
  BY <1>1, <1>2, <1>4, <1>6 DEF HubInv, HubTyped, counters
<1>8. HubFlags'
  <2>1. serving' \in BOOLEAN
    BY <1>1
  <2> QED BY <1>1, <2>1 DEF HubInv, HubFlags
<1>9. Owned'
  BY <1>1, <1>2, <1>4, IdleTyped DEF HubInv, Owned, Holding, c
<1>10. Working'
  BY <1>1, <1>2, <1>4, <1>5, IdleTyped DEF HubInv, Working, Owned, Holding
<1>11. Attempted'
  BY <1>1, <1>4 DEF HubInv, Attempted
<1>12. Single'
  <2>1. counters' = counters /\ starts' = starts
    BY <1>1 DEF counters
  <2>2. run[r].phase # "idle"
    BY <1>1
  <2>3. starts = 1 => ~timer
    BY <1>1, <2>2 DEF HubInv, Single
  <2>4. starts = 1 => \A q \in Runs : run'[q].phase = "idle"
    BY <1>2, <2>2, IdleTyped DEF HubInv, Single
  <2>5. starts # 0
    BY <2>2 DEF HubInv, Single
  <2> QED BY <1>1, <2>1, <2>3, <2>4, <2>5 DEF Single, Holding
<1>13. Caught'
  <2>1. starts = 1 => run[r].relisten = hasListened
    BY <1>3 DEF HubInv, Single
  <2>2. CASE run[r].relisten
    BY <1>1, <1>4, <2>2 DEF HubInv, HubTyped, Caught, Woken
  <2>3. CASE ~run[r].relisten
    <3>1. starts = 1 => \A s \in listeners : missed[s] # "late"
      BY <2>1, <2>3 DEF HubInv, HubTyped, Caught
    <3> QED BY <1>1, <2>3, <3>1 DEF Caught, counters
  <2> QED BY <2>2, <2>3
<1> QED BY <1>7, <1>8, <1>9, <1>10, <1>11, <1>12, <1>13 DEF HubInv

LEMMA ListenResolvedKeeps ==
  ASSUME HubInv, NEW r \in Runs, ListenResolved(r)
  PROVE  HubInv'
<1>1. /\ AbandonLost(r) \/ AbandonStopped(r) \/ AbandonSpare(r) \/ Adopt(r)
      /\ Holding(r) /\ Finish(r) /\ lost' = lost \ {run[r].client}
      /\ serving' = (serving \/ (~run[r].byTimer /\ ~stopped))
      /\ UNCHANGED <<transit, stopped, closing, listeners, counters>>
  BY DEF ListenResolved, Holding, Resolved
<1>2. timer \in BOOLEAN /\ serving \in BOOLEAN /\ (serving => ~stopped)
  BY DEF HubInv, HubFlags, Attempted
<1>3. serving' \in BOOLEAN /\ (serving' => serving \/ ~stopped)
  BY <1>1, <1>2
<1>4. TRUE \in BOOLEAN /\ FALSE \in BOOLEAN
  OBVIOUS
<1>5. CASE AbandonLost(r)
  <2>1. /\ Release(run[r].client, TRUE) /\ timer' = (timer \/ (~stopped /\ client = NoClient))
        /\ UNCHANGED <<transit, client, stopped, hasListened, closing, subVars, counters>>
    BY <1>1, <1>5 DEF AbandonLost, ScheduleReconnect, subVars
  <2>2. /\ timer' \in BOOLEAN /\ (timer => timer')
        /\ timer' => timer \/ (~stopped /\ client = NoClient)
        /\ serving' /\ client = NoClient => timer' \/ (serving /\ ~run[r].byTimer)
    BY <1>2, <1>3, <2>1
  <2> QED BY <1>1, <1>3, <1>4, <2>1, <2>2, GivenBackKeeps
<1>6. CASE AbandonStopped(r)
  <2>1. /\ Release(run[r].client, FALSE) /\ UNCHANGED timer /\ stopped
        /\ UNCHANGED <<transit, client, stopped, hasListened, closing, subVars, counters>>
    BY <1>1, <1>6 DEF AbandonStopped, subVars
  <2>2. /\ timer' \in BOOLEAN /\ (timer => timer')
        /\ timer' => timer \/ (~stopped /\ client = NoClient)
        /\ serving' /\ client = NoClient => timer' \/ (serving /\ ~run[r].byTimer)
    BY <1>2, <1>3, <2>1
  <2> QED BY <1>1, <1>3, <1>4, <2>1, <2>2, GivenBackKeeps
<1>7. CASE AbandonSpare(r)
  <2>1. /\ Release(run[r].client, TRUE) /\ UNCHANGED timer /\ client # NoClient
        /\ UNCHANGED <<transit, client, stopped, hasListened, closing, subVars, counters>>
    BY <1>1, <1>7 DEF AbandonSpare, subVars
  <2>2. /\ timer' \in BOOLEAN /\ (timer => timer')
        /\ timer' => timer \/ (~stopped /\ client = NoClient)
        /\ serving' /\ client = NoClient => timer' \/ (serving /\ ~run[r].byTimer)
    BY <1>2, <2>1
  <2> QED BY <1>1, <1>3, <1>4, <2>1, <2>2, GivenBackKeeps
<1>8. CASE Adopt(r)
  BY <1>8, AdoptKeeps
<1> QED BY <1>1, <1>5, <1>6, <1>7, <1>8

-----------------------------------------------------------------------------
(* Losses.                                                                 *)

(* The listener dies: its timer brings the next. *)
LEMMA ListenerLostKeeps ==
  ASSUME HubInv, NEW c \in Clients, ClientLoss(c), c = client
  PROVE  HubInv'
<1> USE DEF subVars
<1>1. /\ conn[c] = "out" /\ transit' = transit \ {c} /\ client' = NoClient
      /\ Release(c, TRUE) /\ timer' = (timer \/ ~stopped)
      /\ UNCHANGED <<run, lost, stopped, hasListened, closing, serving, subVars, starts>>
  BY DEF ClientLoss, ScheduleReconnect
<1>2. client # NoClient /\ client # closing /\ ~stopped /\ \A r \in Runs : run[r].client # c
  BY <1>1 DEF HubInv, Owned, Working, HubTyped
<1>3. timer' = TRUE
  BY <1>1, <1>2
<1>5. /\ conn' \in [Clients -> {"pool", "out"}] /\ conn'[c] = "pool"
      /\ \A d \in Clients : d # c => conn'[d] = conn[d]
      /\ misreleased' = FALSE
      /\ alive' = alive \cup {c} /\ registered' \subseteq Clients
      /\ \A d \in Clients : d # c => (d \in registered' <=> d \in registered)
  <2>1. /\ HubTyped /\ HubFlags /\ TRUE \in BOOLEAN
        /\ \A d \in Clients : conn[d] = "pool" => d \in alive
    BY DEF HubInv, Working
  <2> QED BY <1>1, <2>1, ReleaseReturns
<1>6. HubTyped'
  BY <1>1, <1>5 DEF HubInv, HubTyped
<1>7. HubFlags' /\ Caught'
  BY <1>1, <1>3, <1>5 DEF HubInv, HubFlags, Caught
<1>8. Owned'
  BY <1>1, <1>2, <1>5 DEF HubInv, Owned, Holding
<1>9. Working'
  BY <1>1, <1>2, <1>5 DEF HubInv, HubTyped, Working, Owned, Holding
<1>10. Attempted'
  BY <1>1, <1>3 DEF HubInv, Attempted
<1>11. Single'
  BY <1>1, <1>2, <1>3 DEF HubInv, Single, Holding
<1> QED BY <1>6, <1>7, <1>8, <1>9, <1>10, <1>11 DEF HubInv

(* Any other connection dies. *)
LEMMA OtherLostKeeps ==
  ASSUME HubInv, NEW c \in Clients, ClientLoss(c), c # client
  PROVE  HubInv'
<1> USE DEF subVars
<1>1. /\ conn[c] = "out" /\ transit' = transit \ {c}
      /\ alive' = alive \ {c} /\ registered' = registered \ {c}
      /\ lost' = IF PendingRun(c) # {} THEN lost \cup {c} ELSE lost
      /\ run' = [r \in Runs |->
                   IF r \in PendingRun(c) /\ run[r].phase = "listen"
                   THEN [run[r] EXCEPT !.phase = "failed"] ELSE run[r]]
      /\ UNCHANGED <<conn, misreleased, client, timer, stopped, hasListened, closing, serving,
                     subVars, starts>>
  BY DEF ClientLoss
<1>2. /\ run' \in [Runs -> Attempts]
      /\ \A r \in Runs :
           /\ run'[r].client = run[r].client /\ run'[r].byTimer = run[r].byTimer
           /\ run'[r].relisten = run[r].relisten
           /\ run'[r].phase =
                IF run[r].client = c /\ run[r].phase = "listen" THEN "failed" ELSE run[r].phase
  <2>0. \A r \in Runs : run[r] \in Attempts
    BY DEF HubInv, HubTyped
  <2>1. \A r \in Runs : r \in PendingRun(c) <=>
                          run[r].client = c /\ run[r].phase \in {"listen", "settled"}
    BY DEF PendingRun
  <2> QED BY <1>1, <2>0, <2>1 DEF Attempts
<1>3. \A r \in Runs : Holding(r)' <=> Holding(r)
  BY <1>2 DEF Holding
<1>4. \A r \in Runs : run'[r].phase = "idle" <=> run[r].phase = "idle"
  BY <1>2
<1>5. HubTyped'
  BY <1>1, <1>2 DEF HubInv, HubTyped
<1>6. HubFlags' /\ Caught'
  BY <1>1 DEF HubInv, HubFlags, Caught
<1>7. Owned'
  BY <1>1, <1>2, <1>3 DEF HubInv, Owned
<1>8. Working'
  <2>1. \A r \in Runs : run[r].client = c /\ run[r].phase = "settled" => c \in lost'
    BY <1>1 DEF PendingRun
  <2> QED BY <1>1, <1>2, <2>1 DEF HubInv, Working
<1>9. Attempted'
  BY <1>1, <1>2, <1>4 DEF HubInv, Attempted
<1>10. Single'
  BY <1>1, <1>2, <1>3, <1>4 DEF HubInv, Single
<1> QED BY <1>5, <1>6, <1>7, <1>8, <1>9, <1>10 DEF HubInv

-----------------------------------------------------------------------------
LEMMA UnchangedKeeps ==
  ASSUME HubInv, UNCHANGED hubState
  PROVE  HubInv'
<1> USE DEF hubState, connVars, hubVars, subVars, counters
<1>1. HubTyped' /\ HubFlags'
  BY DEF HubInv, HubTyped, HubFlags
<1>2. Owned' /\ Working' /\ Attempted'
  BY DEF HubInv, Owned, Working, Attempted, Holding
<1>3. Single' /\ Caught'
  BY DEF HubInv, Single, Caught, Holding
<1> QED BY <1>1, <1>2, <1>3 DEF HubInv

LEMMA HubNextKeeps ==
  ASSUME HubInv, [HubNext]_hubState
  PROVE  HubInv'
<1>1. CASE Start \/ ReconnectTimer \/ Close \/ CloseReleases \/ CommitNotifies
  BY <1>1, StartKeeps, ReconnectTimerKeeps, CloseKeeps, CloseReleasesKeeps, CommitNotifiesKeeps
<1>2. ASSUME NEW r \in Runs, ListenSteps(r) \/ ConnectFails(r) \/ ListenFails(r)
      PROVE  HubInv'
  <2>1. CASE \E c \in Clients : Connect(r, c)
    BY <2>1, ConnectKeeps
  <2>2. CASE ListenTakesEffect(r) \/ ListenFails(r)
    BY <2>2, AnswerKeeps
  <2>3. CASE ListenRejected(r)
    BY <2>3, ListenRejectedKeeps
  <2>4. CASE ListenResolved(r)
    BY <2>4, ListenResolvedKeeps
  <2>5. CASE ConnectFails(r)
    BY <2>5, ConnectFailsKeeps
  <2> QED BY <1>2, <2>1, <2>2, <2>3, <2>4, <2>5 DEF ListenSteps
<1>3. ASSUME NEW c \in Clients, ClientLoss(c) \/ Notification(c)
      PROVE  HubInv'
  BY <1>3, ListenerLostKeeps, OtherLostKeeps, NotificationKeeps
<1>4. ASSUME NEW s \in Subscribers, Subscribe(s) \/ Unsubscribe(s)
      PROVE  HubInv'
  BY <1>4, SubscribeKeeps, UnsubscribeKeeps
<1>5. CASE UNCHANGED hubState
  BY <1>5, UnchangedKeeps
<1> QED BY <1>1, <1>2, <1>3, <1>4, <1>5 DEF HubNext

LEMMA InvariantImplies == HubInv => HubHolds
<1> SUFFICES ASSUME HubInv PROVE HubHolds
  OBVIOUS
<1>1. HubTypeOK
  <2>1. {timer, stopped, hasListened, serving, misreleased} \subseteq BOOLEAN
    <3>1. /\ timer \in BOOLEAN /\ stopped \in BOOLEAN /\ hasListened \in BOOLEAN
          /\ serving \in BOOLEAN /\ misreleased \in BOOLEAN
      BY DEF HubInv, HubFlags
    <3> QED BY <3>1, Zenon
  <2> QED BY <2>1 DEF HubInv, HubTyped, HubTypeOK, Attempts
<1>2. AdoptedIsLive
  BY DEF HubInv, HubTyped, Working, Owned, AdoptedIsLive
<1>3. ReleasedOnce
  <2>1. ~misreleased
    BY DEF HubInv, HubFlags
  <2> QED BY <2>1 DEF HubInv, Owned, ReleasedOnce
<1>4. NeverAbandoned
  BY DEF HubInv, Attempted, NeverAbandoned
<1>5. OutageCaughtUp
  BY DEF HubInv, Caught, OutageCaughtUp, UpToDate
<1> QED BY <1>1, <1>2, <1>3, <1>4, <1>5 DEF HubHolds

THEOREM HubInductive == HubSpec => []HubInv
<1>1. HubInit => HubInv
  BY HubInitInv
<1>2. HubInv /\ [HubNext]_hubState => HubInv'
  BY HubNextKeeps
<1> QED BY <1>1, <1>2, PTL DEF HubSpec

(* The hub believes in a listener only while that connection works and has  *)
(* its LISTEN registered; every connection it takes from the pool goes back *)
(* once; serving without a listener it always owes itself another attempt; *)
(* and, started once as main does, a listener with no NOTIFY on its way     *)
(* leaves no socket behind a commit made since it first listened (#listen, *)
(* #handleClientLoss, #scheduleReconnect, #release, close of hub.ts).      *)
THEOREM HubHoldsAlways == HubSpec => []HubHolds
<1>1. HubInv => HubHolds
  BY InvariantImplies
<1> QED BY HubInductive, <1>1, PTL

-----------------------------------------------------------------------------
(* One socket.                                                             *)

Checks == {"initial", "heartbeat", "page"}
Pages == [phase: {"none", "loading", "loaded", "expired", "error"},
          auth: {"ok", "pending", "refused"}, own: BOOLEAN, late: BOOLEAN,
          upTo: 0..MaxSequence, more: BOOLEAN]

Flags ==
  /\ agent \in BOOLEAN /\ open \in BOOLEAN /\ closed \in BOOLEAN /\ connectedSent \in BOOLEAN
  /\ resyncSent \in BOOLEAN /\ leaked \in BOOLEAN /\ flushing \in BOOLEAN
  /\ flushAgain \in BOOLEAN /\ initialRevalidationComplete \in BOOLEAN
  /\ agentAuthorizationReadyForPage \in BOOLEAN /\ pongReceived \in BOOLEAN
  /\ wake \in BOOLEAN /\ revoked \in BOOLEAN

Typed ==
  /\ start \in Position /\ cursor \in Position /\ openedAt \in 0..MaxSequence
  /\ head \in 0..MaxSequence /\ sent \subseteq 1..MaxSequence
  /\ page \in Pages /\ checks \in Seq(Checks)
  /\ verdict \in {"none", "gone", "valid", "invalid", "error"}
  /\ errors \in 0..MaxErrors

(* A call of flush is running exactly while it awaits a page. *)
Running ==
  /\ flushing <=> page.phase # "none"
  /\ page.phase = "none" => page = NoPage
  /\ ~initialRevalidationComplete => page = NoPage
  /\ closed => ~open

(* How far the log is read: nothing is sent twice and nothing is skipped. *)
Replayed ==
  /\ start.sequence <= cursor.sequence /\ openedAt <= head
  /\ sent = Visible(start.sequence, cursor.sequence) /\ disordered = FALSE
  /\ page.phase = "loaded" => cursor.sequence <= page.upTo

(* What the running call has not read yet, it will be told of. *)
Notified ==
  /\ page.phase = "loaded" /\ ~page.more =>
       /\ page.upTo >= openedAt
       /\ page.upTo = head \/ wake \/ flushAgain
  /\ open /\ initialRevalidationComplete /\ ~flushing /\ ~wake => cursor.sequence = head
  /\ connectedSent => cursor.sequence >= openedAt

(* The queue of checks: the first of the connection at its front, and that  *)
(* of a page once, while the page awaits it.                               *)
Queued ==
  /\ verdict # "none" => checks # <<>>
  /\ \A k \in DOMAIN checks :
       /\ checks[k] = "initial" => k = 1 /\ ~initialRevalidationComplete
       /\ checks[k] = "page" =>
            page.auth = "pending" /\ \A l \in DOMAIN checks : checks[l] = "page" => l = k

(* What a check has read, and what its page knows of it. *)
Fresh ==
  /\ verdict = "gone" => ~open
  /\ page.auth = "refused" => ~open
  /\ page.own => agent
  /\ page.auth # "ok" => page.own
  /\ page.late => revoked
  /\ verdict = "valid" /\ checks # <<>> /\ Head(checks) = "page" => ~page.late
  /\ page.own /\ page.late => page.auth # "ok"
  /\ ~leaked

IInv == Typed /\ Flags /\ Running /\ Replayed /\ Notified /\ Queued /\ Fresh

-----------------------------------------------------------------------------
USE SocketAssumption

LEMMA InitIInv == Init => IInv
<1> SUFFICES ASSUME Init PROVE IInv
  OBVIOUS
<1> USE DEF Init, NoPage
<1>1. Typed
  BY DEF Typed, Pages, Position, Checks
<1>2. Flags
  BY DEF Flags
<1>3. Running /\ Replayed /\ Notified
  BY DEF Running, Replayed, Notified, Visible
<1>4. Queued /\ Fresh
  BY DEF Queued, Fresh
<1> QED BY <1>1, <1>2, <1>3, <1>4 DEF IInv

-----------------------------------------------------------------------------
(* The peer, the log and the credential.                                   *)

LEMMA PeerClosesKeeps ==
  ASSUME IInv, PeerCloses
  PROVE  IInv'
<1> USE DEF PeerCloses, SocketUnchanged, logVars, positionVars, outVars, flushVars, checkVars, envVars
<1>1. Typed'
  BY DEF IInv, Typed
<1>2. Flags'
  BY ZenonT(40) DEF IInv, Flags
<1>3. Running'
  BY DEF IInv, Running
<1>4. Replayed'
  BY DEF IInv, Typed, Replayed
<1>5. Notified'
  BY DEF IInv, Typed, Running, Replayed, Notified, Position
<1>6. Queued'
  BY DEF IInv, Running, Queued
<1>7. Fresh'
  BY DEF IInv, Running, Queued, Fresh
<1> QED BY <1>1, <1>2, <1>3, <1>4, <1>5, <1>6, <1>7 DEF IInv

LEMMA TeardownKeeps ==
  ASSUME IInv, Teardown
  PROVE  IInv'
<1> USE DEF Teardown, SocketUnchanged, logVars, positionVars, outVars, flushVars, checkVars, envVars
<1>1. Typed'
  BY DEF IInv, Typed
<1>2. Flags'
  BY DEF IInv, Flags
<1>3. Running'
  BY DEF IInv, Running
<1>4. Replayed'
  BY DEF IInv, Typed, Replayed
<1>5. Notified'
  BY DEF IInv, Typed, Running, Replayed, Notified, Position
<1>6. Queued'
  BY DEF IInv, Running, Queued
<1>7. Fresh'
  BY DEF IInv, Running, Queued, Fresh
<1> QED BY <1>1, <1>2, <1>3, <1>4, <1>5, <1>6, <1>7 DEF IInv

LEMMA CommitEventKeeps ==
  ASSUME IInv, CommitEvent
  PROVE  IInv'
<1> USE DEF CommitEvent, Extend, SocketUnchanged, logVars, positionVars, outVars, flushVars, checkVars, envVars
<1>1. Typed'
  BY DEF IInv, Typed
<1>2. Flags'
  BY DEF IInv, Flags
<1>3. Running'
  BY DEF IInv, Running
<1>4. Replayed'
  BY DEF IInv, Typed, Replayed
<1>5. Notified'
  BY DEF IInv, Typed, Running, Replayed, Notified, Position
<1>6. Queued'
  BY DEF IInv, Running, Queued
<1>7. Fresh'
  BY DEF IInv, Running, Queued, Fresh
<1> QED BY <1>1, <1>2, <1>3, <1>4, <1>5, <1>6, <1>7 DEF IInv

LEMMA DeleteExpiredStateKeeps ==
  ASSUME IInv, DeleteExpiredState
  PROVE  IInv'
<1> USE DEF DeleteExpiredState, Trim, SocketUnchanged, logVars, positionVars, outVars, flushVars, checkVars, envVars
<1>1. Typed'
  BY DEF IInv, Typed
<1>2. Flags'
  BY DEF IInv, Flags
<1>3. Running'
  BY DEF IInv, Running
<1>4. Replayed'
  BY DEF IInv, Typed, Replayed
<1>5. Notified'
  BY DEF IInv, Typed, Running, Replayed, Notified, Position
<1>6. Queued'
  BY DEF IInv, Running, Queued
<1>7. Fresh'
  BY DEF IInv, Running, Queued, Fresh
<1> QED BY <1>1, <1>2, <1>3, <1>4, <1>5, <1>6, <1>7 DEF IInv

LEMMA EstablishEpochKeeps ==
  ASSUME IInv, EstablishEpoch
  PROVE  IInv'
<1> USE DEF EstablishEpoch, Cutover, SocketUnchanged, logVars, positionVars, outVars, flushVars, checkVars, envVars
<1>1. Typed'
  BY DEF IInv, Typed
<1>2. Flags'
  BY DEF IInv, Flags
<1>3. Running'
  BY DEF IInv, Running
<1>4. Replayed'
  BY DEF IInv, Typed, Replayed
<1>5. Notified'
  BY DEF IInv, Typed, Running, Replayed, Notified, Position
<1>6. Queued'
  BY DEF IInv, Running, Queued
<1>7. Fresh'
  BY DEF IInv, Running, Queued, Fresh
<1> QED BY <1>1, <1>2, <1>3, <1>4, <1>5, <1>6, <1>7 DEF IInv

LEMMA RevokeKeeps ==
  ASSUME IInv, Revoke
  PROVE  IInv'
<1> USE DEF Revoke, SocketUnchanged, logVars, positionVars, outVars, flushVars, checkVars, envVars
<1>1. Typed'
  BY DEF IInv, Typed
<1>2. Flags'
  BY DEF IInv, Flags
<1>3. Running'
  BY DEF IInv, Running
<1>4. Replayed'
  BY DEF IInv, Typed, Replayed
<1>5. Notified'
  BY DEF IInv, Typed, Running, Replayed, Notified, Position
<1>6. Queued'
  BY DEF IInv, Running, Queued
<1>7. Fresh'
  BY DEF IInv, Running, Queued, Fresh
<1> QED BY <1>1, <1>2, <1>3, <1>4, <1>5, <1>6, <1>7 DEF IInv

LEMMA PongKeeps ==
  ASSUME IInv, Pong
  PROVE  IInv'
<1> USE DEF Pong, logVars, positionVars, outVars, flushVars, checkVars, envVars
<1>1. Typed'
  BY DEF IInv, Typed
<1>2. Flags'
  BY DEF IInv, Flags
<1>3. Running'
  BY DEF IInv, Running
<1>4. Replayed'
  BY DEF IInv, Typed, Replayed
<1>5. Notified'
  BY DEF IInv, Typed, Running, Replayed, Notified, Position
<1>6. Queued'
  BY DEF IInv, Running, Queued
<1>7. Fresh'
  BY DEF IInv, Running, Queued, Fresh
<1> QED BY <1>1, <1>2, <1>3, <1>4, <1>5, <1>6, <1>7 DEF IInv

LEMMA StopSendingKeeps ==
  ASSUME IInv, StopSending
  PROVE  IInv'
<1> USE DEF StopSending, PageReady, Return, NoPage, logVars, positionVars, outVars, flushVars, checkVars, envVars
<1>1. Typed'
  BY DEF IInv, Typed, Pages
<1>2. Flags'
  BY DEF IInv, Flags
<1>3. Running'
  BY DEF IInv, Running
<1>4. Replayed'
  BY DEF IInv, Typed, Replayed
<1>5. Notified'
  BY DEF IInv, Typed, Running, Replayed, Notified, Position
<1>6. Queued'
  BY DEF IInv, Running, Queued
<1>7. Fresh'
  BY DEF IInv, Running, Queued, Fresh
<1> QED BY <1>1, <1>2, <1>3, <1>4, <1>5, <1>6, <1>7 DEF IInv

LEMMA FlushFailsKeeps ==
  ASSUME IInv, FlushFails
  PROVE  IInv'
<1> USE DEF FlushFails, Return, NoPage, logVars, positionVars, outVars, flushVars, checkVars, envVars
<1>1. Typed'
  BY DEF IInv, Typed, Pages
<1>2. Flags'
  BY DEF IInv, Flags
<1>3. Running'
  BY DEF IInv, Running
<1>4. Replayed'
  BY DEF IInv, Typed, Replayed
<1>5. Notified'
  BY DEF IInv, Typed, Running, Replayed, Notified, Position
<1>6. Queued'
  BY DEF IInv, Running, Queued
<1>7. Fresh'
  BY DEF IInv, Running, Queued, Fresh
<1> QED BY <1>1, <1>2, <1>3, <1>4, <1>5, <1>6, <1>7 DEF IInv

LEMMA PageRefusedKeeps ==
  ASSUME IInv, PageRefused
  PROVE  IInv'
<1> USE DEF PageRefused, Return, NoPage, logVars, positionVars, outVars, flushVars, checkVars, envVars
<1>1. Typed'
  BY DEF IInv, Typed, Pages
<1>2. Flags'
  BY ZenonT(40) DEF IInv, Flags
<1>3. Running'
  BY DEF IInv, Running
<1>4. Replayed'
  BY DEF IInv, Typed, Replayed
<1>5. Notified'
  <2>1. ~open
    BY DEF IInv, Fresh
  <2> QED BY <2>1 DEF IInv, Notified
<1>6. Queued'
  BY DEF IInv, Running, Queued
<1>7. Fresh'
  BY DEF IInv, Running, Queued, Fresh
<1> QED BY <1>1, <1>2, <1>3, <1>4, <1>5, <1>6, <1>7 DEF IInv

-----------------------------------------------------------------------------
(* The checks.                                                             *)

LEMMA CheckReadsKeeps ==
  ASSUME IInv, NEW what \in {"gone", "valid", "invalid", "error"}, CheckReads(what)
  PROVE  IInv'
<1> USE DEF CheckReads, logVars, positionVars, outVars, flushVars, checkVars, envVars
<1>1. Typed'
  BY DEF IInv, Typed, ReadFails, ReadWorks
<1>2. Flags'
  BY DEF IInv, Flags
<1>3. Running' /\ Replayed'
  BY DEF IInv, Running, Replayed
<1>4. Notified'
  BY DEF IInv, Notified
<1>5. Queued'
  BY DEF IInv, Queued
<1>6. Fresh'
  BY DEF IInv, Fresh, CheckOutcome
<1> QED BY <1>1, <1>2, <1>3, <1>4, <1>5, <1>6 DEF IInv

(* A check leaves the front of the queue. *)
LEMMA TailKeeps ==
  ASSUME Typed, Queued, checks # <<>>
  PROVE  /\ Head(checks) = checks[1] /\ checks[1] \in Checks /\ 1 \in DOMAIN checks
         /\ Tail(checks) \in Seq(Checks)
         /\ \A k \in DOMAIN Tail(checks) :
              /\ k \in 1..Len(checks) /\ k + 1 \in DOMAIN checks
              /\ Tail(checks)[k] = checks[k + 1] /\ Tail(checks)[k] # "initial"
         /\ Head(checks) = "page" => \A k \in DOMAIN Tail(checks) : Tail(checks)[k] # "page"
<1>1. checks \in Seq(Checks) /\ Len(checks) \in Nat \ {0} /\ DOMAIN checks = 1..Len(checks)
  BY DEF Typed
<1>2. Tail(checks) \in Seq(Checks) /\ DOMAIN Tail(checks) = 1..(Len(checks) - 1)
      /\ Head(checks) = checks[1] /\ checks[1] \in Checks
      /\ \A k \in 1..(Len(checks) - 1) : Tail(checks)[k] = checks[k + 1]
  BY <1>1
<1>3. ASSUME NEW k \in DOMAIN Tail(checks)
      PROVE  /\ k \in 1..Len(checks) /\ k + 1 \in DOMAIN checks /\ k + 1 # 1
             /\ Tail(checks)[k] = checks[k + 1]
             /\ checks[k + 1] # "initial"
             /\ checks[1] = "page" => checks[k + 1] # "page"
  <2>1. k + 1 \in DOMAIN checks /\ k + 1 # 1 /\ k \in 1..Len(checks) /\ 1 \in DOMAIN checks
    BY <1>1, <1>2
  <2> QED BY <1>2, <2>1 DEF Queued
<1> QED BY <1>1, <1>2, <1>3

LEMMA CheckSettlesKeeps ==
  ASSUME IInv, CheckSettles
  PROVE  IInv'
<1> USE DEF logVars, positionVars, outVars, flushVars, checkVars, envVars
<1>1. Typed /\ Queued /\ Flags /\ checks # <<>> /\ page \in Pages
  BY DEF IInv, Typed, Queued, CheckSettles
<1>2. /\ Head(checks) = checks[1] /\ checks[1] \in Checks /\ 1 \in DOMAIN checks
      /\ Tail(checks) \in Seq(Checks)
      /\ \A k \in DOMAIN Tail(checks) :
           /\ k \in 1..Len(checks) /\ k + 1 \in DOMAIN checks
           /\ Tail(checks)[k] = checks[k + 1] /\ Tail(checks)[k] # "initial"
      /\ Head(checks) = "page" => \A k \in DOMAIN Tail(checks) : Tail(checks)[k] # "page"
  BY <1>1, TailKeeps
<1>3. /\ open' = (open /\ ~Disconnects) /\ checks' = Tail(checks) /\ verdict' = "none"
      /\ UNCHANGED <<logVars, positionVars, closed, outVars, agentAuthorizationReadyForPage,
                     pongReceived, envVars>>
  BY DEF CheckSettles
<1>4. open' \in BOOLEAN /\ (open' => open) /\ (open' => ~Disconnects)
  <2>1. open' \in BOOLEAN
    BY <1>3, Zenon
  <2> QED BY <1>3, <2>1
<1>5. CASE InitialSettles /\ Passed /\ open
  <2> DEFINE next == [NoPage EXCEPT !.phase = "loading", !.late = revoked]
  <2>1. /\ Head(checks) = "initial" /\ initialRevalidationComplete' = TRUE
        /\ flushing' = TRUE /\ flushAgain' = FALSE /\ page' = next
    BY <1>5 DEF InitialSettles
  <2>2. /\ next \in Pages /\ next.phase = "loading" /\ next.auth = "ok" /\ next.own = FALSE
        /\ next.late = revoked
    <3>1. next.phase = "loading" /\ next.auth = "ok" /\ next.own = FALSE /\ next.late = revoked
      BY DEF NoPage
    <3>2. NoPage \in Pages /\ revoked \in BOOLEAN
      BY <1>1 DEF NoPage, Pages, Flags
    <3>3. next \in Pages
      BY <3>2 DEF Pages
    <3> QED BY <3>1, <3>3
  <2> HIDE DEF next
  <2>3. ~initialRevalidationComplete /\ page = NoPage /\ page.auth = "ok"
    BY <1>1, <1>2, <2>1 DEF IInv, Queued, Running, NoPage
  <2>4. Typed' /\ Flags'
    BY <1>1, <1>2, <1>3, <1>4, <2>1, <2>2 DEF Typed, Flags
  <2>5. Running' /\ Replayed' /\ Notified'
    BY <1>1, <1>3, <1>4, <2>1, <2>2 DEF IInv, Running, Replayed, Notified
  <2>6. Queued' /\ Fresh'
    BY <1>2, <1>3, <1>4, <2>1, <2>2, <2>3 DEF IInv, Queued, Fresh
  <2> QED BY <2>4, <2>5, <2>6 DEF IInv
<1>6. CASE \/ InitialSettles /\ ~(Passed /\ open)
           \/ HeartbeatSettles
  <2>1. UNCHANGED <<initialRevalidationComplete, flushing, flushAgain, page>>
    BY <1>6 DEF InitialSettles, HeartbeatSettles
  <2>4. Typed' /\ Flags'
    BY <1>1, <1>2, <1>3, <1>4, <2>1 DEF Typed, Flags
  <2>5. Running' /\ Replayed' /\ Notified'
    BY <1>3, <1>4, <2>1 DEF IInv, Running, Replayed, Notified
  <2>6. Queued'
    BY <1>1, <1>2, <1>3, <2>1 DEF Queued
  <2>7. Fresh'
    BY <1>3, <1>4, <2>1 DEF IInv, Fresh
  <2> QED BY <2>4, <2>5, <2>6, <2>7 DEF IInv
<1>7. CASE PageSettles
  <2> DEFINE auth == IF Passed THEN "ok" ELSE "refused"
             next == [page EXCEPT !.auth = auth]
  <2>1. /\ Head(checks) = "page" /\ page' = next
        /\ UNCHANGED <<initialRevalidationComplete, flushing, flushAgain>>
    BY <1>7 DEF PageSettles
  <2>2. /\ next \in Pages /\ next.auth = auth /\ next.phase = page.phase /\ next.own = page.own
        /\ next.late = page.late /\ next.upTo = page.upTo /\ next.more = page.more
    BY <1>1 DEF Pages
  <2>3. page.auth = "pending" /\ page.own /\ agent /\ page # NoPage
        /\ initialRevalidationComplete
    BY <1>1, <1>2, <2>1 DEF IInv, Queued, Fresh, Running, NoPage
  <2>4. /\ Passed => verdict = "valid" /\ ~page.late
        /\ ~Passed => ~open'
    BY <1>1, <1>3, <1>4, <2>1, <2>3 DEF IInv, Typed, Fresh, Passed, Disconnects, CheckSettles
  <2>5. page'.auth = "refused" => ~open'
    BY <2>1, <2>2, <2>4
  <2>6. page'.auth = "ok" => ~page.late
    BY <2>1, <2>2, <2>4
  <2> HIDE DEF next, auth
  <2>7. Typed' /\ Flags'
    BY <1>1, <1>2, <1>3, <1>4, <2>1, <2>2 DEF Typed, Flags
  <2>8. Running'
    BY <1>3, <1>4, <2>1, <2>2, <2>3 DEF IInv, Running
  <2>9. Replayed' /\ Notified'
    BY <1>3, <1>4, <2>1, <2>2 DEF IInv, Replayed, Notified
  <2>10. Queued'
    BY <1>1, <1>2, <1>3, <2>1 DEF Queued
  <2>11. Fresh'
    BY <1>3, <1>4, <2>1, <2>2, <2>3, <2>5, <2>6 DEF IInv, Fresh
  <2> QED BY <2>7, <2>8, <2>9, <2>10, <2>11 DEF IInv
<1> QED BY <1>5, <1>6, <1>7 DEF CheckSettles

LEMMA HeartbeatKeeps ==
  ASSUME IInv, Heartbeat
  PROVE  IInv'
<1> USE DEF logVars, positionVars, outVars, flushVars, envVars
<1>0. UNCHANGED <<logVars, positionVars, closed, outVars, flushVars, verdict,
                  initialRevalidationComplete, envVars>>
  BY DEF Heartbeat
<1>1. CASE HeartbeatTerminates
  <2>0. open' = FALSE /\ UNCHANGED <<checks, pongReceived>>
    BY <1>1 DEF HeartbeatTerminates
  <2>1. Typed' /\ Replayed'
    BY <1>0, <2>0 DEF IInv, Typed, Replayed
  <2>2. Flags' /\ Running'
    BY <1>0, <2>0, ZenonT(40) DEF IInv, Flags, Running
  <2>3. Notified' /\ Queued' /\ Fresh'
    BY <1>0, <2>0 DEF IInv, Notified, Queued, Fresh
  <2> QED BY <2>1, <2>2, <2>3 DEF IInv
<1>2. CASE HeartbeatChecks
  <2>1. checks' = Append(checks, "heartbeat") /\ pongReceived' = FALSE /\ UNCHANGED open
    BY <1>2 DEF HeartbeatChecks
  <2>2. checks \in Seq(Checks) /\ Len(checks) \in Nat /\ "heartbeat" \in Checks
    BY DEF IInv, Typed, Checks
  <2>3. checks' \in Seq(Checks) /\ checks' # <<>>
    BY <2>1, <2>2
  <2>4. \A k \in DOMAIN checks' : \/ k \in DOMAIN checks /\ checks'[k] = checks[k]
                                  \/ k = Len(checks) + 1 /\ checks'[k] = "heartbeat"
    <3>1. /\ DOMAIN checks = 1..Len(checks) /\ DOMAIN checks' = 1..(Len(checks) + 1)
          /\ \A k \in 1..Len(checks) : checks'[k] = checks[k]
          /\ checks'[Len(checks) + 1] = "heartbeat"
      BY <2>1, <2>2
    <3> QED BY <2>2, <3>1
  <2>5. Head(checks') = IF checks = <<>> THEN "heartbeat" ELSE Head(checks)
    BY <2>1, <2>2
  <2>6. Typed' /\ Replayed'
    BY <1>0, <2>1, <2>3 DEF IInv, Typed, Replayed
  <2>7. Flags'
    BY <1>0, <2>1, ZenonT(40) DEF IInv, Flags
  <2>10. Running' /\ Notified'
    BY <1>0, <2>1 DEF IInv, Running, Notified
  <2>8. Queued'
    BY <1>0, <2>1, <2>3, <2>4 DEF IInv, Queued
  <2>9. Fresh'
    BY <1>0, <2>1, <2>5 DEF IInv, Queued, Fresh
  <2> QED BY <2>6, <2>7, <2>8, <2>9, <2>10 DEF IInv
<1> QED BY <1>1, <1>2 DEF Heartbeat

-----------------------------------------------------------------------------
(* The loop of flush.                                                      *)

(* A page that begins waits for a check of its own at the end of the queue, *)
(* where no other page's check is, or for none.                            *)
LEMMA PageBegins ==
  ASSUME IInv, NEW covered \in BOOLEAN, BeginPage(covered), page.auth = "ok",
         initialRevalidationComplete,
         UNCHANGED <<verdict, agent, revoked, initialRevalidationComplete>>
  PROVE  /\ page' \in Pages /\ page'.phase = "loading" /\ page'.late = revoked
         /\ page'.auth \in {"ok", "pending"} /\ (page'.own => agent)
         /\ (page'.auth = "pending" <=> page'.own)
         /\ agentAuthorizationReadyForPage' = FALSE
         /\ checks' \in Seq(Checks) /\ Queued'
         /\ (verdict = "valid" => checks' # <<>> /\ Head(checks') # "page")
<1> DEFINE own == agent /\ ~covered
<1>1. /\ page' = [NoPage EXCEPT !.phase = "loading", !.own = own, !.late = revoked,
                                !.auth = IF own THEN "pending" ELSE "ok"]
      /\ checks' = IF own THEN Append(checks, "page") ELSE checks
      /\ agentAuthorizationReadyForPage' = FALSE
  BY DEF BeginPage
<1>2. own \in BOOLEAN /\ revoked \in BOOLEAN /\ (own => agent)
  BY DEF IInv, Flags
<1> HIDE DEF own
<1>3. /\ page'.phase = "loading" /\ page'.own = own /\ page'.late = revoked
      /\ page'.auth = IF own THEN "pending" ELSE "ok"
  BY <1>1 DEF NoPage
<1>4. page' \in Pages
  <2>1. NoPage \in Pages
    BY DEF NoPage, Pages
  <2> QED BY <1>1, <1>2, <2>1 DEF Pages
<1>5. checks \in Seq(Checks) /\ Len(checks) \in Nat /\ "page" \in Checks
      /\ DOMAIN checks = 1..Len(checks)
  BY DEF IInv, Typed, Checks
<1>6. \A k \in DOMAIN checks : checks[k] # "initial" /\ checks[k] # "page"
  BY DEF IInv, Queued
<1>7. CASE own
  <2>1. checks' = Append(checks, "page") /\ checks' \in Seq(Checks) /\ checks' # <<>>
    BY <1>1, <1>5, <1>7
  <2>2. /\ DOMAIN checks' = 1..(Len(checks) + 1)
        /\ \A k \in 1..Len(checks) : checks'[k] = checks[k]
    BY <1>5, <2>1
  <2>3. \A k \in DOMAIN checks' :
          checks'[k] # "initial" /\ (checks'[k] = "page" => k = Len(checks) + 1)
    <3>1. checks'[Len(checks) + 1] = "page"
      BY <1>5, <2>1
    <3>2. ASSUME NEW k \in DOMAIN checks', k # Len(checks) + 1 PROVE k \in DOMAIN checks
      BY <1>5, <2>2, <3>2
    <3> QED BY <1>5, <1>6, <2>2, <3>1, <3>2
  <2>4. Queued'
    BY <1>3, <1>7, <2>1, <2>3 DEF Queued
  <2>5. ASSUME verdict = "valid" PROVE checks' # <<>> /\ Head(checks') # "page"
    <3>1. checks # <<>>
      BY <2>5 DEF IInv, Queued
    <3>2. Head(checks') = checks[1] /\ 1 \in DOMAIN checks
      BY <1>5, <2>1, <3>1
    <3> QED BY <1>6, <2>1, <3>2
  <2> QED BY <1>1, <1>2, <1>3, <1>4, <1>7, <2>1, <2>4, <2>5
<1>8. CASE ~own
  <2>1. checks' = checks
    BY <1>1, <1>8
  <2>2. Queued'
    BY <1>6, <2>1 DEF IInv, Queued
  <2>3. ASSUME verdict = "valid" PROVE checks' # <<>> /\ Head(checks') # "page"
    <3>1. checks # <<>>
      BY <2>3 DEF IInv, Queued
    <3> QED BY <1>5, <1>6, <2>1, <3>1
  <2> QED BY <1>1, <1>2, <1>3, <1>4, <1>5, <1>8, <2>1, <2>2, <2>3
<1> QED BY <1>7, <1>8

LEMMA WakeKeeps ==
  ASSUME IInv, Wake
  PROVE  IInv'
<1> USE DEF logVars, positionVars, outVars
<1>1. /\ wake' = FALSE /\ ~closed
      /\ UNCHANGED <<logVars, positionVars, open, closed, outVars, verdict,
                     initialRevalidationComplete, pongReceived, revoked, errors>>
  BY DEF Wake
<1>2. CASE FlushRefused
  <2>1. ~initialRevalidationComplete /\ page.phase = "none"
        /\ UNCHANGED <<flushing, flushAgain, page, agentAuthorizationReadyForPage, checks>>
    BY <1>2 DEF FlushRefused, flushVars, IInv, Running, NoPage
  <2>2. Typed' /\ Replayed'
    BY <1>1, <2>1 DEF IInv, Typed, Replayed
  <2>3. Flags'
    BY <1>1, <2>1 DEF IInv, Flags
  <2>4. Running' /\ Notified' /\ Queued' /\ Fresh'
    BY <1>1, <2>1 DEF IInv, Running, Notified, Queued, Fresh
  <2> QED BY <2>2, <2>3, <2>4 DEF IInv
<1>3. CASE FlushCoalesced
  <2>1. flushing /\ flushAgain' = TRUE
        /\ UNCHANGED <<flushing, page, agentAuthorizationReadyForPage, checks>>
    BY <1>3 DEF FlushCoalesced
  <2>2. Typed' /\ Replayed'
    BY <1>1, <2>1 DEF IInv, Typed, Replayed
  <2>3. Flags'
    BY <1>1, <2>1 DEF IInv, Flags
  <2>4. Running' /\ Notified' /\ Queued' /\ Fresh'
    BY <1>1, <2>1 DEF IInv, Running, Notified, Queued, Fresh
  <2> QED BY <2>2, <2>3, <2>4 DEF IInv
<1>4. CASE FlushBegins
  <2>1. /\ initialRevalidationComplete /\ ~flushing /\ flushing' = TRUE /\ flushAgain' = FALSE
        /\ BeginPage(agentAuthorizationReadyForPage)
        /\ agentAuthorizationReadyForPage \in BOOLEAN /\ initialRevalidationComplete \in BOOLEAN
    BY <1>4 DEF FlushBegins, IInv, Flags
  <2>2. page.auth = "ok" /\ page.phase = "none"
    BY <2>1 DEF IInv, Running, NoPage
  <2>3. /\ page' \in Pages /\ page'.phase = "loading" /\ page'.late = revoked
        /\ page'.auth \in {"ok", "pending"} /\ (page'.own => agent)
        /\ (page'.auth = "pending" <=> page'.own)
        /\ agentAuthorizationReadyForPage' = FALSE
        /\ checks' \in Seq(Checks) /\ Queued'
        /\ (verdict = "valid" => checks' # <<>> /\ Head(checks') # "page")
    BY <1>1, <2>1, <2>2, PageBegins
  <2>4. Typed' /\ Replayed'
    BY <1>1, <2>3 DEF IInv, Typed, Replayed
  <2>5. Flags'
    BY <1>1, <2>1, <2>3 DEF IInv, Flags
  <2>6. Running' /\ Notified'
    BY <1>1, <2>1, <2>3 DEF IInv, Running, Notified
  <2>7. Fresh'
    BY <1>1, <2>3 DEF IInv, Fresh
  <2> QED BY <2>3, <2>4, <2>5, <2>6, <2>7 DEF IInv
<1> QED BY <1>1, <1>2, <1>3, <1>4 DEF Wake

LEMMA ReadPageKeeps ==
  ASSUME IInv, NEW what \in {"loaded", "expired", "error"}, ReadPage(what)
  PROVE  IInv'
<1> USE DEF logVars, positionVars, outVars, checkVars
<1> DEFINE end == IF what = "loaded" THEN PageEnd ELSE 0
           more == (what = "loaded" /\ PageEnd < head)
           next == [page EXCEPT !.phase = what, !.upTo = end, !.more = more]
<1>1. /\ page.phase = "loading" /\ PageOutcome(what) /\ (ReadFails(what) \/ ReadWorks(what))
      /\ page' = next
      /\ UNCHANGED <<logVars, positionVars, open, closed, outVars, flushing, flushAgain,
                     agentAuthorizationReadyForPage, checkVars, pongReceived, wake, revoked>>
  BY DEF ReadPage
<1>2. page \in Pages /\ head \in 0..MaxSequence /\ cursor.sequence \in 0..MaxSequence
  BY DEF IInv, Typed, Position
<1>3. PageEnd \in 0..MaxSequence /\ more \in BOOLEAN /\ end \in 0..MaxSequence
      /\ (PageEnd <= head) /\ (cursor.sequence <= head => cursor.sequence <= PageEnd)
  BY <1>2 DEF PageEnd
<1>4. what = "loaded" => cursor.sequence <= head
  BY <1>1 DEF PageOutcome, Expired, Resumable
<1>5. what = "loaded" /\ ~more => end = head
  BY <1>2, <1>3
<1>6. what = "loaded" => cursor.sequence <= end
  BY <1>3, <1>4
<1> HIDE DEF end, more
<1>7. /\ next.phase = what /\ next.upTo = end /\ next.more = more /\ next.auth = page.auth
      /\ next.own = page.own /\ next.late = page.late /\ next \in Pages
  BY <1>2, <1>3 DEF Pages
<1> HIDE DEF next
<1>8. errors' \in 0..MaxErrors
  BY <1>1 DEF ReadFails, ReadWorks, IInv, Typed
<1>9. Typed' /\ Replayed'
  BY <1>1, <1>6, <1>7, <1>8 DEF IInv, Typed, Replayed
<1>10. Flags'
  BY <1>1 DEF IInv, Flags
<1>11. Running' /\ Queued' /\ Fresh'
  BY <1>1, <1>7 DEF IInv, Running, Queued, Fresh, NoPage
<1>12. Notified'
  BY <1>1, <1>2, <1>5, <1>7 DEF IInv, Notified, Typed, Replayed
<1> QED BY <1>9, <1>10, <1>11, <1>12 DEF IInv

(* A page that is sent continues the replay. *)
LEMMA PageContinues ==
  ASSUME IInv, SendPage
  PROVE  /\ sent' = Visible(start.sequence, page.upTo) /\ disordered' = FALSE
         /\ cursor' \in Position /\ cursor'.sequence = page.upTo
         /\ start.sequence <= cursor'.sequence /\ cursor.sequence <= cursor'.sequence
         /\ leaked' = FALSE /\ sent' \subseteq 1..MaxSequence
<1>1. /\ page.phase = "loaded" /\ page.auth = "ok" /\ sent' = sent \cup Events
      /\ disordered' = (disordered \/ \E new \in Events, old \in sent : new <= old)
      /\ leaked' = (leaked \/ (Events # {} /\ page.own /\ page.late))
      /\ cursor' = [cursor EXCEPT !.sequence = page.upTo]
  BY DEF SendPage, PageReady
<1>2. /\ start.sequence \in Nat /\ cursor.sequence \in Nat /\ page.upTo \in 0..MaxSequence
      /\ cursor \in Position
      /\ start.sequence <= cursor.sequence /\ cursor.sequence <= page.upTo
      /\ sent = Visible(start.sequence, cursor.sequence) /\ disordered = FALSE
  BY <1>1 DEF IInv, Typed, Replayed, Position, Pages
<1>3. sent' = Visible(start.sequence, page.upTo)
  BY <1>1, <1>2 DEF Events, Visible
<1>4. \A new \in Events, old \in sent : ~(new <= old)
  BY <1>2 DEF Events, Visible
<1>5. disordered' = FALSE
  BY <1>1, <1>2, <1>4, Zenon
<1>6. leaked' = FALSE
  <2>1. ~leaked /\ ~(page.own /\ page.late)
    BY <1>1 DEF IInv, Fresh
  <2>2. leaked' \in BOOLEAN
    BY <1>1, Zenon
  <2> QED BY <1>1, <2>1, <2>2, Zenon
<1>7. cursor' \in Position /\ cursor'.sequence = page.upTo
  BY <1>1, <1>2 DEF Position
<1>8. sent' \subseteq 1..MaxSequence
  BY <1>2, <1>3 DEF Visible
<1> QED BY <1>2, <1>3, <1>5, <1>6, <1>7, <1>8

LEMMA SendPageKeeps ==
  ASSUME IInv, SendPage
  PROVE  IInv'
<1> USE DEF logVars
<1>1. /\ sent' = Visible(start.sequence, page.upTo) /\ disordered' = FALSE
      /\ cursor' \in Position /\ cursor'.sequence = page.upTo
      /\ start.sequence <= cursor'.sequence /\ cursor.sequence <= cursor'.sequence
      /\ leaked' = FALSE /\ sent' \subseteq 1..MaxSequence
  BY PageContinues
<1>2. /\ page.phase = "loaded" /\ page.auth = "ok"
      /\ NextPage \/ AnotherRound \/ CaughtUp
      /\ UNCHANGED <<logVars, agent, start, openedAt, open, closed, resyncSent, verdict,
                     initialRevalidationComplete, pongReceived, wake, revoked, errors>>
  BY DEF SendPage, PageReady, envVars
<1>3. /\ initialRevalidationComplete /\ flushing /\ page # NoPage /\ page \in Pages
      /\ (closed => ~open)
  BY <1>2 DEF IInv, Running, Typed, NoPage
<1>4. /\ start.sequence \in Nat /\ cursor.sequence \in Nat /\ page.upTo \in Nat
      /\ openedAt \in Nat /\ openedAt <= head
  BY <1>3 DEF IInv, Typed, Replayed, Position, Pages
<1>5. LastPage => connectedSent' \in BOOLEAN /\ (connectedSent' => page.upTo >= openedAt)
  <2> SUFFICES ASSUME LastPage
               PROVE  connectedSent' \in BOOLEAN /\ (connectedSent' => page.upTo >= openedAt)
    OBVIOUS
  <2>1. connectedSent' = (connectedSent \/ open) /\ (~page.more \/ closed)
    BY DEF LastPage, SendConnected
  <2>2. connectedSent' \in BOOLEAN
    BY <2>1, Zenon
  <2>3. connectedSent => page.upTo >= openedAt
    BY <1>1, <1>4 DEF IInv, Notified
  <2>4. ~page.more => page.upTo >= openedAt
    BY <1>2 DEF IInv, Notified
  <2> QED BY <1>3, <2>1, <2>2, <2>3, <2>4
<1>6. CASE NextPage \/ AnotherRound
  <2>1. /\ BeginPage(FALSE) /\ UNCHANGED flushing /\ FALSE \in BOOLEAN
        /\ flushAgain' \in {FALSE, flushAgain}
        /\ connectedSent' \in BOOLEAN /\ (connectedSent' => page.upTo >= openedAt)
    <3>1. CASE NextPage
      <4>1. BeginPage(FALSE) /\ UNCHANGED <<connectedSent, flushing, flushAgain>>
        BY <3>1 DEF NextPage
      <4>2. connectedSent \in BOOLEAN /\ (connectedSent => page.upTo >= openedAt)
        BY <1>1, <1>4 DEF IInv, Notified, Flags
      <4> QED BY <4>1, <4>2
    <3>2. CASE AnotherRound
      BY <1>5, <3>2 DEF AnotherRound
    <3> QED BY <1>6, <3>1, <3>2
  <2>2. UNCHANGED <<verdict, agent, revoked, initialRevalidationComplete>>
    BY <1>2
  <2>3. /\ page' \in Pages /\ page'.phase = "loading" /\ page'.late = revoked
        /\ page'.auth \in {"ok", "pending"} /\ (page'.own => agent)
        /\ (page'.auth = "pending" <=> page'.own)
        /\ agentAuthorizationReadyForPage' = FALSE
        /\ checks' \in Seq(Checks) /\ Queued'
        /\ (verdict = "valid" => checks' # <<>> /\ Head(checks') # "page")
    BY <1>2, <1>3, <2>1, <2>2, PageBegins
  <2>4. Typed'
    BY <1>1, <1>2, <2>3 DEF IInv, Typed
  <2>5. Replayed'
    BY <1>1, <1>2, <2>3 DEF IInv, Replayed
  <2>6. Flags'
    BY <1>1, <1>2, <2>1, <2>3 DEF IInv, Flags
  <2>7. Running' /\ Notified'
    BY <1>1, <1>2, <1>3, <2>1, <2>3 DEF IInv, Running, Notified
  <2>8. Fresh'
    BY <1>1, <1>2, <2>3 DEF IInv, Fresh
  <2> QED BY <2>3, <2>4, <2>5, <2>6, <2>7, <2>8 DEF IInv
<1>7. CASE CaughtUp
  <2>1. /\ flushing' = FALSE /\ page' = NoPage /\ (~page.more \/ closed)
        /\ (~flushAgain \/ closed) /\ connectedSent' \in BOOLEAN
        /\ (connectedSent' => page.upTo >= openedAt)
        /\ UNCHANGED <<flushAgain, checks, agentAuthorizationReadyForPage>>
    BY <1>5, <1>7 DEF CaughtUp, Return, LastPage
  <2>2. NoPage \in Pages /\ NoPage.phase = "none" /\ NoPage.auth = "ok" /\ ~NoPage.own
        /\ ~NoPage.late
    BY DEF NoPage, Pages
  <2>3. \A k \in DOMAIN checks : checks[k] # "page"
    BY <1>2 DEF IInv, Queued
  <2>4. Typed'
    BY <1>1, <1>2, <2>1, <2>2 DEF IInv, Typed
  <2>5. Replayed'
    BY <1>1, <1>2, <2>1, <2>2 DEF IInv, Replayed
  <2>6. Flags'
    BY <1>1, <1>2, <2>1 DEF IInv, Flags
  <2>7. Running'
    BY <1>2, <1>3, <2>1, <2>2 DEF IInv, Running
  <2>8. open' /\ ~wake' => cursor'.sequence = head'
    BY <1>1, <1>2, <1>3, <2>1 DEF IInv, Notified
  <2>9. Notified'
    BY <1>1, <1>2, <2>1, <2>2, <2>8 DEF Notified
  <2>10. Queued'
    BY <1>2, <2>1, <2>3 DEF IInv, Queued
  <2>11. Fresh'
    BY <1>1, <1>2, <2>1, <2>2 DEF IInv, Fresh
  <2> QED BY <2>4, <2>5, <2>6, <2>7, <2>9, <2>10, <2>11 DEF IInv
<1> QED BY <1>2, <1>6, <1>7

-----------------------------------------------------------------------------
LEMMA NextKeeps == IInv /\ [Next]_vars => IInv'
<1> SUFFICES ASSUME IInv, [Next]_vars PROVE IInv'
  OBVIOUS
<1>1. CASE Wake \/ Heartbeat \/ Pong \/ PeerCloses \/ Teardown \/ CommitEvent
           \/ DeleteExpiredState \/ EstablishEpoch \/ Revoke
  BY <1>1, WakeKeeps, HeartbeatKeeps, PongKeeps, PeerClosesKeeps, TeardownKeeps,
     CommitEventKeeps, DeleteExpiredStateKeeps, EstablishEpochKeeps, RevokeKeeps, Zenon
<1>2. CASE PageSteps
  BY <1>2, ReadPageKeeps, StopSendingKeeps, SendPageKeeps, FlushFailsKeeps, PageRefusedKeeps,
     Zenon DEF PageSteps
<1>3. CASE CheckSteps
  BY <1>3, CheckReadsKeeps, CheckSettlesKeeps, Zenon DEF CheckSteps
<1>4. CASE UNCHANGED vars
  <2> USE <1>4 DEF vars, logVars, positionVars, outVars, flushVars, checkVars, envVars
  <2>1. Typed' /\ Flags' /\ Running' /\ Replayed'
    BY DEF IInv, Typed, Flags, Running, Replayed
  <2>2. Notified' /\ Queued' /\ Fresh'
    BY DEF IInv, Notified, Queued, Fresh
  <2> QED BY <2>1, <2>2 DEF IInv
<1> QED BY <1>1, <1>2, <1>3, <1>4, Zenon DEF Next

LEMMA Inductive == Spec => []IInv
  BY InitIInv, NextKeeps, PTL DEF Spec

(* A socket sends exactly the visible events between the position it was    *)
(* opened at and its cursor, in order and once; at rest it is at the head   *)
(* or a wake-up is on its way; and the handshake follows all that was       *)
(* committed when it connected.                                            *)
THEOREM SocketHoldsAlways == Spec => []SocketHolds
<1>1. IInv => SocketHolds
  <2> SUFFICES ASSUME IInv PROVE SocketHolds
    OBVIOUS
  <2>1. {agent, open, closed, connectedSent, resyncSent, disordered, leaked, flushing, flushAgain,
         initialRevalidationComplete, agentAuthorizationReadyForPage, pongReceived, wake,
         revoked} \subseteq BOOLEAN
    BY Zenon DEF IInv, Flags, Replayed
  <2>4. flushing <=> page.phase # "none"
    BY DEF IInv, Running
  <2>5. /\ start \in Position /\ cursor \in Position /\ openedAt \in 0..MaxSequence
        /\ sent \subseteq 1..MaxSequence /\ page \in Pages /\ checks \in Seq(Checks)
        /\ verdict \in {"none", "gone", "valid", "invalid", "error"}
        /\ errors \in 0..MaxErrors
    BY DEF IInv, Typed
  <2>2. TypeOK
    BY <2>1, <2>4, <2>5, Zenon DEF Pages, Checks, TypeOK
  <2>3. ReplayIsExact /\ RestsUpToDate /\ ConnectedAfterReplay
    BY DEF IInv, Replayed, Notified, ReplayIsExact, RestsUpToDate, ConnectedAfterReplay
  <2> QED BY <2>2, <2>3 DEF SocketHolds
<1> QED BY <1>1, Inductive, PTL

(* No page of an agent that performs its own check goes out when its load   *)
(* began after the credential was revoked.                                 *)
THEOREM WithheldHolds == Spec => []WithheldAfterRevocation
<1>1. IInv => WithheldAfterRevocation
  BY DEF IInv, Fresh, WithheldAfterRevocation
<1> QED BY <1>1, Inductive, PTL

=============================================================================
