---------------------------- MODULE ServerProcess ---------------------------
(* Server processes over one database: migrations, what a process opens on its way up, its  *)
(* hourly jobs, and what it closes when a start fails or a signal arrives (main.ts,          *)
(* db/migrate.ts, app.ts, lifecycle.ts, shutdown.ts).                                      *)
EXTENDS Naturals, Sequences, FiniteSets

CONSTANTS Processes, Files,   \* process -> the migrations it ships: a sequence of [name, sum]
          Revised,            \* [name, original, corrected]: the one accepted revision
          Recorded,           \* what the database has already: a set of [name, sum]
          Jobs, OnBoot, SingleFlight, MaxRuns, MaxFaults

VARIABLES
  phase, pool, hub,   \* what each process has open; of the hub, whether it holds a LISTEN client
  ready,              \* Lifecycle
  timers, running,    \* its intervals, and the runs of its jobs that have not settled
  guard,              \* reconciliationInFlight
  closing,            \* the close in progress: which hooks are left
  armed,              \* the shutdown's deadline
  code,               \* how it ended: "none", "clean", "failed", "killed"
  lock, recorded,     \* the advisory lock; schema_migrations
  seen,               \* what each process read of schema_migrations, and added to it
  executed,           \* history: migration name -> times its SQL took effect
  runs, faults

procVars == <<phase, pool, hub, ready, timers, running, guard, closing, armed, code, lock, recorded,
              seen, executed, runs, faults>>

Phases == {"store", "lock", "check", "apply", "seed", "hub", "app", "jobs", "listen", "serving", "closing", "ended"}
Free == "nobody"
NamesOf(sums) == {m.name : m \in sums}
AllNames == NamesOf(Recorded) \cup UNION {{Files[p][i].name : i \in 1..Len(Files[p])} : p \in Processes}
Shipped(p) == {Files[p][i] : i \in 1..Len(Files[p])}
Up(p) == phase[p] # "ended"

TypeOK ==
  /\ phase \in [Processes -> Phases] /\ pool \in [Processes -> BOOLEAN] /\ hub \in [Processes -> BOOLEAN]
  /\ ready \in [Processes -> {"starting", "ready", "draining"}] /\ timers \in [Processes -> SUBSET Jobs]
  /\ running \in [Processes -> [Jobs -> 0..MaxRuns]] /\ guard \in [Processes -> BOOLEAN]
  /\ closing \in [Processes -> {"none", "timers", "pool", "hub", "exit"}] /\ armed \in [Processes -> BOOLEAN]
  /\ code \in [Processes -> {"none", "clean", "failed", "killed"}]
  /\ lock \in Processes \cup {Free} /\ seen \in [Processes -> SUBSET AllNames]
  /\ executed \in [AllNames -> 0..2] /\ runs \in 0..MaxRuns /\ faults \in 0..MaxFaults

Init ==
  /\ phase = [p \in Processes |-> "store"] /\ pool = [p \in Processes |-> FALSE]
  /\ hub = [p \in Processes |-> FALSE] /\ ready = [p \in Processes |-> "starting"]
  /\ timers = [p \in Processes |-> {}] /\ running = [p \in Processes |-> [j \in Jobs |-> 0]]
  /\ guard = [p \in Processes |-> FALSE] /\ closing = [p \in Processes |-> "none"]
  /\ armed = [p \in Processes |-> FALSE] /\ code = [p \in Processes |-> "none"]
  /\ lock = Free /\ recorded = Recorded /\ seen = [p \in Processes |-> {}]
  /\ executed = [n \in AllNames |-> IF n \in NamesOf(Recorded) THEN 1 ELSE 0]
  /\ runs = 0 /\ faults = 0

Reaches(p, to) == phase' = [phase EXCEPT ![p] = to]
Fault == faults < MaxFaults /\ faults' = faults + 1
Serving == UNCHANGED <<closing, armed, code, ready>>
Database == UNCHANGED <<lock, recorded, seen, executed>>
Background == UNCHANGED <<timers, running, guard, runs>>

\* mutant: a start that fails leaves the hub it started
LeavesHubOpen(p) ==
  /\ phase[p] \in {"store", "lock", "check", "apply", "seed", "hub", "app", "jobs"}
  /\ (phase[p] = "check" \/ Fault) /\ (phase[p] = "check" => UNCHANGED faults)
  /\ Reaches(p, "ended") /\ pool' = [pool EXCEPT ![p] = FALSE] /\ UNCHANGED hub
  /\ code' = [code EXCEPT ![p] = "failed"] /\ lock' = IF lock = p THEN Free ELSE lock
  /\ timers' = [timers EXCEPT ![p] = {}] /\ running' = [running EXCEPT ![p] = [j \in Jobs |-> 0]]
  /\ UNCHANGED <<ready, guard, closing, armed, recorded, seen, executed, runs>>

\* a start that fails closes the hub it started and the pool it opened, and the process ends
StartFails(p) ==
  /\ phase[p] \in {"store", "lock", "check", "apply", "seed", "hub", "app", "jobs"}
  /\ (phase[p] = "check" \/ Fault) /\ (phase[p] = "check" => UNCHANGED faults)
  /\ Reaches(p, "ended") /\ hub' = [hub EXCEPT ![p] = FALSE] /\ pool' = [pool EXCEPT ![p] = FALSE]
  /\ code' = [code EXCEPT ![p] = "failed"] /\ lock' = IF lock = p THEN Free ELSE lock
  /\ timers' = [timers EXCEPT ![p] = {}] /\ running' = [running EXCEPT ![p] = [j \in Jobs |-> 0]]
  /\ UNCHANGED <<ready, guard, closing, armed, recorded, seen, executed, runs>>

\* the storage first, then the pool; nothing of the database is touched before
Prepare(p) ==
  /\ phase[p] = "store" /\ Reaches(p, "lock") /\ pool' = [pool EXCEPT ![p] = TRUE]
  /\ UNCHANGED <<hub, faults>> /\ Serving /\ Database /\ Background
AcquireLock(p) ==
  /\ phase[p] = "lock" /\ lock = Free /\ lock' = p /\ Reaches(p, "check")
  /\ UNCHANGED <<pool, hub, recorded, seen, executed, faults>> /\ Serving /\ Background

\* a recorded file must be the one this process ships, or the accepted revision of it
Mismatch(p) ==
  \E m \in Shipped(p), r \in recorded :
    m.name = r.name /\ m.sum # r.sum
      /\ ~(m.name = Revised.name /\ r.sum = Revised.original /\ m.sum = Revised.corrected)
CheckFiles(p) ==
  /\ phase[p] = "check"
  /\ \/ Mismatch(p) /\ StartFails(p)
     \/ /\ ~Mismatch(p) /\ Reaches(p, "apply") /\ seen' = [seen EXCEPT ![p] = NamesOf(recorded)]
        /\ UNCHANGED <<pool, hub, lock, recorded, executed, faults>> /\ Serving /\ Background

Pending(p) == {i \in 1..Len(Files[p]) : Files[p][i].name \notin seen[p]}
\* each in a transaction of its own: its SQL and its record, or neither
ApplyMigration(p) ==
  /\ phase[p] = "apply"
  /\ \E i \in Pending(p) :
       /\ \A o \in Pending(p) : i <= o
       /\ Files[p][i].name \notin NamesOf(recorded)  \* the record's primary key
       /\ seen' = [seen EXCEPT ![p] = @ \cup {Files[p][i].name}]
       /\ recorded' = recorded \cup {Files[p][i]}
       /\ executed' = [executed EXCEPT ![Files[p][i].name] = IF @ < 2 THEN @ + 1 ELSE @]
  /\ UNCHANGED <<phase, lock, pool, hub, faults>> /\ Serving /\ Background
Migrated(p) ==
  /\ phase[p] = "apply" /\ Pending(p) = {} /\ Reaches(p, "seed") /\ lock' = Free
  /\ UNCHANGED <<recorded, seen, executed, pool, hub, faults>> /\ Serving /\ Background

SeedOwner(p) ==
  /\ phase[p] = "seed" /\ Reaches(p, "hub") /\ UNCHANGED <<pool, hub, faults>> /\ Serving /\ Database /\ Background
StartHub(p) ==
  /\ phase[p] = "hub" /\ Reaches(p, "app") /\ hub' = [hub EXCEPT ![p] = TRUE]
  /\ UNCHANGED <<pool, faults>> /\ Serving /\ Database /\ Background

\* the hub loses its client, which goes back to the pool; its timer takes another one, which a pool that ends refuses
ClientLost(p) ==
  /\ hub[p] /\ Fault /\ hub' = [hub EXCEPT ![p] = FALSE]
  /\ UNCHANGED <<phase, pool>> /\ Serving /\ Database /\ Background
Relistens(p) ==
  /\ phase[p] \in {"app", "jobs", "listen", "serving", "closing"} /\ closing[p] \in {"none", "timers"}
  /\ ~hub[p] /\ hub' = [hub EXCEPT ![p] = TRUE]
  /\ UNCHANGED <<phase, pool, faults>> /\ Serving /\ Database /\ Background

\* the application is ready when its routes are, unless it is already draining
MarkReady(p) == ready' = [ready EXCEPT ![p] = IF @ = "draining" THEN @ ELSE "ready"]
BuildApp(p) ==
  /\ phase[p] = "app" /\ Reaches(p, "jobs") /\ MarkReady(p)
  /\ UNCHANGED <<pool, hub, closing, armed, code, faults>> /\ Database /\ Background

\* some jobs run at once, every one of them every hour
StartJobs(p) ==
  /\ phase[p] = "jobs" /\ Reaches(p, "listen") /\ timers' = [timers EXCEPT ![p] = Jobs]
  /\ running' = [running EXCEPT ![p] = [j \in Jobs |-> IF j \in OnBoot THEN 1 ELSE 0]]
  /\ guard' = [guard EXCEPT ![p] = OnBoot \cap SingleFlight # {}]
  /\ UNCHANGED <<pool, hub, runs, faults>> /\ Serving /\ Database
JobFires(p, j) ==
  /\ Up(p) /\ j \in timers[p] /\ runs < MaxRuns - 1 /\ runs' = runs + 1
  /\ IF j \in SingleFlight /\ guard[p] THEN UNCHANGED <<running, guard>>
     ELSE /\ running' = [running EXCEPT ![p][j] = @ + 1]
          /\ guard' = [guard EXCEPT ![p] = @ \/ j \in SingleFlight]
  /\ UNCHANGED <<phase, pool, hub, timers, faults>> /\ Serving /\ Database
\* a run succeeds or is logged; a pool that ended refuses it
JobSettles(p, j) ==
  /\ Up(p) /\ running[p][j] > 0 /\ running' = [running EXCEPT ![p][j] = @ - 1]
  /\ guard' = [guard EXCEPT ![p] = @ /\ j \notin SingleFlight]
  /\ UNCHANGED <<phase, pool, hub, timers, runs, faults>> /\ Serving /\ Database

\* the signals are caught before the port is bound
Listen(p) ==
  /\ phase[p] = "listen" /\ Reaches(p, "serving")
  /\ UNCHANGED <<pool, hub, faults>> /\ Serving /\ Database /\ Background
\* the handlers are taken off and no deadline is set: the close is all there is
ListenFails(p) ==
  /\ phase[p] = "listen" /\ Reaches(p, "closing") /\ closing' = [closing EXCEPT ![p] = "timers"]
  /\ UNCHANGED <<pool, hub, ready, armed, code, faults>> /\ Database /\ Background

Signal(p) ==
  /\ phase[p] \in {"listen", "serving"} /\ ready' = [ready EXCEPT ![p] = "draining"]
  /\ Reaches(p, "closing") /\ closing' = [closing EXCEPT ![p] = "timers"] /\ armed' = [armed EXCEPT ![p] = TRUE]
  /\ UNCHANGED <<pool, hub, code, faults>> /\ Database /\ Background

\* last in, first out, one at a time: the intervals; the pool, whose end waits for each client taken from it; and
\* only then the hub, whose close is what gives a live LISTEN client back. A run gives its clients back between two
\* queries, so the pool may end before the run settles; the process leaves when nothing is left to wait for
CloseStep(p) ==
  /\ phase[p] = "closing"
  /\ \/ closing[p] = "timers" /\ timers' = [timers EXCEPT ![p] = {}] /\ closing' = [closing EXCEPT ![p] = "pool"]
        /\ UNCHANGED <<pool, phase, code, armed>>
     \/ closing[p] = "pool" /\ ~hub[p] /\ pool' = [pool EXCEPT ![p] = FALSE] /\ closing' = [closing EXCEPT ![p] = "hub"]
        /\ UNCHANGED <<timers, phase, code, armed>>
     \/ closing[p] = "hub" /\ closing' = [closing EXCEPT ![p] = "exit"]
        /\ code' = [code EXCEPT ![p] = IF armed[p] THEN "clean" ELSE "failed"] /\ armed' = [armed EXCEPT ![p] = FALSE]
        /\ UNCHANGED <<pool, timers, phase>>
     \/ closing[p] = "exit" /\ (\A j \in Jobs : running[p][j] = 0) /\ closing' = [closing EXCEPT ![p] = "none"]
        /\ Reaches(p, "ended") /\ UNCHANGED <<pool, timers, code, armed>>
  /\ UNCHANGED <<hub, ready, running, guard, runs, faults>> /\ Database

\* the deadline, or a close that throws, ends the process; so does a signal before the handlers
Exits(p) ==
  /\ Reaches(p, "ended") /\ code' = [code EXCEPT ![p] = "killed"] /\ lock' = IF lock = p THEN Free ELSE lock
  /\ pool' = [pool EXCEPT ![p] = FALSE] /\ hub' = [hub EXCEPT ![p] = FALSE] /\ timers' = [timers EXCEPT ![p] = {}]
  /\ running' = [running EXCEPT ![p] = [j \in Jobs |-> 0]] /\ armed' = [armed EXCEPT ![p] = FALSE]
  /\ closing' = [closing EXCEPT ![p] = "none"] /\ UNCHANGED <<ready, guard, recorded, seen, executed, runs>>
Deadline(p) == phase[p] = "closing" /\ armed[p] /\ Exits(p) /\ UNCHANGED faults
Killed(p) == Up(p) /\ Fault /\ Exits(p)

Steps(p) ==
  \/ Prepare(p) \/ AcquireLock(p) \/ CheckFiles(p) \/ ApplyMigration(p) \/ Migrated(p) \/ SeedOwner(p)
  \/ StartHub(p) \/ BuildApp(p) \/ StartJobs(p) \/ Listen(p) \/ CloseStep(p) \/ Deadline(p)
Settles(p) == \E j \in Jobs : JobSettles(p, j)
Restart(p) == phase[p] = "ended" /\ code[p] = "killed" /\ Fault /\ Reaches(p, "store")
  /\ code' = [code EXCEPT ![p] = "none"] /\ ready' = [ready EXCEPT ![p] = "starting"]
  /\ guard' = [guard EXCEPT ![p] = FALSE]
  /\ UNCHANGED <<pool, hub, timers, running, closing, armed, runs>> /\ Database
Next ==
  \E p \in Processes :
    \/ Steps(p) \/ Settles(p) \/ (phase[p] # "check" /\ StartFails(p)) \/ ListenFails(p) \/ Signal(p)
    \/ ClientLost(p) \/ Relistens(p) \/ Killed(p) \/ Restart(p)
    \/ \E j \in Jobs : JobFires(p, j)

Spec == Init /\ [][Next]_procVars

-----------------------------------------------------------------------------
(* Whatever processes start together, crash between migrations or ship another set of files, *)
(* a migration takes effect once, the record names it once, and a process that serves has     *)
(* every migration it ships.                                                               *)
MigratedOnce ==
  /\ \A n \in AllNames : executed[n] <= 1 /\ (executed[n] = 1 <=> n \in NamesOf(recorded))
  /\ \A a, b \in recorded : a.name = b.name => a = b
  /\ \A p \in Processes : phase[p] \in {"seed", "hub", "app", "jobs", "listen", "serving"}
       => NamesOf(Shipped(p)) \subseteq NamesOf(recorded)

(* A process that ended has nothing open. The hub never holds a client of a pool that ended,  *)
(* though it looks for one while the pool ends. Reconciliations never overlap.               *)
EndsClosed ==
  \A p \in Processes :
    /\ (phase[p] = "ended" => ~pool[p] /\ ~hub[p] /\ timers[p] = {} /\ lock # p)
    /\ (hub[p] => pool[p]) /\ (\A j \in SingleFlight : running[p][j] <= 1)

(* The pool's end stands before the hub's close and waits for the client only that close    *)
(* gives back: as long as no connection is lost no close comes past it. A shutdown then ends  *)
(* by its deadline, and a server that could not bind its port waits until it is killed.      *)
ClosesOnlyAfterLoss ==
  faults = 0 => \A p \in Processes : closing[p] \notin {"hub", "exit"} /\ code[p] # "clean"

(* A draining process is never ready again.                                               *)
DrainIsFinal == \A p \in Processes : ready[p] = "draining" /\ phase[p] # "ended" => ready'[p] = "draining"

(* A process that was signalled ends, by its hooks or its deadline, and so does one whose   *)
(* hooks have run; one that failed to bind has no deadline and may wait for ever.            *)
Waits == \E p \in Processes : phase[p] = "closing" /\ (armed[p] \/ closing[p] = "exit")
=============================================================================
