------------------------------ MODULE MCWorkers ------------------------------
(* What runs beside the server, the desktop's workers and the Hermes adapter: each        *)
(* behaviour runs one of the modules, chosen in the initial state.                       *)
EXTENDS Naturals, TLC

CONSTANTS
  Users, Logins, None, Folders, NoFolder, MaxChanges, MaxAttempts, MaxIntents,
  MaxCallbacks, MaxFaults, MaxCrashes, MaxOps, MaxChats, MaxQuestions, MaxProgress,
  MaxChecks, MaxWindows, MaxCalls, MaxReloads

VARIABLES
  part,  \* the part this behaviour runs
  source, lifecycleSessions, current, desired, revision, chain, lifeRev, state,
  refreshes, logins, latest, authenticating, changes, work, closed, file, fence,
  pending, initialized, flow, tail, attempts, opened, expired, intent, pendingIntent,
  fenced, cancel, retry, tasks, callbacks, drain, running, signedIn, exchanged,
  superseded, given, faults, crashes, delivered, pref, aiDisk, writes, view, host,
  hostToken, accepted, prompt, inflight, question, unanswered, asked, chats, workers,
  ops, opCount, retirement, disposed, status, installing, check, tracked, downloads,
  progress, waiters, member, timed, staged, stopped, asks, win, valid, late, main,
  rendererReady, generation, bound, run, trailing, calls, reloads, windowless, quit,
  torn, wasReady, adapter, hermesDisk, head, server, hermesSessions, draining, seen,
  used

Lifecycle == INSTANCE SessionLifecycle WITH
  sessions <- lifecycleSessions
SignIn == INSTANCE AuthKitSignIn
Ai == INSTANCE AiChannel WITH
  MaxAsks <- MaxQuestions, disk <- aiDisk
Updates == INSTANCE Updater WITH
  MaxAsks <- MaxChecks
Window == INSTANCE MainWindow WITH
  MaxAsks <- MaxCalls
Hermes == INSTANCE HermesAdapter WITH
  Events <- <<[conversation |-> None, kind |-> "ambient"],
              [conversation |-> None, kind |-> "ambient"],
              [conversation |-> None, kind |-> "mention"]>>,
  Capacity <- 1, MaxWakes <- 2, MaxFailures <- 1, MaxCrashes <- 0, MaxStops <- 1,
  MaxResyncs <- 0, disk <- hermesDisk, sessions <- hermesSessions

\* what the bounds and the names are: what every proof of a part starts from
ASSUME SignInBounds ==
  /\ MaxAttempts \in Nat /\ MaxIntents \in Nat /\ MaxCrashes \in Nat
ASSUME AiBounds ==
  /\ MaxOps \in Nat /\ MaxChats \in Nat \ {0} /\ MaxQuestions \in Nat /\ NoFolder \notin Folders
ASSUME UpdaterBounds == MaxProgress \in Nat /\ MaxChecks \in Nat
ASSUME WindowBounds == MaxWindows \in Nat \ {0} /\ MaxCalls \in Nat /\ MaxReloads \in Nat

LifecycleVars == <<
  source, lifecycleSessions, current, desired, revision, chain, lifeRev, state,
  refreshes, logins, latest, authenticating, changes, work, closed>>
SignInVars == <<
  file, fence, pending, initialized, flow, tail, attempts, opened, expired, intent,
  pendingIntent, fenced, cancel, retry, tasks, callbacks, drain, running, signedIn,
  exchanged, superseded, given, faults, crashes, delivered>>
AiVars == <<
  pref, aiDisk, writes, view, host, hostToken, accepted, prompt, inflight, question,
  unanswered, asked, chats, workers, ops, opCount, retirement, disposed>>
UpdatesVars == <<
  status, installing, check, tracked, downloads, progress, waiters, member, timed,
  staged, stopped, asks>>
WindowVars == <<
  win, valid, late, main, rendererReady, generation, bound, run, trailing, calls,
  reloads, windowless, quit, torn, wasReady>>
HermesVars == <<
  adapter, hermesDisk, head, server, hermesSessions, draining, seen, used>>
vars == <<part, LifecycleVars, SignInVars, AiVars, UpdatesVars, WindowVars, HermesVars>>

\* a part that is not chosen rests
LifecycleRests ==
  /\ source = 0 /\ lifecycleSessions = 0 /\ current = 0 /\ desired = 0
  /\ revision = 0 /\ chain = <<>> /\ lifeRev = 0 /\ state = 0 /\ refreshes = 0
  /\ logins = 0 /\ latest = 0 /\ authenticating = 0 /\ changes = 0 /\ work = 0
  /\ closed = FALSE
SignInRests ==
  /\ file = 0 /\ fence = 0 /\ pending = 0 /\ initialized = 0 /\ flow = 0 /\ tail = 0
  /\ attempts = 0 /\ opened = 0 /\ expired = 0 /\ intent = 0 /\ pendingIntent = 0
  /\ fenced = FALSE /\ cancel = 0 /\ retry = 0 /\ tasks = 0 /\ callbacks = 0
  /\ drain = 0 /\ running = 0 /\ signedIn = 0 /\ exchanged = 0 /\ superseded = 0
  /\ given = 0 /\ faults = 0 /\ crashes = 0 /\ delivered = 0
AiRests ==
  /\ pref = 0 /\ aiDisk = 0 /\ writes = 0 /\ view = [status |-> "ready"] /\ host = 0
  /\ hostToken = 0 /\ accepted = 0 /\ prompt = 0 /\ inflight = 0 /\ question = 0
  /\ unanswered = 0 /\ asked = 0 /\ chats = 0 /\ workers = 0 /\ ops = 0
  /\ opCount = 0 /\ retirement = 0 /\ disposed = FALSE
UpdatesRests ==
  /\ status = "idle" /\ installing = 0 /\ check = 0 /\ tracked = 0 /\ downloads = 0
  /\ progress = 0 /\ waiters = 0 /\ member = "no" /\ timed = 0 /\ staged = 0
  /\ stopped = FALSE /\ asks = 0
WindowRests ==
  /\ win = <<>> /\ valid = 0 /\ late = 0 /\ main = 0 /\ rendererReady = 0
  /\ generation = 0 /\ bound = 0 /\ run = 0 /\ trailing = 0 /\ calls = 0
  /\ reloads = 0 /\ windowless = 0 /\ quit = "no" /\ torn = 0 /\ wasReady = 0
HermesRests ==
  /\ adapter = 0 /\ hermesDisk = 0 /\ head = 0 /\ server = 0 /\ hermesSessions = 0
  /\ draining = 0 /\ seen = 0 /\ used = 0

Init ==
  \/ part = "lifecycle" /\ Lifecycle!Init /\ SignInRests /\ AiRests /\ UpdatesRests /\ WindowRests /\ HermesRests
  \/ part = "signin" /\ SignIn!Init /\ LifecycleRests /\ AiRests /\ UpdatesRests /\ WindowRests /\ HermesRests
  \/ part = "ai" /\ Ai!Init /\ LifecycleRests /\ SignInRests /\ UpdatesRests /\ WindowRests /\ HermesRests
  \/ part \in {"updater", "download"} /\ Updates!Init /\ LifecycleRests /\ SignInRests /\ AiRests /\ WindowRests /\ HermesRests
  \/ part \in {"window", "quitting"} /\ Window!Init /\ LifecycleRests /\ SignInRests /\ AiRests /\ UpdatesRests /\ HermesRests
  \/ part = "hermes" /\ Hermes!Init /\ LifecycleRests /\ SignInRests /\ AiRests /\ UpdatesRests /\ WindowRests

OthersRest(chosen) ==
  /\ UNCHANGED part
  /\ chosen # "lifecycle" => UNCHANGED LifecycleVars
  /\ chosen # "signin" => UNCHANGED SignInVars
  /\ chosen # "ai" => UNCHANGED AiVars
  /\ chosen # "updater" => UNCHANGED UpdatesVars
  /\ chosen # "window" => UNCHANGED WindowVars
  /\ chosen # "hermes" => UNCHANGED HermesVars

Next ==
  \/ part = "lifecycle" /\ Lifecycle!Next /\ OthersRest("lifecycle")
  \/ part = "signin" /\ SignIn!Next /\ OthersRest("signin")
  \/ part = "ai" /\ Ai!Next /\ OthersRest("ai")
  \/ part \in {"updater", "download"} /\ Updates!Next /\ OthersRest("updater")
  \/ part \in {"window", "quitting"} /\ Window!Next /\ OthersRest("window")
  \/ part = "hermes" /\ Hermes!Next /\ OthersRest("hermes")

Spec == Init /\ [][Next]_vars

\* what the chosen part does of itself
Steps ==
  \/ part = "lifecycle" /\ Lifecycle!Steps /\ OthersRest("lifecycle")
  \/ part = "signin" /\ SignIn!Steps /\ OthersRest("signin")
  \/ part = "ai" /\ Ai!Progress /\ OthersRest("ai")
  \/ part \in {"updater", "download"} /\ Updates!Steps /\ OthersRest("updater")
  \/ part \in {"window", "quitting"} /\ Window!Steps /\ OthersRest("window")
HermesRetries == part = "hermes" /\ Hermes!RetrySteps /\ OthersRest("hermes")
HermesWatches == part = "hermes" /\ Hermes!WatchSteps /\ OthersRest("hermes")
HermesReplays == part = "hermes" /\ Hermes!ReplaySteps /\ OthersRest("hermes")
FairSpec == Spec /\ WF_vars(Steps) /\ WF_vars(HermesRetries) /\ WF_vars(HermesWatches) /\ WF_vars(HermesReplays)


---------------------------------------------------------------------------
(* Each of the desktop's parts keeps its types. *)
TypeOK ==
  /\ part = "lifecycle" => Lifecycle!TypeOK
  /\ part = "signin" => SignIn!TypeOK
  /\ part = "ai" => Ai!TypeOK
  /\ part \in {"updater", "download"} => Updates!TypeOK
  /\ part \in {"window", "quitting"} => Window!TypeOK

(* One identity's resources at a time, published only once they are ready, and no      *)
(* result of one session delivered under another.                                     *)
SessionsNeverOverlap ==
  /\ TypeOK
  /\ part = "lifecycle" => Lifecycle!PublishedIsReady
  /\ part = "lifecycle" => Lifecycle!OneSessionAtATime
  /\ part = "lifecycle" => Lifecycle!NothingCrossesALogin

(* No agent process outlives the controller's interest in it, a busy status has a turn or *)
(* an operation behind it that will end it, and what is shown is the conversation and the  *)
(* turn the held agent runs, resumed only in the folder it was opened in.                  *)
AgentsHold ==
  /\ part = "ai" => Ai!AgentsAreHeld
  /\ part = "ai" => Ai!BusyIsHeld
  /\ part = "ai" => Ai!TranscriptIsItsOwn
  /\ part = "ai" => Ai!QuestionsAreLive

(* One download at a time, offered only when it was downloaded; one window at a time,      *)
(* messages only to its loaded renderer, whatever callbacks of an older one still arrive;  *)
(* the process leaves only once its services are torn down.                               *)
OneAtATime ==
  /\ part \in {"updater", "download"} => Updates!OneDownload
  /\ part \in {"updater", "download"} => Updates!ReadyIsStaged
  /\ part \in {"window", "quitting"} => Window!OneWindow
  /\ part \in {"window", "quitting"} => Window!SendsToLoaded
  /\ part \in {"window", "quitting"} => Window!BindingIsMain
  /\ part \in {"window", "quitting"} => Window!LeavesTornDown

(* A sign-in the member gave up never completes, and none completes twice; generations   *)
(* never come back, so what was told to an earlier renderer or turn is seen to be old;   *)
(* a build the platform refuses never checks again.                                     *)
NothingGoesBack == 
  [][/\ part = "signin" => SignIn!SupersededStaysOut /\ SignIn!ConsumedOnce
     /\ part = "ai" => Ai!GenerationGrows
     /\ part \in {"updater", "download"} => Updates!UnsupportedIsFinal
     /\ part \in {"window", "quitting"} => Window!FreshGeneration]_vars

(* With fair timers and a source that answers: the published identity settles on the     *)
(* source's, a cancellation fence lifts, a start of the agent ends, a member's check is  *)
(* answered and no download stays frozen on the screen, the window is shown when it is   *)
(* asked for and a quit ends; a read target the adapter owes reaches the server or is    *)
(* parked. The updater and the window are each run under two names, one for each of     *)
(* their promises.                                                                      *)
Waits ==
  CASE part = "lifecycle" -> state # source
    [] part = "signin" -> fenced
    [] part = "ai" -> view.status = "starting"
    [] part = "updater" -> member # "no"
    [] part = "download" -> status \in Updates!InFlight /\ ~stopped
    [] part = "window" -> run # 0
    [] part = "quitting" -> quit = "tearing"
    [] part = "hermes" -> Hermes!HasRetryableRead(adapter)
Served ==
  CASE part = "lifecycle" -> state = source \/ closed \/ ~Lifecycle!CleanSoFar
    [] part = "signin" -> ~fenced \/ running = "no"
    [] part = "ai" -> view.status # "starting" \/ disposed
    [] part = "updater" -> member = "no" \/ stopped \/ Updates!Unwatched
    [] part = "download" -> status \notin Updates!InFlight \/ stopped
    [] part = "window" -> run = 0 \/ Window!Fresh = {}
    [] part = "quitting" -> quit = "gone"
    [] part = "hermes" -> ~Hermes!HasRetryableRead(adapter)
Settles == Waits ~> Served

=============================================================================
