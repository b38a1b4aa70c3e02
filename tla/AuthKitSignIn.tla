--------------------------- MODULE AuthKitSignIn ---------------------------
(* Signing in through the provider's browser page: the native transaction            *)
(* (main/authkit-flow.ts), its protected record and the cancellation fence on disk    *)
(* (main/authkit-pending-store.ts), and main's sign-in intents, callbacks and          *)
(* cancellations (main/index.ts).  A sign-out, a sign-in link or a newer start          *)
(* supersedes an attempt at any moment, the provider answers late or twice, every        *)
(* write may fail while the keyring is locked, and the process may end between any      *)
(* two of them.                                                                      *)
EXTENDS Naturals, Sequences, FiniteSets

CONSTANTS MaxAttempts,  \* attempts the provider may answer
          MaxIntents,   \* starts, sign-outs and links (a restart goes on counting: only equality matters)
          MaxCallbacks, \* callbacks the operating system delivers
          MaxFaults,    \* failed writes or reads of the protected store
          MaxCrashes

VARIABLES
  file,        \* the protected pending record: an attempt, or 0
  fence,       \* the cancellation fence file exists
  pending,     \* AuthKitFlow.#pending
  initialized, \* #initialized
  flow,        \* the running lifecycle operation: [kind, arg, pc]
  tail,        \* the operations waiting on #lifecycleTail
  attempts,    \* attempts made so far
  opened,      \* attempts whose browser page was opened
  expired,     \* attempts whose lifetime is over
  intent,      \* authIntentGeneration
  pendingIntent, \* authKitPendingIntentGeneration, or NoIntent
  fenced,      \* authKitCancellationFenced
  cancel,      \* cancelPendingAuthKit: its step, "none" when no cancellation is running
  retry,       \* authKitCancellationRetryTimer is armed
  tasks,       \* main's handlers in progress: [kind -> [pc, intent]]
  callbacks,   \* pendingAuthCallbacks
  drain,       \* drainPendingAuthCallbacks: [pc, callback, intent]
  running,     \* main has started: "no", "starting", "restoring", "yes"
  signedIn,    \* ChatSession's state
  exchanged,   \* history: attempts whose handoff was exchanged
  superseded,  \* history: attempts given up while a fence was on disk
  given,       \* history: attempts this process has given up
  faults, crashes, delivered

diskVars == <<file, fence>>
flowVars == <<pending, initialized, flow, tail>>
mainVars == <<intent, pendingIntent, fenced, cancel, retry, tasks, callbacks, drain, running>>
histVars == <<attempts, opened, expired, exchanged, superseded, given, delivered, crashes>>
vars == <<file, fence, pending, initialized, flow, tail, attempts, opened, expired, intent,
          pendingIntent, fenced, cancel, retry, tasks, callbacks, drain, running, signedIn,
          exchanged, superseded, given, faults, crashes, delivered>>

Attempts == 1..MaxAttempts
NoIntent == MaxIntents + MaxCrashes + 1
NoFlow == [kind |-> "none", arg |-> 0, pc |-> "none"]
NoTask == [pc |-> "none", intent |-> 0]
NoDrain == [pc |-> "idle", attempt |-> 0, kind |-> "code", intent |-> 0]
TaskKinds == {"start", "signOut", "link"}
Callbacks == [attempt : Attempts, kind : {"code", "error"}]

TypeOK ==
  /\ file \in 0..MaxAttempts /\ pending \in 0..MaxAttempts /\ attempts \in 0..MaxAttempts
  /\ fence \in BOOLEAN /\ initialized \in BOOLEAN /\ fenced \in BOOLEAN /\ retry \in BOOLEAN
  /\ flow.kind \in {"none", "init", "start", "callback", "cancel", "expire"}
  /\ opened \subseteq Attempts /\ expired \subseteq Attempts /\ exchanged \subseteq Attempts
  /\ intent \in 0..MaxIntents + MaxCrashes /\ pendingIntent \in 0..NoIntent
  /\ cancel \in {"none", "arm", "flow", "clear"}
  /\ DOMAIN tasks = TaskKinds /\ callbacks \in Seq(Callbacks)
  /\ running \in {"no", "starting", "restoring", "yes"} /\ signedIn \in BOOLEAN

Init ==
  /\ file = 0 /\ fence = FALSE /\ pending = 0 /\ initialized = FALSE /\ flow = NoFlow
  /\ tail = <<>> /\ attempts = 0 /\ opened = {} /\ expired = {} /\ intent = 0
  /\ pendingIntent = NoIntent /\ fenced = FALSE /\ cancel = "none" /\ retry = FALSE
  /\ tasks = [k \in TaskKinds |-> NoTask] /\ callbacks = <<>> /\ drain = NoDrain
  /\ running = "no" /\ signedIn = FALSE /\ exchanged = {} /\ superseded = {} /\ given = {}
  /\ faults = 0 /\ crashes = 0 /\ delivered = 0

Fault == faults < MaxFaults /\ faults' = faults + 1
NoFault == UNCHANGED faults

---------------------------------------------------------------------------
(* The native transaction.  Its operations run one at a time; the first of them       *)
(* loads the record, and giving an attempt up means clearing the record first.        *)
Queue(kind, arg) == tail' = Append(tail, [kind |-> kind, arg |-> arg])

FlowStarts ==
  /\ flow = NoFlow /\ tail # <<>>
  /\ tail' = Tail(tail)
  /\ flow' = [kind |-> Head(tail).kind, arg |-> Head(tail).arg, pc |-> "load"]
  /\ UNCHANGED <<pending, initialized, faults, signedIn>>
  /\ UNCHANGED diskVars /\ UNCHANGED mainVars /\ UNCHANGED histVars

FlowGoto(pc) == flow' = [flow EXCEPT !.pc = pc]

\* #initialize and #ensureInitialized: an expired record is retired on the spot
FlowLoads ==
  /\ flow.pc = "load"
  /\ LET stored == IF initialized THEN pending ELSE file
         stale  == stored # 0 /\ stored \in expired /\ (~initialized \/ flow.kind = "init")
     IN \/ /\ ~initialized /\ Fault /\ FlowGoto("failed") /\ UNCHANGED <<pending, initialized>>
        \/ /\ NoFault /\ pending' = stored
           /\ IF stale THEN FlowGoto("lapsing") /\ UNCHANGED initialized
              ELSE /\ initialized' = TRUE
                   /\ FlowGoto(CASE flow.kind = "init"     -> "done"
                                 [] flow.kind = "start"    -> IF stored # 0 THEN "clear" ELSE "save"
                                 [] flow.kind = "callback" -> "match"
                                 [] flow.kind = "cancel"   -> IF stored # 0 THEN "clear" ELSE "done"
                                 [] OTHER                  -> "match")
  /\ UNCHANGED <<tail, signedIn>>
  /\ UNCHANGED diskVars /\ UNCHANGED mainVars /\ UNCHANGED histVars

\* an expired record found by the load: the callback that loaded it has expired with it
FlowLapses ==
  /\ flow.pc = "lapsing"
  /\ \/ Fault /\ FlowGoto("failed") /\ UNCHANGED <<file, pending, initialized>>
     \/ /\ NoFault /\ file' = 0 /\ pending' = 0 /\ initialized' = TRUE
        /\ FlowGoto(CASE flow.kind = "start" -> "save" [] flow.kind = "callback" -> "expired"
                      [] OTHER -> "done")
  /\ UNCHANGED <<fence, tail, signedIn>>
  /\ UNCHANGED mainVars /\ UNCHANGED histVars

\* #handleCallback before it retires the attempt, and #expire
FlowMatches ==
  /\ flow.pc = "match"
  /\ FlowGoto(IF pending = 0 \/ pending # flow.arg.attempt
                 \/ (flow.kind = "expire" /\ pending \notin expired)
              THEN "ignored" ELSE "clear")
  /\ UNCHANGED <<pending, initialized, tail, faults, signedIn>>
  /\ UNCHANGED diskVars /\ UNCHANGED mainVars /\ UNCHANGED histVars

Retired == file' = 0 /\ pending' = 0

\* #retire: the record goes before the attempt does, and a failure keeps both
FlowRetires ==
  /\ flow.pc = "clear"
  /\ \/ Fault /\ FlowGoto("failed") /\ UNCHANGED <<file, pending>>
     \/ /\ NoFault /\ Retired
        /\ FlowGoto(CASE flow.kind = "start" -> IF pending = attempts /\ flow.arg.attempt = attempts
                                                THEN "failed" ELSE "save"
                      [] flow.kind = "callback" ->
                           IF pending \in expired THEN "expired"
                           ELSE IF flow.arg.kind = "error" THEN "refused" ELSE "handoff"
                      [] OTHER -> "done")
  /\ UNCHANGED <<fence, initialized, tail, signedIn>>
  /\ UNCHANGED mainVars /\ UNCHANGED histVars

\* #start saves the new attempt durably before the browser can know of it
FlowSaves ==
  /\ flow.pc = "save" /\ attempts < MaxAttempts
  /\ \/ Fault /\ FlowGoto("failed") /\ UNCHANGED <<file, pending, attempts, given>>
     \/ /\ NoFault /\ attempts' = attempts + 1
        /\ given' = IF tasks["start"].intent # intent THEN given \cup {attempts + 1} ELSE given
        /\ file' = attempts + 1 /\ pending' = attempts + 1
        /\ flow' = [flow EXCEPT !.pc = "open", !.arg.attempt = attempts + 1]
  /\ UNCHANGED <<fence, initialized, tail, signedIn, opened, expired, exchanged, superseded,
                 delivered, crashes>>
  /\ UNCHANGED mainVars

\* the authorization request and the browser; a failure or an expiry retires the attempt
FlowOpens ==
  /\ flow.pc = "open"
  /\ \/ opened' = opened \cup {pending} /\ FlowGoto(IF pending \in expired THEN "clear" ELSE "done")
     \/ UNCHANGED opened /\ FlowGoto("clear")
  /\ UNCHANGED <<pending, initialized, tail, faults, signedIn, attempts, expired, exchanged,
                 superseded, given, delivered, crashes>>
  /\ UNCHANGED diskVars /\ UNCHANGED mainVars

\* an expiry nobody waits for ends here; the other results go to the handler that waits
FlowEndsQuietly ==
  /\ flow.kind = "expire" /\ flow.pc \in {"ignored", "done", "failed"}
  /\ flow' = NoFlow
  /\ UNCHANGED <<pending, initialized, tail, faults, signedIn>>
  /\ UNCHANGED diskVars /\ UNCHANGED mainVars /\ UNCHANGED histVars

Expires(a) ==
  /\ a \in 1..attempts \ expired
  /\ expired' = expired \cup {a}
  /\ IF pending = a THEN Queue("expire", [attempt |-> a, kind |-> "code"]) ELSE UNCHANGED tail
  /\ UNCHANGED <<pending, initialized, flow, faults, signedIn, attempts, opened, exchanged,
                 superseded, given, delivered, crashes>>
  /\ UNCHANGED diskVars /\ UNCHANGED mainVars

NoArg == [attempt |-> 0, kind |-> "code"]
FlowDone(kind) == flow.kind = kind /\ flow.pc \in {"ignored", "done", "failed", "expired",
                                                   "refused", "handoff"}

---------------------------------------------------------------------------
(* cancelPendingAuthKit: one cancellation at a time, which every caller joins.        *)
\* the callers of a running cancellation go on when it ends
Resumed(ts, ok) ==
  [k \in TaskKinds |->
     IF ts[k].pc # "cancelling" THEN ts[k]
     ELSE IF k = "start" /\ ~ok THEN NoTask
     ELSE [ts[k] EXCEPT !.pc = "cancelled"]]

\* a failed cancellation keeps its fence and arms the retry; the start of main goes on
CancelEnds(ok) ==
  /\ tasks' = Resumed(tasks, ok)
  /\ running' = IF running = "starting" THEN "restoring" ELSE running
CancelFailsQuietly == cancel' = "none" /\ UNCHANGED retry /\ CancelEnds(FALSE)
CancelFails == cancel' = "none" /\ retry' = TRUE /\ CancelEnds(FALSE)

\* whatever attempt exists is given up for good once the fence is on disk
CancelArms ==
  /\ cancel = "arm"
  /\ \/ /\ Fault /\ CancelFails /\ UNCHANGED <<fence, superseded, tail>>
     \/ /\ NoFault /\ fence' = TRUE /\ superseded' = superseded \cup 1..attempts
        /\ cancel' = "flow" /\ Queue("cancel", NoArg) /\ UNCHANGED <<retry, tasks, running>>
  /\ UNCHANGED <<file, pending, initialized, flow, signedIn, intent, pendingIntent, fenced,
                 callbacks, drain, attempts, opened, expired, exchanged, given, delivered, crashes>>

CancelFlowEnds ==
  /\ cancel = "flow" /\ FlowDone("cancel") /\ flow' = NoFlow
  /\ IF flow.pc = "failed"
     THEN CancelFails /\ UNCHANGED pendingIntent
     ELSE cancel' = "clear" /\ pendingIntent' = NoIntent /\ UNCHANGED <<retry, tasks, running>>
  /\ UNCHANGED <<pending, initialized, tail, faults, signedIn, intent, fenced, callbacks, drain>>
  /\ UNCHANGED diskVars /\ UNCHANGED histVars

CancelClears ==
  /\ cancel = "clear"
  /\ \/ Fault /\ CancelFails /\ UNCHANGED <<fence, fenced>>
     \/ /\ NoFault /\ fence' = FALSE /\ fenced' = FALSE /\ retry' = FALSE /\ cancel' = "none"
        /\ CancelEnds(TRUE)
  /\ UNCHANGED <<file, signedIn, intent, pendingIntent, callbacks, drain>>
  /\ UNCHANGED flowVars /\ UNCHANGED histVars

BeginCancel == fenced' = TRUE /\ cancel' = IF cancel = "none" THEN "arm" ELSE cancel

CancelRetries ==
  /\ retry /\ retry' = FALSE
  /\ BeginCancel
  /\ UNCHANGED <<faults, signedIn, intent, pendingIntent, tasks, callbacks, drain, running>>
  /\ UNCHANGED flowVars /\ UNCHANGED diskVars /\ UNCHANGED histVars

---------------------------------------------------------------------------
(* Main's handlers: each is a newer intent, and cancels what is pending first.        *)
GiveUp ==
  /\ given' = given \cup 1..attempts
  /\ UNCHANGED <<attempts, opened, expired, exchanged, superseded, delivered, crashes>>

Begin(kind) ==
  /\ running = "yes" /\ tasks[kind] = NoTask /\ intent < MaxIntents
  /\ kind = "start" => ~signedIn
  /\ intent' = intent + 1
  /\ tasks' = [tasks EXCEPT ![kind] = [pc |-> "cancelling", intent |-> intent + 1]]
  /\ BeginCancel /\ GiveUp
  /\ UNCHANGED <<faults, signedIn, pendingIntent, retry, callbacks, drain, running>>
  /\ UNCHANGED flowVars /\ UNCHANGED diskVars

TaskEnds(kind) == tasks' = [tasks EXCEPT ![kind] = NoTask]

\* sessionStartAuthKit after the cancellation: the installation id, then the flow
StartContinues ==
  /\ tasks["start"].pc = "cancelled"
  /\ \/ Fault /\ TaskEnds("start") /\ UNCHANGED <<pendingIntent, tail>>
     \/ /\ NoFault
        /\ IF tasks["start"].intent # intent
           THEN TaskEnds("start") /\ UNCHANGED <<pendingIntent, tail>>
           ELSE /\ pendingIntent' = intent /\ Queue("start", NoArg)
                /\ tasks' = [tasks EXCEPT !["start"].pc = "starting"]
  /\ UNCHANGED <<pending, initialized, flow, signedIn, intent, fenced, cancel, retry, callbacks,
                 drain, running>>
  /\ UNCHANGED diskVars /\ UNCHANGED histVars

StartEnds ==
  /\ tasks["start"].pc = "starting" /\ FlowDone("start") /\ flow' = NoFlow
  /\ IF flow.pc = "done" /\ tasks["start"].intent # intent
     THEN /\ tasks' = [tasks EXCEPT !["start"] = [pc |-> "withdrawing", intent |-> @.intent]]
          /\ BeginCancel /\ UNCHANGED pendingIntent
     ELSE /\ TaskEnds("start") /\ UNCHANGED <<fenced, cancel>>
          /\ pendingIntent' = IF flow.pc # "done" /\ pendingIntent = tasks["start"].intent
                              THEN NoIntent ELSE pendingIntent
  /\ UNCHANGED <<pending, initialized, tail, faults, signedIn, intent, retry, callbacks, drain,
                 running>>
  /\ UNCHANGED diskVars /\ UNCHANGED histVars

StartWithdrawn ==
  /\ tasks["start"].pc = "withdrawing" /\ cancel = "none" /\ TaskEnds("start")
  /\ pendingIntent' = IF pendingIntent = tasks["start"].intent THEN NoIntent ELSE pendingIntent
  /\ UNCHANGED <<faults, signedIn, intent, fenced, cancel, retry, callbacks, drain, running>>
  /\ UNCHANGED flowVars /\ UNCHANGED diskVars /\ UNCHANGED histVars

\* sessionSignOut and the link's exchange go on even when the cancellation failed
IntentActs(kind) ==
  /\ kind \in {"signOut", "link"} /\ tasks[kind].pc = "cancelled" /\ TaskEnds(kind)
  /\ signedIn' = IF tasks[kind].intent # intent THEN signedIn ELSE kind = "link"
  /\ UNCHANGED <<faults, intent, pendingIntent, fenced, cancel, retry, callbacks, drain, running>>
  /\ UNCHANGED flowVars /\ UNCHANGED diskVars /\ UNCHANGED histVars

---------------------------------------------------------------------------
(* Callbacks: the operating system delivers the provider's answer, perhaps twice.     *)
\* handleAuthCallback acknowledges and drops the callback of a fenced flow
Deliver(a, kind) ==
  /\ a \in opened /\ delivered < MaxCallbacks /\ running # "no"
  /\ delivered' = delivered + 1
  /\ callbacks' = IF fenced THEN callbacks ELSE Append(callbacks, [attempt |-> a, kind |-> kind])
  /\ UNCHANGED <<faults, signedIn, intent, pendingIntent, fenced, cancel, retry, tasks, drain,
                 running, attempts, opened, expired, exchanged, superseded, given, crashes>>
  /\ UNCHANGED flowVars /\ UNCHANGED diskVars

DrainTakes ==
  /\ running = "yes" /\ drain = NoDrain /\ callbacks # <<>>
  /\ callbacks' = Tail(callbacks)
  /\ drain' = IF fenced THEN NoDrain
              ELSE [pc |-> "install", attempt |-> Head(callbacks).attempt,
                    kind |-> Head(callbacks).kind, intent |-> pendingIntent]
  /\ UNCHANGED <<faults, signedIn, intent, pendingIntent, fenced, cancel, retry, tasks, running>>
  /\ UNCHANGED flowVars /\ UNCHANGED diskVars /\ UNCHANGED histVars

\* the callback that met an unavailable store goes back to the head of the queue
Requeued == <<[attempt |-> drain.attempt, kind |-> drain.kind]>> \o callbacks

\* the installation id is read before the one-time handoff is consumed
DrainInstalls ==
  /\ drain.pc = "install"
  /\ \/ /\ drain.kind = "code" /\ Fault /\ drain' = NoDrain /\ callbacks' = Requeued
        /\ UNCHANGED tail
     \/ /\ NoFault /\ drain' = [drain EXCEPT !.pc = "flow"]
        /\ Queue("callback", [attempt |-> drain.attempt, kind |-> drain.kind])
        /\ UNCHANGED callbacks
  /\ UNCHANGED <<pending, initialized, flow, signedIn, intent, pendingIntent, fenced, cancel,
                 retry, tasks, running>>
  /\ UNCHANGED diskVars /\ UNCHANGED histVars

MayExchangeLater == drain.intent # NoIntent
\* the callback's attempt belongs to the current sign-in intent
MayExchange == drain.intent # NoIntent /\ drain.intent = intent

DrainOutcome ==
  /\ drain.pc = "flow" /\ FlowDone("callback") /\ flow' = NoFlow
  /\ pendingIntent' = IF flow.pc \in {"expired", "refused", "handoff"} THEN NoIntent
                      ELSE pendingIntent
  /\ IF flow.pc = "handoff" /\ MayExchange /\ ~signedIn
     THEN drain' = [drain EXCEPT !.pc = "confirm"] /\ UNCHANGED callbacks
     ELSE /\ drain' = NoDrain
          /\ callbacks' = IF flow.pc = "failed" THEN Requeued ELSE callbacks
  /\ UNCHANGED <<pending, initialized, tail, faults, signedIn, intent, fenced, cancel, retry,
                 tasks, running>>
  /\ UNCHANGED diskVars /\ UNCHANGED histVars

\* the member confirms or declines; the old resources retire, and the intent is checked again
DrainConfirms ==
  /\ drain.pc = "confirm"
  /\ drain' \in {NoDrain, IF MayExchange THEN [drain EXCEPT !.pc = "exchange"] ELSE NoDrain}
  /\ UNCHANGED <<faults, signedIn, intent, pendingIntent, fenced, cancel, retry, tasks, callbacks,
                 running>>
  /\ UNCHANGED flowVars /\ UNCHANGED diskVars /\ UNCHANGED histVars

DrainExchanges ==
  /\ drain.pc = "exchange" /\ drain' = NoDrain
  /\ IF MayExchange
     THEN /\ exchanged' = exchanged \cup {drain.attempt}
          /\ signedIn' \in {TRUE, signedIn}
     ELSE UNCHANGED <<exchanged, signedIn>>
  /\ UNCHANGED <<faults, intent, pendingIntent, fenced, cancel, retry, tasks, callbacks, running,
                 attempts, opened, expired, superseded, given, delivered, crashes>>
  /\ UNCHANGED flowVars /\ UNCHANGED diskVars

---------------------------------------------------------------------------
(* A start of the process: a fence left behind is finished first, otherwise the       *)
(* record is loaded and its attempt belongs to the current intent.                    *)
Startup ==
  /\ running = "no" /\ running' = "starting"
  /\ IF fence THEN BeginCancel /\ UNCHANGED tail
     ELSE Queue("init", NoArg) /\ UNCHANGED <<fenced, cancel>>
  /\ UNCHANGED <<pending, initialized, flow, faults, signedIn, intent, pendingIntent, retry,
                 tasks, callbacks, drain>>
  /\ UNCHANGED diskVars /\ UNCHANGED histVars

StartupEnds ==
  /\ running = "starting" /\ FlowDone("init") /\ flow' = NoFlow /\ running' = "restoring"
  /\ IF flow.pc = "failed"
     THEN fenced' = TRUE /\ retry' = TRUE /\ UNCHANGED pendingIntent
     ELSE /\ pendingIntent' = IF pending # 0 THEN intent ELSE NoIntent
          /\ UNCHANGED <<fenced, retry>>
  /\ UNCHANGED <<pending, initialized, tail, faults, signedIn, intent, cancel, tasks, callbacks,
                 drain>>
  /\ UNCHANGED diskVars /\ UNCHANGED histVars

\* a session restored over a pending attempt retires the attempt
RestoreEnds ==
  /\ running = "restoring" /\ running' = "yes"
  /\ IF signedIn
     THEN /\ intent' = intent + 1 /\ BeginCancel /\ GiveUp
     ELSE UNCHANGED <<intent, fenced, cancel>> /\ UNCHANGED histVars
  /\ UNCHANGED <<faults, signedIn, pendingIntent, retry, tasks, callbacks, drain>>
  /\ UNCHANGED flowVars /\ UNCHANGED diskVars

\* what superseded an attempt in memory only is forgotten; the fence and the record are not
Crash ==
  /\ running # "no" /\ crashes < MaxCrashes /\ crashes' = crashes + 1
  /\ running' = "no" /\ pending' = 0 /\ initialized' = FALSE /\ flow' = NoFlow /\ tail' = <<>>
  /\ pendingIntent' = NoIntent /\ fenced' = FALSE /\ cancel' = "none"
  /\ retry' = FALSE /\ tasks' = [k \in TaskKinds |-> NoTask] /\ callbacks' = <<>>
  /\ drain' = NoDrain /\ given' = {}
  /\ UNCHANGED <<file, fence, signedIn, intent, faults, attempts, opened, expired, exchanged, superseded,
                 delivered>>

Steps ==
  \/ FlowStarts \/ FlowLoads \/ FlowLapses \/ FlowMatches \/ FlowRetires \/ FlowSaves \/ FlowOpens
  \/ FlowEndsQuietly
  \/ CancelArms \/ CancelFlowEnds \/ CancelClears \/ CancelRetries
  \/ StartContinues \/ StartEnds \/ StartWithdrawn \/ \E k \in TaskKinds : IntentActs(k)
  \/ DrainTakes \/ DrainInstalls \/ DrainOutcome \/ DrainConfirms \/ DrainExchanges
  \/ Startup \/ StartupEnds \/ RestoreEnds

Next ==
  \/ Steps
  \/ \E a \in Attempts : Expires(a)
  \/ \E k \in TaskKinds : Begin(k)
  \/ \E a \in Attempts, kind \in {"code", "error"} : Deliver(a, kind)
  \/ Crash

Spec == Init /\ [][Next]_vars
FairSpec == Spec /\ WF_vars(Steps)

---------------------------------------------------------------------------
(* One handoff for one attempt: an attempt on its way to the exchange has left memory *)
(* and disk and was not exchanged before, so neither a second callback nor a restart    *)
(* exchanges it again.                                                               *)
ConsumedOnce ==
  drain.pc \in {"confirm", "exchange"} => drain.attempt \notin exchanged \cup {pending, file}

(* An attempt the member has given up - by signing out, opening a sign-in link or      *)
(* starting again - never signs in afterwards, in this process or, once its fence is   *)
(* on disk, after a restart.                                                          *)
SupersededStaysOut == \A a \in given \cup superseded : a \in exchanged' => a \in exchanged
NeverSupersededExchange == [][SupersededStaysOut]_vars

(* A fence always lifts once the protected store works again: the callbacks of a later *)
(* sign-in are not dropped for good.                                                  *)
FenceLifts == fenced ~> (~fenced \/ running = "no")
=============================================================================
