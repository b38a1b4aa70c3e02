----------------------------- MODULE MainWindow -----------------------------
(* The desktop's main window: its creation, loading, crash and closing, the callbacks   *)
(* Electron delivers late, the coordinator that recreates it, and the two-stage quit.   *)
(* Code: main-window-recreation.ts, window-lifecycle.ts and the window and quit wiring  *)
(* of index.ts in apps/desktop/src/main.                                                *)
EXTENDS Integers, FiniteSets

CONSTANTS
  MaxWindows, \* bound: windows created
  MaxAsks,    \* bound: activations, notification clicks and menu checks
  MaxReloads  \* bound: navigations of a loaded renderer

VARIABLES
  win,           \* each window: "none", "loading", "ready", "crashed" or "closed"
  valid,         \* windows whose renderer the lifecycle holds valid
  late,          \* callbacks of a window that Electron has not delivered yet
  main,          \* mainWindow, 0 when there is none
  rendererReady, \* messages may be sent to the renderer
  generation,    \* rendererSessionGeneration
  bound,         \* the window whose renderer is bound for notifications, 0 when none
  run,           \* the operation in flight: 0 none, -1 about to look, else the window loading
  trailing,      \* one more is due after it
  calls, reloads,
  windowless,           \* closing the last window does not quit
  quit,          \* "no", "tearing", "ready" or "gone"
  torn,          \* history: the session's and the local AI's disposal settled
  wasReady       \* history: generations in which the renderer became ready

vars == <<win, valid, late, main, rendererReady, generation, bound, run, trailing, calls,
          reloads, windowless, quit, torn, wasReady>>
quitVars == <<windowless, quit, torn>>
askVars == <<run, trailing, calls>>

Windows == 1..MaxWindows
Callbacks == {"gone", "destroyed", "closed"}

TypeOK ==
  /\ win \in [Windows -> {"none", "loading", "ready", "crashed", "closed"}]
  /\ valid \subseteq Windows /\ late \in [Windows -> SUBSET Callbacks]
  /\ {main, bound} \subseteq 0..MaxWindows /\ run \in -1..MaxWindows
  /\ quit \in {"no", "tearing", "ready", "gone"}

Init ==
  /\ win = [w \in Windows |-> IF w = 1 THEN "loading" ELSE "none"]
  /\ valid = {} /\ late = [w \in Windows |-> {}]
  /\ main = 1 /\ rendererReady = FALSE /\ generation = 1 /\ bound = 0
  /\ run = 0 /\ trailing = FALSE /\ calls = 0 /\ reloads = 0
  /\ windowless \in BOOLEAN /\ quit = "no" /\ torn = FALSE /\ wasReady = {}

Alive(w) == win[w] \in {"loading", "ready", "crashed"}

-----------------------------------------------------------------------------
(* Mutant: the generation does not advance.                                             *)
InvalidatedAsBefore(w) ==
  /\ valid' = valid \ {w} /\ bound' = IF bound = w THEN 0 ELSE bound
  /\ rendererReady' = (rendererReady /\ ~(w \in valid /\ main = w))
  /\ UNCHANGED generation

(* MainWindowLifecycle: a window's callbacks clear its own binding always, and the      *)
(* shared state only while it is the main window.                                       *)
Invalidated(w) ==
  /\ valid' = valid \ {w} /\ bound' = IF bound = w THEN 0 ELSE bound
  /\ IF w \in valid /\ main = w
     THEN rendererReady' = FALSE /\ generation' = generation + 1
     ELSE UNCHANGED <<rendererReady, generation>>
(* Mutant: a late callback of an older window clears the newer one.                     *)
ForgottenAlways(w) ==
  /\ valid' = valid \ {w} /\ bound' = IF bound = w THEN 0 ELSE bound
  /\ generation' = generation + 1 /\ rendererReady' = FALSE /\ main' = 0

Forgotten(w) ==
  /\ valid' = valid \ {w} /\ bound' = IF bound = w THEN 0 ELSE bound
  /\ generation' = IF w \in valid /\ main = w THEN generation + 1 ELSE generation
  /\ rendererReady' = (rendererReady /\ main # w)
  /\ main' = IF main = w THEN 0 ELSE main

(* run: an operation in flight has one trailing operation at most.                      *)
Ask ==
  /\ calls < MaxAsks /\ calls' = calls + 1 /\ quit # "gone"
  /\ IF run = 0 THEN run' = -1 /\ UNCHANGED trailing ELSE trailing' = TRUE /\ UNCHANGED run
  /\ UNCHANGED <<win, valid, late, main, rendererReady, generation, bound, reloads, quitVars,
                 wasReady>>

Settled == run' = (IF trailing THEN -1 ELSE 0) /\ trailing' = FALSE

(* showOrRecreateMainWindow's operation: a healthy window is focused; a crashed one is  *)
(* destroyed, and a new one created.                                                    *)
Fresh == {w \in Windows : win[w] = "none" /\ \A v \in 1..(w - 1) : win[v] # "none"}

Look ==
  /\ run = -1
  /\ IF main # 0 /\ win[main] \in {"loading", "ready"}
     THEN /\ Settled
          /\ UNCHANGED <<win, valid, late, main, rendererReady, generation, bound>>
     ELSE \E w \in Fresh :
            /\ win' = [v \in Windows |-> IF v = w THEN "loading"
                                         ELSE IF v = main THEN "closed" ELSE win[v]]
            /\ late' = IF main = 0 THEN late
                       ELSE [late EXCEPT ![main] = @ \cup {"destroyed", "closed"}]
            /\ main' = w /\ rendererReady' = FALSE /\ generation' = generation + 1 /\ bound' = 0
            /\ run' = w /\ UNCHANGED <<valid, trailing>>
  /\ UNCHANGED <<calls, reloads, quitVars, wasReady>>

-----------------------------------------------------------------------------
(* did-finish-load: only the main window's renderer becomes ready, and is sent the      *)
(* current session, settings and preferences.                                           *)
FinishLoad(w) ==
  /\ win[w] = "loading"
  /\ win' = [win EXCEPT ![w] = "ready"]
  /\ IF main # w
     THEN bound' = (IF bound = w THEN 0 ELSE bound)
          /\ UNCHANGED <<valid, rendererReady, wasReady>>
     ELSE valid' = valid \cup {w} /\ rendererReady' = TRUE
          /\ wasReady' = wasReady \cup {generation} /\ UNCHANGED bound
  /\ IF run = w THEN Settled ELSE UNCHANGED <<run, trailing>>
  /\ UNCHANGED <<late, main, generation, calls, reloads, quitVars>>

(* createMainWindow, when loading fails or the window was closed meanwhile.             *)
LoadFails(w) ==
  /\ win[w] = "loading" \/ (win[w] = "closed" /\ run = w)
  /\ win' = [win EXCEPT ![w] = "closed"]
  /\ Forgotten(w)
  /\ late' = IF win[w] = "loading" THEN [late EXCEPT ![w] = @ \cup {"destroyed", "closed"}]
             ELSE late
  /\ IF run = w THEN Settled ELSE UNCHANGED <<run, trailing>>
  /\ UNCHANGED <<calls, reloads, quitVars, wasReady>>

(* did-start-navigation: the renderer loads its page again.                             *)
Reload(w) ==
  /\ win[w] = "ready" /\ reloads < MaxReloads /\ reloads' = reloads + 1
  /\ win' = [win EXCEPT ![w] = "loading"] /\ Invalidated(w)
  /\ UNCHANGED <<late, main, askVars, quitVars, wasReady>>

Crash(w) ==
  /\ win[w] = "ready" /\ win' = [win EXCEPT ![w] = "crashed"]
  /\ late' = [late EXCEPT ![w] = @ \cup {"gone"}]
  /\ UNCHANGED <<valid, main, rendererReady, generation, bound, askVars, reloads, quitVars,
                 wasReady>>

CloseWindow(w) ==
  /\ Alive(w) /\ win' = [win EXCEPT ![w] = "closed"]
  /\ late' = [late EXCEPT ![w] = @ \cup {"destroyed", "closed"}]
  /\ UNCHANGED <<valid, main, rendererReady, generation, bound, askVars, reloads, quitVars,
                 wasReady>>

Callback(w) ==
  /\ \E c \in late[w] :
       /\ late' = [late EXCEPT ![w] = @ \ {c}]
       /\ IF c = "closed" THEN Forgotten(w) ELSE Invalidated(w) /\ UNCHANGED main
  /\ UNCHANGED <<win, askVars, reloads, quitVars, wasReady>>

(* notificationContext, from the renderer of the main window.                           *)
BindRenderer ==
  /\ main # 0 /\ win[main] = "ready" /\ rendererReady /\ bound' = main
  /\ UNCHANGED <<win, valid, late, main, rendererReady, generation, askVars, reloads, quitVars,
                 wasReady>>

-----------------------------------------------------------------------------
(* before-quit: the first one disposes the session and the local AI and resumes the     *)
(* quit when that settled; those in between are swallowed.                              *)
BeforeQuit ==
  /\ quit = "no" /\ quit' = "tearing"
  /\ UNCHANGED <<win, valid, late, main, rendererReady, generation, bound, askVars, reloads, windowless,
                 torn, wasReady>>

(* window-all-closed, on the platforms where it quits.                                  *)
AllClosed ==
  /\ ~windowless /\ run = 0 /\ \A w \in Windows : ~Alive(w) /\ late[w] = {}
  /\ quit = "no" /\ quit' = "tearing"
  /\ UNCHANGED <<win, valid, late, main, rendererReady, generation, bound, askVars, reloads, windowless,
                 torn, wasReady>>

TeardownSettles ==
  /\ quit = "tearing" /\ ~torn /\ torn' = TRUE
  /\ UNCHANGED <<win, valid, late, main, rendererReady, generation, bound, askVars, reloads, windowless,
                 quit, wasReady>>

ResumeQuit ==
  /\ quit = "tearing" /\ torn /\ quit' = "ready"
  /\ UNCHANGED <<win, valid, late, main, rendererReady, generation, bound, askVars, reloads, windowless,
                 torn, wasReady>>

(* will-quit, once every window closed.                                                 *)
WillQuit ==
  /\ quit = "ready" /\ quit' = "gone"
  /\ win' = [w \in Windows |-> IF Alive(w) THEN "closed" ELSE win[w]]
  /\ late' = [w \in Windows |-> {}] /\ main' = 0 /\ valid' = {} /\ bound' = 0
  /\ rendererReady' = FALSE /\ run' = 0 /\ trailing' = FALSE
  /\ UNCHANGED <<generation, calls, reloads, windowless, torn, wasReady>>

-----------------------------------------------------------------------------
Running ==
  \/ Ask \/ Look \/ BindRenderer \/ BeforeQuit \/ AllClosed \/ TeardownSettles \/ ResumeQuit
  \/ \E w \in Windows : \/ FinishLoad(w) \/ LoadFails(w) \/ Reload(w) \/ Crash(w)
                        \/ CloseWindow(w) \/ Callback(w)

Next == WillQuit \/ (quit # "gone" /\ Running)

Spec == Init /\ [][Next]_vars

(* What Electron and the coordinators do of themselves.                                 *)
Steps ==
  \/ WillQuit
  \/ /\ quit # "gone"
     /\ \/ Look \/ TeardownSettles \/ ResumeQuit
        \/ \E w \in Windows : FinishLoad(w) \/ LoadFails(w)
FairSpec == Spec /\ WF_vars(Steps)

-----------------------------------------------------------------------------
(* There is one window at a time, and what is sent goes to a renderer that finished     *)
(* loading: callbacks of an older window, however late, change nothing of a newer one.  *)
OneWindow == Cardinality({w \in Windows : Alive(w)}) <= 1
SendsToLoaded ==
  rendererReady /\ main # 0 => win[main] # "loading" /\ main \in valid
BindingIsMain == bound # 0 => bound = main /\ bound \in valid

(* A renderer that becomes ready again does so under a generation of its own, so what   *)
(* an earlier one was told is recognised as old.                                        *)
FreshGeneration == rendererReady' /\ ~rendererReady => generation' \notin wasReady

(* The process leaves only when the session's and the local AI's disposal settled, and  *)
(* a quit that began ends; every request for the window is served.                      *)
LeavesTornDown == quit = "gone" => torn
QuitEnds == quit = "tearing" ~> quit = "gone"
AsksAreServed == run # 0 ~> run = 0 \/ Fresh = {}
=============================================================================
