------------------------------- MODULE Updater -------------------------------
(* The desktop's update controller: scheduled and member-asked checks, the download a   *)
(* check starts, its stall timer and cancellation, and the installation. The source of  *)
(* updates (electron-updater) is external: it emits its events in order and then        *)
(* settles the promise of the check, and of the download.                               *)
(* Code: apps/desktop/src/main/updater.ts, user-update-check.ts and the menu handler in *)
(* index.ts.                                                                            *)
EXTENDS Integers, FiniteSets

CONSTANTS
  MaxProgress, \* bound: progress events of a download
  MaxAsks      \* bound: checks asked for, by the timers and by the member

VARIABLES
  status,      \* the controller's published state
  installing,  \* #installRequested
  check,       \* #checkRequest, and how far the source is with it
  tracked,     \* #activeDownload: "none", "live" or "cancelled"
  downloads,   \* downloads the source has not settled
  progress,    \* progress events of the download
  waiters,     \* calls of checkNow that wait for the tracked download to settle
  member,      \* the menu's check: "no", "checking", "settling" or "done"
  timed,       \* scheduled checks go on
  staged,      \* history: a downloaded update is waiting to be installed
  stopped, asks

vars == <<status, installing, check, tracked, downloads, progress, waiters, member, timed,
          staged, stopped, asks>>

Statuses == {"idle", "checking", "available", "downloading", "ready", "error", "unsupported"}
InFlight == {"available", "downloading"}

TypeOK ==
  /\ status \in Statuses /\ installing \in BOOLEAN
  /\ check \in {"none", "asked", "emitted", "found"}
  /\ tracked \in {"none", "live", "cancelled"} /\ downloads \in 0..2
  /\ progress \in 0..MaxProgress /\ waiters \in 0..MaxAsks
  /\ member \in {"no", "checking", "waiting", "settling"}

Init ==
  /\ status \in {"idle", "unsupported"} /\ installing = FALSE /\ check = "none"
  /\ tracked = "none" /\ downloads = 0 /\ progress = 0 /\ waiters = 0
  /\ member = "no" /\ timed = (status = "idle") /\ staged = FALSE
  /\ stopped = FALSE /\ asks = 0

-----------------------------------------------------------------------------
(* setState publishes nothing after disposal; a member's check that waits for the       *)
(* running one to settle is told of the first state that is not "checking".             *)
Publish(s) ==
  /\ status' = IF stopped THEN status ELSE s
  /\ member' = IF member = "settling" /\ ~stopped /\ s # "checking" THEN "no" ELSE member

(* handleFailure: an error already shown, or an end of all checking, stays.             *)
Fails(signature) ==
  IF stopped \/ status \in {"unsupported", "error"}
  THEN UNCHANGED <<status, member, installing, timed>>
  ELSE IF signature
  THEN Publish("unsupported") /\ timed' = FALSE /\ UNCHANGED installing
  ELSE Publish("error") /\ installing' = FALSE /\ UNCHANGED timed

(* checkNow, past its waits.                                                            *)
MayBegin ==
  /\ ~stopped /\ check = "none" /\ tracked = "none"
  /\ ~(status \in InFlight \cup {"ready", "unsupported"})
Begins ==
  /\ status' = "checking" /\ installing' = FALSE /\ check' = "asked"

(* checkNow: a tracked download makes it return, or wait when it was given up.          *)
CheckNow(begun, returned, waited) ==
  IF tracked # "none"
  THEN /\ member' = IF status = "error" THEN waited ELSE returned
       /\ waiters' = IF status = "error" THEN waiters + 1 ELSE waiters
       /\ UNCHANGED <<status, installing, check>>
  ELSE IF MayBegin THEN Begins /\ member' = begun /\ UNCHANGED waiters
  ELSE member' = returned /\ UNCHANGED <<status, installing, check, waiters>>

TimerFires ==
  /\ timed /\ ~stopped /\ asks < MaxAsks /\ asks' = asks + 1
  /\ CheckNow(member, member, member)
  /\ UNCHANGED <<tracked, downloads, progress, timed, staged, stopped>>

(* runUserInitiatedUpdateCheck: one at a time; after checkNow it waits for a check in   *)
(* flight to settle.                                                                    *)
Looks == IF status = "checking" THEN "settling" ELSE "no"

MemberAsks ==
  /\ member = "no" /\ ~stopped /\ asks < MaxAsks /\ asks' = asks + 1
  /\ status # "unsupported" /\ CheckNow("checking", Looks, "waiting")
  /\ UNCHANGED <<tracked, downloads, progress, timed, staged, stopped>>

WaiterResumes ==
  /\ waiters > 0 /\ tracked = "none" /\ waiters' = waiters - 1
  /\ LET mine == member = "waiting"
     IN IF MayBegin
        THEN Begins /\ member' = IF mine THEN "checking" ELSE member
        ELSE /\ member' = IF mine THEN Looks ELSE member
             /\ UNCHANGED <<status, installing, check>>
  /\ UNCHANGED <<tracked, downloads, progress, timed, staged, stopped, asks>>

-----------------------------------------------------------------------------
(* The source's events of a check; those of a cancelled download's time are ignored.    *)
Hears(s) == IF tracked = "cancelled" THEN UNCHANGED <<status, member>> ELSE Publish(s)

CheckingForUpdate ==
  /\ check = "asked" /\ check' = "emitted"
  /\ Hears("checking")
  /\ installing' = (installing /\ tracked = "cancelled")
  /\ UNCHANGED <<tracked, downloads, progress, waiters, timed, staged, stopped, asks>>

UpdateAvailable ==
  /\ check = "emitted" /\ check' = "found"
  /\ Hears("available") \/ Hears("error")
  /\ downloads' = downloads + 1 /\ progress' = 0
  /\ UNCHANGED <<installing, tracked, waiters, timed, staged, stopped, asks>>

(* The check's promise settles: its download is tracked, and a member who asked looks.  *)
Settles(s) == member' = IF member = "checking" THEN "no"
                        ELSE IF member = "settling" /\ s # "checking" THEN "no" ELSE member

CheckResolves ==
  /\ check = "found" /\ check' = "none"
  /\ tracked' = IF stopped THEN "cancelled" ELSE "live"
  /\ status' = IF status = "checking" /\ ~stopped THEN "idle" ELSE status
  /\ Settles(status')
  /\ UNCHANGED <<installing, downloads, progress, waiters, timed, staged, stopped, asks>>

UpdateNotAvailable ==
  /\ check = "emitted" /\ check' = "none"
  /\ status' = IF stopped \/ tracked = "cancelled" THEN status ELSE "idle"
  /\ Settles(status')
  /\ UNCHANGED <<installing, tracked, downloads, progress, waiters, timed, staged, stopped,
                 asks>>

CheckFails ==
  /\ check \in {"asked", "emitted"} /\ check' = "none"
  /\ LET heard == ~stopped /\ status \notin {"unsupported", "error"}
     IN \E signature \in BOOLEAN :
          /\ status' = IF ~heard THEN status ELSE IF signature THEN "unsupported" ELSE "error"
          /\ timed' = (timed /\ ~(heard /\ signature))
          /\ installing' = (installing /\ (~heard \/ signature))
  /\ Settles(status')
  /\ UNCHANGED <<tracked, downloads, progress, waiters, staged, stopped, asks>>

-----------------------------------------------------------------------------
(* The source's events of a tracked download.                                           *)
DownloadProgress ==
  /\ tracked # "none" /\ downloads > 0 /\ progress < MaxProgress /\ progress' = progress + 1
  /\ Hears("downloading")
  /\ UNCHANGED <<installing, check, tracked, downloads, waiters, timed, staged, stopped, asks>>

Freed == tracked' = "none" /\ downloads' = downloads - 1

UpdateDownloaded ==
  /\ tracked = "live" /\ downloads > 0 /\ Freed /\ staged' = TRUE
  /\ \/ Publish("ready") /\ installing' = FALSE
     \/ Publish("error") /\ UNCHANGED installing
  /\ UNCHANGED <<check, progress, waiters, timed, stopped, asks>>

DownloadFails ==
  /\ tracked = "live" /\ downloads > 0 /\ Freed
  /\ \E signature \in BOOLEAN : Fails(signature)
  /\ UNCHANGED <<check, progress, waiters, staged, stopped, asks>>

(* A cancelled download settles without a word.                                         *)
CancelledSettles ==
  /\ tracked = "cancelled" /\ downloads > 0 /\ Freed
  /\ staged' \in {staged, TRUE}
  /\ UNCHANGED <<status, installing, check, progress, waiters, member, timed, stopped, asks>>

(* Mutant: a download that was given up is forgotten at once.                           *)
StallsAndForgets ==
  /\ status \in InFlight /\ tracked # "none" /\ ~stopped
  /\ Publish("error") /\ tracked' = "none"
  /\ UNCHANGED <<installing, check, downloads, progress, waiters, timed, staged, stopped, asks>>

(* The stall timer, armed by every available and downloading state, gives up.           *)
Stalls ==
  /\ status \in InFlight /\ tracked # "none" /\ ~stopped
  /\ Publish("error") /\ tracked' = "cancelled"
  /\ UNCHANGED <<installing, check, downloads, progress, waiters, timed, staged, stopped, asks>>

(* quitAndInstall, and what the source may report of it.                                *)
QuitAndInstall ==
  /\ status = "ready" /\ ~installing
  /\ \/ installing' = TRUE /\ UNCHANGED <<status, member>>
     \/ Publish("error") /\ UNCHANGED installing
  /\ UNCHANGED <<check, tracked, downloads, progress, waiters, timed, staged, stopped, asks>>

InstallFails ==
  /\ installing /\ \E signature \in BOOLEAN : Fails(signature)
  /\ UNCHANGED <<check, tracked, downloads, progress, waiters, staged, stopped, asks>>

Dispose ==
  /\ ~stopped /\ stopped' = TRUE /\ timed' = FALSE
  /\ tracked' = IF tracked = "live" THEN "cancelled" ELSE tracked
  /\ UNCHANGED <<status, installing, check, downloads, progress, waiters, member, staged, asks>>

-----------------------------------------------------------------------------
(* What the source, the timers and the promises do of themselves.                       *)
Source == CheckingForUpdate \/ UpdateAvailable \/ CheckResolves \/ UpdateNotAvailable \/ CheckFails
          \/ CancelledSettles
(* A call that waited goes on before anything else happens.                             *)
Others ==
  \/ Stalls \/ Source \/ TimerFires \/ MemberAsks \/ DownloadProgress \/ UpdateDownloaded
  \/ DownloadFails \/ QuitAndInstall \/ InstallFails \/ Dispose

Next ==
  \/ WaiterResumes
  \/ (waiters > 0 => tracked # "none") /\ Others

Spec == Init /\ [][Next]_vars

Steps ==
  \/ WaiterResumes
  \/ (waiters > 0 => tracked # "none") /\ (Source \/ Stalls)
FairSpec == Spec /\ WF_vars(Steps)

-----------------------------------------------------------------------------
(* A retry never starts a download beside one that the source has not settled, and an   *)
(* update is offered only when one was downloaded.                                      *)
OneDownload == downloads <= 1
ReadyIsStaged == status = "ready" => staged

(* A build whose signature the platform rejects never checks again.                     *)
UnsupportedIsFinal == status = "unsupported" => status' = "unsupported"

(* No download stays frozen on the screen, and a member who asked is answered, unless    *)
(* the update's version was refused: then its download runs on with no stall timer, and *)
(* a retry waits for as long as the source takes.                                       *)
Unwatched == status = "error" /\ tracked = "live"
NotFrozen == status \in InFlight /\ ~stopped ~> status \notin InFlight \/ stopped
AskAnswered == member # "no" ~> member = "no" \/ stopped \/ Unwatched
=============================================================================
