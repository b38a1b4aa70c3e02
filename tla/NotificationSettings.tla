------------------------ MODULE NotificationSettings ------------------------
(* The desktop's notification preference: the settings panel, the system's permission   *)
(* prompt, the queue of writes to the device's file, the state the main process acts on *)
(* and the barrier that holds delivery back while a start still waits for permission.   *)
(* Code: notification-settings-controller.ts, macos-notification-authorization.ts,      *)
(* pending-notification-authorization-barrier.ts, notification-preference-store.ts and  *)
(* preference-file.ts in apps/desktop/src/main, notification-settings.tsx in renderer.  *)
EXTENDS Integers, Sequences, FiniteSets

CONSTANTS
  MaxChoices,   \* bound: preferences the member submits
  MaxViews,     \* bound: times the panel is opened or closed
  MaxFaults     \* bound: failed writes, reads and presentations, restarts, changes of the
                \* system's permission and requests to read it again

VARIABLES
  mac,      \* the build asks the system for permission
  os,       \* the system's permission
  file,     \* the preference on disk
  mem,      \* the state the main process acts on
  revision, \* #preferenceIntentRevision
  latest,   \* the preference of that revision
  writeQ,   \* #writeTail: preferences to write, oldest first
  prompts,  \* calls waiting for the system's permission prompt
  gate,     \* the startup barrier: [pending, guard]
  learned,  \* history: the permission was known at some time since the start
  panel,    \* the settings panel: [gen, shown, rev, op]
  wire,     \* states and replies on their way to the panel, oldest first
  picked,   \* history: the member's last choice of each setting
  choices, faults

vars == <<mac, os, file, mem, revision, latest, writeQ, prompts, gate, learned, panel, wire,
          picked, choices, faults>>
bounds == <<choices, faults>>

Permissions == {"unknown", "granted", "denied"}
Prefs == [device : BOOLEAN, preview : BOOLEAN]
States == [device : BOOLEAN, preview : BOOLEAN, native : BOOLEAN, perm : Permissions]
Pref(s) == [device |-> s.device, preview |-> s.preview]
NoState == [none |-> TRUE]
NoOp == -1
Closed(g) == [gen |-> g, shown |-> NoState, rev |-> 0, op |-> NoOp]

TypeOK ==
  /\ os \in Permissions /\ file \in Prefs /\ mem \in States /\ latest \in Prefs
  /\ writeQ \in Seq([pref : Prefs, rev : 1..MaxChoices, gen : 0..MaxViews, done : BOOLEAN,
                    answers : BOOLEAN])
  /\ prompts \subseteq [cur : Prefs, pref : Prefs, gen : 0..MaxViews, answer : Permissions,
                        stage : {"asked", "answered"}]
  /\ gate \in [pending : BOOLEAN, guard : BOOLEAN] /\ revision \in 0..MaxChoices
  /\ panel.gen \in 0..MaxViews /\ panel.shown \in States \cup {NoState}

-----------------------------------------------------------------------------
(* What the capability read gives: the system's permission, or nothing when it fails.   *)
Capabilities ==
  {[native |-> TRUE, perm |-> IF mac THEN os ELSE "unknown"],
   [native |-> FALSE, perm |-> "unknown"]}

(* A process starts with the file's preference; one that is enabled while the system    *)
(* was never asked waits behind the barrier.                                            *)
Started(pref, cap) ==
  LET waits == mac /\ pref.device /\ cap.native /\ cap.perm = "unknown"
  IN /\ mem' = [device |-> pref.device, preview |-> pref.preview,
                native |-> cap.native, perm |-> cap.perm]
     /\ revision' = 0 /\ latest' = pref /\ picked' = pref
     /\ writeQ' = <<>> /\ prompts' = {} /\ wire' = <<>>
     /\ gate' = [pending |-> waits, guard |-> waits] /\ learned' = ~waits

Init ==
  /\ mac \in BOOLEAN /\ os \in Permissions /\ file \in Prefs
  /\ mem = [device |-> file.device, preview |-> file.preview, native |-> TRUE,
            perm |-> IF mac THEN os ELSE "unknown"]
  /\ revision = 0 /\ latest = file /\ picked = file /\ writeQ = <<>> /\ prompts = {}
  /\ LET waits == mac /\ file.device /\ os = "unknown"
     IN gate = [pending |-> waits, guard |-> waits] /\ learned = ~waits
  /\ panel = Closed(0) /\ wire = <<>>
  /\ choices = 0 /\ faults = 0

Restart ==
  /\ faults < MaxFaults /\ faults' = faults + 1
  /\ \E cap \in Capabilities : Started(file, cap)
  /\ panel' = Closed(panel.gen)
  /\ UNCHANGED <<mac, os, file, choices>>

-----------------------------------------------------------------------------
(* commit: a new state is published to the panel, and the barrier looks at it.          *)
Resolved(g, s) == [g EXCEPT !.guard = @ /\ (g.pending \/ s.perm = "unknown")]

Publishes(s, replies) ==
  /\ mem' = s /\ learned' = (learned \/ s.perm # "unknown")
  /\ wire' = wire \o (IF s # mem /\ panel.gen % 2 = 1
                      THEN <<[kind |-> "push", gen |-> panel.gen, state |-> s]>> ELSE <<>>)
                  \o replies

Commits(s, replies) ==
  /\ Publishes(s, replies)
  /\ gate' = IF s = mem THEN gate ELSE Resolved(gate, s)

Reply(g, s) == <<[kind |-> "reply", gen |-> g, state |-> s]>>
Rejected(g) == <<[kind |-> "error", gen |-> g, state |-> NoState]>>
Settled(w, s) == IF w.answers THEN Reply(w.gen, s) ELSE Rejected(w.gen)

(* setPreference: what it takes away applies at once, what it adds waits for the write. *)
(* With answers = FALSE the request is refused though its write is made.                *)
Submits(p, g, answers) ==
  /\ revision' = revision + 1 /\ latest' = p
  /\ writeQ' = Append(writeQ, [pref |-> p, rev |-> revision + 1, gen |-> g, done |-> FALSE,
                             answers |-> answers])
  /\ Commits([mem EXCEPT !.device = @ /\ p.device, !.preview = @ /\ p.preview], <<>>)

-----------------------------------------------------------------------------
(* The panel opens, asks for the state, and shows what arrives.                         *)
OpenPanel ==
  /\ panel.gen % 2 = 0 /\ panel.gen < MaxViews
  /\ panel' = Closed(panel.gen + 1)
  /\ wire' = Append(wire, [kind |-> "state", gen |-> panel.gen + 1, state |-> mem])
  /\ UNCHANGED <<mac, os, file, mem, revision, latest, writeQ, prompts, gate, learned, picked,
                 bounds>>

ClosePanel ==
  /\ panel.gen % 2 = 1 /\ panel.gen < MaxViews /\ panel' = Closed(panel.gen + 1)
  /\ UNCHANGED <<mac, os, file, mem, revision, latest, writeQ, prompts, gate, learned, wire,
                 picked, bounds>>

(* A reply that a push overtook is not shown; one of a panel that is gone is dropped.   *)
Delivered ==
  /\ wire # <<>> /\ wire' = Tail(wire)
  /\ LET msg == Head(wire)
         stale == \/ msg.kind = "error"
                  \/ msg.kind = "state" /\ panel.rev > 0
                  \/ msg.kind = "reply" /\ panel.op # panel.rev
     IN panel' = IF msg.gen # panel.gen THEN panel
                 ELSE [panel EXCEPT !.shown = IF stale THEN @ ELSE msg.state,
                                    !.rev = IF msg.kind = "push" THEN @ + 1 ELSE @,
                                    !.op = IF msg.kind \in {"reply", "error"} THEN NoOp ELSE @]
  /\ UNCHANGED <<mac, os, file, mem, revision, latest, writeQ, prompts, gate, learned, picked,
                 bounds>>

(* notificationPreferenceSet, with the preference the panel shows and one switch moved: *)
(* enabling asks the system first, remembering the state as it was.                     *)
Choose ==
  /\ panel.gen % 2 = 1 /\ panel.shown # NoState /\ panel.op = NoOp
  /\ choices < MaxChoices /\ choices' = choices + 1
  /\ \E p \in Prefs :
       /\ (p.device # panel.shown.device) # (p.preview # panel.shown.preview)
       /\ picked' = IF p.device # panel.shown.device THEN [picked EXCEPT !.device = p.device]
                    ELSE [picked EXCEPT !.preview = p.preview]
       /\ panel' = [panel EXCEPT !.op = panel.rev]
       /\ IF mac /\ ~mem.device /\ p.device
          THEN /\ prompts' = prompts \cup {[cur |-> Pref(mem), pref |-> p, gen |-> panel.gen,
                                            answer |-> "unknown", stage |-> "asked"]}
               /\ UNCHANGED <<mem, revision, latest, writeQ, gate, learned, wire>>
          ELSE Submits(p, panel.gen, TRUE) /\ UNCHANGED prompts
  /\ UNCHANGED <<mac, os, file, faults>>

(* The system's prompt is answered; then the capability is read again.                  *)
Answered ==
  /\ \E a \in prompts, r \in Permissions :
       /\ a.stage = "asked" /\ (os # "unknown" => r = os) /\ os' = r
       /\ prompts' = (prompts \ {a}) \cup {[a EXCEPT !.answer = r, !.stage = "answered"]}
  /\ UNCHANGED <<mac, file, mem, revision, latest, writeQ, gate, learned, panel, wire, picked,
                 bounds>>

(* setNotificationPreferenceWithAuthorization, after the prompt: without permission     *)
(* only a change of the preview is kept.                                                *)
WithoutPermission(a) == [a.cur EXCEPT !.preview = a.pref.preview]

Refreshed(s, cap) == [s EXCEPT !.native = cap.native, !.perm = cap.perm]

Authorized ==
  /\ \E a \in prompts, cap \in Capabilities :
       LET s == Refreshed(mem, cap)
           p == IF a.answer = "granted" THEN a.pref ELSE WithoutPermission(a)
       IN /\ a.stage = "answered" /\ prompts' = prompts \ {a}
          /\ IF a.answer # "granted" /\ a.pref.preview = a.cur.preview
             THEN Commits(s, Reply(a.gen, s)) /\ UNCHANGED <<revision, latest, writeQ>>
             ELSE /\ revision' = revision + 1 /\ latest' = p
                  /\ writeQ' = Append(writeQ, [pref |-> p, rev |-> revision + 1,
                                               gen |-> a.gen, done |-> FALSE, answers |-> TRUE])
                  /\ Commits([s EXCEPT !.device = @ /\ p.device, !.preview = @ /\ p.preview],
                             <<>>)
  /\ UNCHANGED <<mac, os, file, panel, picked, bounds>>

(* A prompt that fails still keeps a changed preview, and the panel gets its error.     *)
PromptFails ==
  /\ faults < MaxFaults /\ faults' = faults + 1
  /\ \E a \in prompts :
       /\ a.stage = "asked" /\ prompts' = prompts \ {a}
       /\ IF a.pref.preview # a.cur.preview
          THEN Submits(WithoutPermission(a), a.gen, FALSE)
          ELSE /\ wire' = wire \o Rejected(a.gen)
               /\ UNCHANGED <<mem, revision, latest, writeQ, gate, learned>>
  /\ UNCHANGED <<mac, os, file, panel, picked, choices>>

-----------------------------------------------------------------------------
(* The writes run one after the other; only the newest one is published.                *)
Written ==
  /\ writeQ # <<>> /\ ~Head(writeQ).done
  /\ file' = Head(writeQ).pref
  /\ writeQ' = [writeQ EXCEPT ![1].done = TRUE]
  /\ UNCHANGED <<mac, os, mem, revision, latest, prompts, gate, learned, panel, wire, picked,
                 bounds>>
(* Mutant: a write publishes its preference although a newer one was submitted.         *)
PublishedAlways ==
  /\ writeQ # <<>> /\ Head(writeQ).done
  /\ LET w == Head(writeQ)
         s == [mem EXCEPT !.device = w.pref.device, !.preview = w.pref.preview]
     IN writeQ' = Tail(writeQ) /\ Commits(s, Settled(w, s))
  /\ UNCHANGED <<mac, os, file, revision, latest, prompts, panel, picked, bounds>>

Published ==
  /\ writeQ # <<>> /\ Head(writeQ).done
  /\ LET w == Head(writeQ)
         s == IF w.rev = revision
              THEN [mem EXCEPT !.device = w.pref.device, !.preview = w.pref.preview] ELSE mem
     IN writeQ' = Tail(writeQ) /\ Commits(s, Settled(w, s))
  /\ UNCHANGED <<mac, os, file, revision, latest, prompts, panel, picked, bounds>>

WriteFails ==
  /\ writeQ # <<>> /\ ~Head(writeQ).done /\ faults < MaxFaults /\ faults' = faults + 1
  /\ writeQ' = Tail(writeQ) /\ wire' = wire \o Rejected(Head(writeQ).gen)
  /\ UNCHANGED <<mac, os, file, mem, revision, latest, prompts, gate, learned, panel, picked,
                 choices>>

-----------------------------------------------------------------------------
(* The startup request: whatever becomes of it, the barrier's wait for it ends; the     *)
(* barrier goes on guarding while the permission is still not known.                    *)
StartupSettles ==
  /\ gate.pending
  /\ \/ /\ \E r \in Permissions : (os # "unknown" => r = os) /\ os' = r
        /\ \E cap \in {[native |-> TRUE, perm |-> os'], [native |-> FALSE, perm |-> "unknown"]} :
             Publishes(Refreshed(mem, cap), <<>>)
     \/ mem' = mem /\ UNCHANGED <<os, learned, wire>>
  /\ gate' = Resolved([gate EXCEPT !.pending = FALSE], mem')
  /\ UNCHANGED <<mac, file, revision, latest, writeQ, prompts, panel, picked, bounds>>

(* refreshCapability from the panel: a read with nothing to submit.                     *)
RefreshCapability ==
  /\ panel.gen % 2 = 1 /\ panel.op = NoOp /\ faults < MaxFaults
  /\ faults' = faults + 1 /\ panel' = [panel EXCEPT !.op = panel.rev]
  /\ prompts' = prompts \cup {[cur |-> Pref(mem), pref |-> Pref(mem), gen |-> panel.gen,
                               answer |-> "denied", stage |-> "answered"]}
  /\ UNCHANGED <<mac, os, file, mem, revision, latest, writeQ, gate, learned, wire, picked,
                 choices>>

MarkPresenterFailure ==
  /\ faults < MaxFaults /\ faults' = faults + 1
  /\ Commits([mem EXCEPT !.native = FALSE], <<>>)
  /\ UNCHANGED <<mac, os, file, revision, latest, writeQ, prompts, panel, picked, choices>>

SystemChanges ==
  /\ faults < MaxFaults /\ faults' = faults + 1
  /\ os' \in {"granted", "denied"} \ {os}
  /\ UNCHANGED <<mac, file, mem, revision, latest, writeQ, prompts, gate, learned, panel, wire,
                 picked, choices>>

-----------------------------------------------------------------------------
Next ==
  \/ Restart \/ OpenPanel \/ ClosePanel \/ Delivered \/ Choose \/ Answered \/ Authorized
  \/ PromptFails \/ Written \/ Published \/ WriteFails \/ StartupSettles
  \/ RefreshCapability \/ MarkPresenterFailure \/ SystemChanges

Spec == Init /\ [][Next]_vars

-----------------------------------------------------------------------------
(* Nothing is in force before it is on disk, and nothing that the newest preference     *)
(* submitted to the controller turned off, however writes queue, fail and overtake.     *)
ExpansionIsDurable ==
  /\ mem.device => file.device /\ latest.device
  /\ mem.preview => file.preview /\ latest.preview

(* The barrier: the state notifications are judged by allows none while the answer to   *)
(* a startup request was never known.                                                   *)
Allows ==
  /\ mem.device /\ mem.native /\ mem.perm # "denied"
  /\ ~gate.pending /\ (gate.guard => mem.perm # "unknown")

HeldUntilKnown == Allows => learned

(* At rest the panel shows the state the main process acts on.                          *)
PanelAgrees ==
  panel.gen % 2 = 1 /\ wire = <<>> /\ panel.shown # NoState => panel.shown = mem

(* "A later intent owns the in-memory state": what the member last turned off stays off. *)
LaterIntentOwns == mem.preview => picked.preview
=============================================================================
