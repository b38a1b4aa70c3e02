------------------------------ MODULE MCDesktop ------------------------------
(* What the desktop keeps, side by side: the main process's credential, keys, settings     *)
(* and preferences, the renderer's replica. Each behaviour                                   *)
(* runs one of them, chosen in the initial state, so one run explores them without their  *)
(* product.                                                                               *)
EXTENDS Replica

CONSTANTS
  Users, Requests, Callers, Convs, First, Fields

VARIABLES
  part,  \* the part this behaviour runs
  issued, jar, record, session, cacheOpen, timer, blocked, op, queue, requests, asked,
  unread, files, legacy, memory, keys, calls, overlapped, events, link, drops, login,
  logins, active, watermark, known, knownHealthy, memberPos, membersHealthy, barred,
  convRepair, memberRepair, boot, boots, waiting, onScreen, clicks, renderer, device,
  preview, changes, broken, shown, gaveUp, seededOld, mac, os, file, mem, revision,
  latest, writeQ, prompts, gate, learned, panel, wire, picked, choices, faults, scheme0,
  source, design, scheme, saved, themeQ, saving, muted, astray, values, onDisk, patchQ,
  wrote, kept, designs, patches, flips, losses

\* the logs a replica may follow
E(kind, m) == [kind |-> kind, message |-> m, mine |-> FALSE, by |-> 0]
Mine(kind, m) == [kind |-> kind, message |-> m, mine |-> TRUE, by |-> 0]
Undo(kind, m, k) == [kind |-> kind, message |-> m, mine |-> TRUE, by |-> k]
Logs == {
  <<E("created", 1), Mine("reacted", 1), Undo("unreacted", 1, 2)>>,
  <<E("created", 1), E("created", 2), E("read", 1)>>,
  <<E("opened", 0), E("task", 0), E("task", 0)>>,
  <<E("created", 1), E("left", 0), E("returned", 0)>>,
  <<E("created", 1), E("created", 2), E("retracted", 1)>>,
  <<Mine("created", 1), E("member", 0), Mine("retracted", 1)>>}

Session == INSTANCE ChatSession WITH
  MaxCred <- 2, MaxQueue <- 1, MaxAsked <- 2
Keys == INSTANCE CacheKeys WITH
  Scopes <- Users, MaxKey <- 3
Notify == INSTANCE Notifications WITH
  MaxEvents <- 2, MaxLogins <- 1, MaxQueued <- 1, MaxBoots <- 2, MaxDrops <- 1,
  MaxChanges <- 0
Settings == INSTANCE NotificationSettings WITH
  MaxChoices <- 2, MaxViews <- 3, MaxFaults <- 1
Preferences == INSTANCE DevicePreferences WITH
  MaxDesigns <- 2, MaxPatches <- 2, MaxFlips <- 1, MaxFaults <- 1

SessionVars == <<
  issued, jar, record, session, cacheOpen, timer, blocked, op, queue, requests, asked,
  unread>>
KeysVars == <<
  files, legacy, memory, keys, calls, overlapped>>
NotifyVars == <<
  events, link, drops, login, logins, active, watermark, known, knownHealthy, memberPos,
  membersHealthy, barred, convRepair, memberRepair, boot, boots, waiting, onScreen,
  clicks, renderer, device, preview, changes, broken, shown, gaveUp, seededOld>>
SettingsVars == <<
  mac, os, file, mem, revision, latest, writeQ, prompts, gate, learned, panel, wire,
  picked, choices, faults>>
CopyVars == <<
  history, head, db, applied, running, lanes, load, catalog, answer, inexact, spent>>
PreferencesVars == <<
  scheme0, source, design, scheme, saved, themeQ, saving, muted, astray, values, onDisk,
  patchQ, wrote, kept, designs, patches, flips, losses>>
SVars == <<part, SessionVars, KeysVars, NotifyVars, SettingsVars, CopyVars, PreferencesVars>>

\* a part that is not chosen rests
SessionRests ==
  /\ issued = 0 /\ jar = 0 /\ record = 0 /\ session = 0 /\ cacheOpen = 0 /\ timer = 0
  /\ blocked = 0 /\ op = 0 /\ queue = 0 /\ requests = 0 /\ asked = 0 /\ unread = 0
KeysRests ==
  /\ files = 0 /\ legacy = 0 /\ memory = 0 /\ keys = 0 /\ calls = 0 /\ overlapped = 0
NotifyRests ==
  /\ events = 0 /\ link = 0 /\ drops = 0 /\ login = 0 /\ logins = 0 /\ active = 0
  /\ watermark = 0 /\ known = 0 /\ knownHealthy = 0 /\ memberPos = 0
  /\ membersHealthy = 0 /\ barred = 0 /\ convRepair = 0 /\ memberRepair = 0
  /\ boot = 0 /\ boots = 0 /\ waiting = 0 /\ onScreen = 0 /\ clicks = 0
  /\ renderer = 0 /\ device = 0 /\ preview = 0 /\ changes = 0 /\ broken = 0
  /\ shown = 0 /\ gaveUp = 0 /\ seededOld = 0
SettingsRests ==
  /\ mac = 0 /\ os = 0 /\ file = 0 /\ mem = 0 /\ revision = 0 /\ latest = 0
  /\ writeQ = 0 /\ prompts = 0 /\ gate = 0 /\ learned = 0 /\ panel = 0 /\ wire = 0
  /\ picked = 0 /\ choices = 0 /\ faults = 0
CopyRests ==
  /\ history = (CHOOSE h \in Histories : TRUE) /\ head = 0
  /\ db = Bootstrapped(history) /\ applied = 0 /\ running = TRUE /\ lanes = AllIdle
  /\ load = None /\ catalog = None /\ answer = None /\ inexact = {}
  /\ spent = [b \in {} |-> 0]
PreferencesRests ==
  /\ scheme0 = 0 /\ source = 0 /\ design = 0 /\ scheme = 0 /\ saved = 0 /\ themeQ = 0
  /\ saving = 0 /\ muted = 0 /\ astray = 0 /\ values = 0 /\ onDisk = 0 /\ patchQ = 0
  /\ wrote = 0 /\ kept = 0 /\ designs = 0 /\ patches = 0 /\ flips = 0 /\ losses = 0

SInit ==
  \/ part = "session" /\ Session!Init /\ KeysRests /\ NotifyRests /\ SettingsRests /\ CopyRests /\ PreferencesRests
  \/ part = "keys" /\ Keys!Init /\ SessionRests /\ NotifyRests /\ SettingsRests /\ CopyRests /\ PreferencesRests
  \/ part = "notify" /\ Notify!Init /\ SessionRests /\ KeysRests /\ SettingsRests /\ CopyRests /\ PreferencesRests
  \/ part = "settings" /\ Settings!Init /\ SessionRests /\ KeysRests /\ NotifyRests /\ CopyRests /\ PreferencesRests
  \/ part = "replica" /\ Init /\ SessionRests /\ KeysRests /\ NotifyRests /\ SettingsRests /\ PreferencesRests
  \/ part = "prefs" /\ Preferences!Init /\ SessionRests /\ KeysRests /\ NotifyRests /\ SettingsRests /\ CopyRests

OthersRest(chosen) ==
  /\ UNCHANGED part
  /\ chosen # "session" => UNCHANGED SessionVars
  /\ chosen # "keys" => UNCHANGED KeysVars
  /\ chosen # "notify" => UNCHANGED NotifyVars
  /\ chosen # "settings" => UNCHANGED SettingsVars
  /\ chosen # "replica" => UNCHANGED CopyVars
  /\ chosen # "prefs" => UNCHANGED PreferencesVars

SNext ==
  \/ part = "session" /\ Session!Next /\ OthersRest("session")
  \/ part = "keys" /\ Keys!Next /\ OthersRest("keys")
  \/ part = "notify" /\ Notify!Next /\ OthersRest("notify")
  \/ part = "settings" /\ Settings!Next /\ OthersRest("settings")
  \/ part = "replica" /\ Next /\ OthersRest("replica")
  \/ part = "prefs" /\ Preferences!Next /\ OthersRest("prefs")

SSpec == SInit /\ [][SNext]_SVars


---------------------------------------------------------------------------
(* Each part keeps its types. *)
STypeOK ==
  /\ part = "session" => Session!TypeOK
  /\ part = "keys" => Keys!TypeOK
  /\ part = "notify" => Notify!TypeOK
  /\ part = "settings" => Settings!TypeOK
  /\ part = "replica" => TypeOK
  /\ part = "prefs" => Preferences!TypeOK

(* The open cache and the protected record belong to the member whose credential is in    *)
(* the jar, a signed-in device always has a renewal ahead of it, and the key that encrypts *)
(* a member's cache is the one in that member's file, unless two calls for it overlapped.  *)
CachesFollowMembers ==
  /\ STypeOK
  /\ part = "session" => Session!CacheFollowsCredential
  /\ part = "session" => Session!RenewalStaysArmed
  /\ part = "keys" => Keys!SequentialKeyIsStored

(* A notification is shown once, never of what was withdrawn, and judged only by a      *)
(* projection at least as new as its event.                                             *)
NotificationsAreCurrent ==
  /\ part = "notify" => Notify!NothingWithdrawnIsShown
  /\ part = "notify" => Notify!OncePerMessage
  /\ part = "notify" => Notify!ProjectionIsCurrent

(* What the member turned off is off at once and what is on is durable, a start waits for  *)
(* the system's answer and the panel at rest shows the state acted on; the native          *)
(* appearance, the scheme and the file follow the member's design over failures, and       *)
(* patches of different fields do not undo each other.                                   *)
ChoicesHold ==
  /\ part = "settings" => Settings!ExpansionIsDurable
  /\ part = "settings" => Settings!HeldUntilKnown
  /\ part = "settings" => Settings!PanelAgrees
  /\ part = "prefs" => Preferences!AppearanceFollows
  /\ part = "prefs" => Preferences!PatchesCompose

(* What the encrypted replica shows is what the log says at its cursor, each event is      *)
(* counted once, and nothing of a lost membership comes back, over crashes, resyncs and    *)
(* events that arrive twice or after the page that held them.                            *)
ReplicaIsExact ==
  /\ part = "replica" => LoadedIsExact
  /\ part = "replica" => CountedOnce
  /\ part = "replica" => RevokedIsPurged

(* A credential the server would accept is given up only by the member, and no member's  *)
(* call destroys another member's key.                                                  *)
NothingIsTakenBack == 
  [][/\ part = "session" => Session!CredentialKept
     /\ part = "keys" => Keys!ForeignKeysKept]_SVars

=============================================================================
