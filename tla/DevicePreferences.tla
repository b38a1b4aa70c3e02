-------------------------- MODULE DevicePreferences --------------------------
(* The desktop's appearance and device preferences. The theme controller sets the       *)
(* native appearance before it saves a design and restores it when saving fails, and it *)
(* borrows the native setting to ask for the system's scheme; a persisted preference    *)
(* merges patches inside its queue of writes.                                           *)
(* Code: theme-controller.ts, theme-preference-store.ts, persisted-preference.ts,       *)
(* device-preferences-controller.ts and compact-mode-controller.ts in                   *)
(* apps/desktop/src/main.                                                               *)
EXTENDS Integers, Sequences

CONSTANTS
  Fields,      \* fields of the device preferences
  MaxDesigns,  \* bound: designs set and system schemes asked for
  MaxPatches,  \* bound: patches of the device preferences
  MaxFlips,    \* bound: changes of the system's scheme
  MaxFaults    \* bound: failed writes and failed native calls

VARIABLES
  scheme0,  \* the system's scheme
  source,   \* nativeTheme.themeSource
  design,   \* the controller's state: [preference, accent]
  scheme,   \* ... and the scheme it resolved
  saved,    \* the design on disk
  themeQ,   \* #setTail: designs and system reads, oldest first
  saving,   \* a design is being saved
  muted,    \* #suppressNativeUpdates
  astray,   \* a restoration of the native appearance failed
  values,   \* the persisted preference's state
  onDisk,   \* ... and its file
  patchQ,   \* #writeTail: patches, oldest first
  wrote,    \* the first patch is on disk
  kept,     \* history: the last patch of each field that was accepted
  designs, patches, flips, losses

vars == <<scheme0, source, design, scheme, saved, themeQ, saving, muted, astray, values, onDisk,
          patchQ, wrote, kept, designs, patches, flips, losses>>
themeVars == <<scheme0, source, design, scheme, saved, themeQ, saving, muted, astray, designs, flips>>
patchVars == <<values, onDisk, patchQ, wrote, kept, patches>>

Schemes == {"light", "dark"}
Preferences == Schemes \cup {"system"}
Designs == [preference : Preferences, accent : 0..1]
SystemRead == [preference |-> "read", accent |-> 0]

TypeOK ==
  /\ {scheme0, scheme} \subseteq Schemes /\ source \in Preferences
  /\ {design, saved} \subseteq Designs /\ themeQ \in Seq(Designs \cup {SystemRead})
  /\ {values, onDisk, kept} \subseteq [Fields -> 0..1]
  /\ patchQ \in Seq([field : Fields, value : 0..1])

Init ==
  /\ scheme0 \in Schemes /\ design \in Designs /\ saved = design
  /\ source = design.preference
  /\ scheme = IF design.preference = "system" THEN scheme0 ELSE design.preference
  /\ themeQ = <<>> /\ saving = FALSE /\ muted = FALSE /\ astray = FALSE
  /\ values = [f \in Fields |-> 0] /\ onDisk = values /\ kept = values
  /\ patchQ = <<>> /\ wrote = FALSE
  /\ designs = 0 /\ patches = 0 /\ flips = 0 /\ losses = 0

(* canonicalThemeState: under "system" the scheme is whatever the native setting shows. *)
Shown(native) == IF native = "system" THEN scheme0 ELSE native
Resolved(d, native) == IF d.preference = "system" THEN Shown(native) ELSE d.preference

-----------------------------------------------------------------------------
SetDesign ==
  /\ designs < MaxDesigns /\ designs' = designs + 1
  /\ \E d \in Designs \cup {SystemRead} : themeQ' = Append(themeQ, d)
  /\ UNCHANGED <<scheme0, source, design, scheme, saved, saving, muted, astray, flips, losses,
                 patchVars>>

Front == Head(themeQ)
Mine == themeQ # <<>> /\ ~saving
NewPreference == Front.preference # design.preference

SameDesign ==
  /\ Mine /\ Front = design /\ themeQ' = Tail(themeQ)
  /\ UNCHANGED <<scheme0, source, design, scheme, saved, saving, muted, astray, designs, flips,
                 losses, patchVars>>

(* setDesign: the native appearance first, deaf to its own change, then the file.       *)
StartDesign ==
  /\ Mine /\ Front \in Designs /\ Front # design
  /\ saving' = TRUE
  /\ source' = IF NewPreference THEN Front.preference ELSE source
  /\ muted' = NewPreference
  /\ UNCHANGED <<scheme0, design, scheme, saved, themeQ, astray, designs, flips, losses, patchVars>>

SavedDesign ==
  /\ saving /\ saving' = FALSE /\ muted' = FALSE
  /\ saved' = Front /\ design' = Front /\ scheme' = Resolved(Front, source)
  /\ themeQ' = Tail(themeQ)
  /\ astray' = (astray /\ ~NewPreference)
  /\ UNCHANGED <<scheme0, source, designs, flips, losses, patchVars>>

(* Mutant: the native appearance is not restored.                                       *)
DesignFailsAsItIs ==
  /\ saving /\ losses < MaxFaults /\ losses' = losses + 1
  /\ saving' = FALSE /\ muted' = FALSE /\ themeQ' = Tail(themeQ)
  /\ UNCHANGED <<scheme0, source, design, scheme, saved, astray, designs, flips, patchVars>>

(* The write, or the native call before it, fails; so may the restoration.              *)
DesignFails ==
  /\ saving /\ losses < MaxFaults /\ losses' = losses + 1
  /\ saving' = FALSE /\ muted' = FALSE /\ themeQ' = Tail(themeQ)
  /\ IF NewPreference
     THEN /\ \/ source' = design.preference /\ astray' = FALSE
             \/ source' = source /\ astray' = TRUE
          /\ scheme' = IF design.preference = "system" THEN Resolved(design, source') ELSE scheme
     ELSE UNCHANGED <<source, scheme, astray>>
  /\ UNCHANGED <<scheme0, design, saved, designs, flips, patchVars>>

(* resolveSystemState: one synchronous loan of the native setting.                      *)
ReadSystem ==
  /\ Mine /\ Front = SystemRead /\ themeQ' = Tail(themeQ)
  /\ \/ /\ source' = IF design.preference = "system" THEN source ELSE design.preference
        /\ astray' = (astray /\ design.preference = "system")
        /\ UNCHANGED losses
     \/ /\ design.preference # "system" /\ losses < MaxFaults /\ losses' = losses + 1
        /\ source' = "system" /\ astray' = TRUE
  /\ UNCHANGED <<scheme0, design, scheme, saved, saving, muted, designs, flips, patchVars>>

(* The system changes its scheme; Electron says so unless an explicit one is set.       *)
SystemFlips ==
  /\ flips < MaxFlips /\ flips' = flips + 1
  /\ scheme0' \in Schemes \ {scheme0}
  /\ scheme' = IF source = "system" /\ ~muted /\ design.preference = "system" THEN scheme0'
               ELSE scheme
  /\ UNCHANGED <<source, design, saved, themeQ, saving, muted, astray, designs, losses, patchVars>>

-----------------------------------------------------------------------------
Update ==
  /\ patches < MaxPatches /\ patches' = patches + 1
  /\ \E f \in Fields, v \in 0..1 : patchQ' = Append(patchQ, [field |-> f, value |-> v])
  /\ UNCHANGED <<values, onDisk, wrote, kept, losses, themeVars>>

Patched == [values EXCEPT ![Head(patchQ).field] = Head(patchQ).value]

(* change: a patch is merged with what the one before it left, then written.            *)
WritePatch ==
  /\ patchQ # <<>> /\ ~wrote /\ wrote' = TRUE
  /\ onDisk' = Patched
  /\ UNCHANGED <<values, patchQ, kept, patches, losses, themeVars>>

AcceptPatch ==
  /\ patchQ # <<>> /\ wrote /\ wrote' = FALSE
  /\ values' = Patched /\ patchQ' = Tail(patchQ)
  /\ kept' = [kept EXCEPT ![Head(patchQ).field] = Head(patchQ).value]
  /\ UNCHANGED <<onDisk, patches, losses, themeVars>>

PatchFails ==
  /\ patchQ # <<>> /\ ~wrote /\ losses < MaxFaults /\ losses' = losses + 1
  /\ patchQ' = Tail(patchQ)
  /\ UNCHANGED <<values, onDisk, wrote, kept, patches, themeVars>>

-----------------------------------------------------------------------------
Next ==
  \/ SetDesign \/ SameDesign \/ StartDesign \/ SavedDesign \/ DesignFails \/ ReadSystem
  \/ SystemFlips \/ Update \/ WritePatch \/ AcceptPatch \/ PatchFails

Spec == Init /\ [][Next]_vars

-----------------------------------------------------------------------------
(* At rest the native appearance, the scheme on screen and the file agree with the      *)
(* member's design, whatever failed or changed on the way; only a restoration that      *)
(* itself failed leaves the native setting astray.                                      *)
AppearanceFollows ==
  ~saving => /\ saved = design
             /\ ~astray => source = design.preference
             /\ ~astray => scheme = Resolved(design, source)

(* An accepted patch of one field is not undone by a patch of another, and the file     *)
(* holds what the process shows.                                                        *)
PatchesCompose == values = kept /\ (~wrote => onDisk = values)
=============================================================================
