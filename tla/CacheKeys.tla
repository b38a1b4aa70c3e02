----------------------------- MODULE CacheKeys -----------------------------
(* The data keys of the local cache (main/cache-crypto.ts): one protected key file *)
(* per member, an older global file that is adopted by the member it belongs to,    *)
(* and the key held in memory.  Initialisations and resets come over IPC from the   *)
(* renderer and overlap: each of them awaits the disk between what it reads and     *)
(* what it does with it.                                                            *)
EXTENDS Naturals, FiniteSets

CONSTANTS Scopes, Callers, None,
          MaxKey    \* keys generated in a behaviour

VARIABLES
  files,    \* scope -> what its key file holds: [scope, key], "corrupt" or None
  legacy,   \* the global key file of older builds, likewise
  memory,   \* [scope, key, owns]: #scope, #dataKey (0 when null) and #ownsStoredKey
  keys,     \* keys generated so far
  calls,    \* caller -> the IPC call it runs: [pc, scope, key]
  overlapped \* history: two calls for one scope overlapped

vars == <<files, legacy, memory, keys, calls, overlapped>>

Idle == [pc |-> "idle", scope |-> None, key |-> 0]
NoMemory == [scope |-> None, key |-> 0, owns |-> FALSE]
FileOf(s, k) == [kind |-> "key", scope |-> s, key |-> k]
NoFile == [kind |-> "none", scope |-> None, key |-> 0]
Corrupt == [kind |-> "corrupt", scope |-> None, key |-> 0]
Contents == [kind : {"key", "none", "corrupt"}, scope : Scopes \cup {None}, key : 0..MaxKey]

TypeOK ==
  /\ files \in [Scopes -> Contents] /\ legacy \in Contents
  /\ memory \in [scope : Scopes \cup {None}, key : 0..MaxKey, owns : BOOLEAN]
  /\ keys \in 0..MaxKey /\ overlapped \in BOOLEAN
  /\ calls \in [Callers -> [pc : {"idle", "load", "legacy", "moved", "save", "adopt", "remove"},
                            scope : Scopes \cup {None}, key : 0..MaxKey]]

\* a fresh device, one upgraded from the single key file, and one whose file is damaged or
\* holds another member's key
Init ==
  /\ \/ files = [s \in Scopes |-> NoFile] /\ legacy = NoFile /\ keys = 0
     \/ /\ files = [s \in Scopes |-> NoFile] /\ keys = 1
        /\ \E s \in Scopes : legacy = FileOf(s, 1)
     \/ /\ \E s, t \in Scopes : files = [x \in Scopes |-> IF x = s THEN FileOf(t, 1) ELSE NoFile]
        /\ legacy = NoFile /\ keys = 1
     \/ /\ \E s \in Scopes : files = [x \in Scopes |-> IF x = s THEN Corrupt ELSE NoFile]
        /\ legacy = Corrupt /\ keys = 0
  /\ memory = NoMemory /\ calls = [c \in Callers |-> Idle] /\ overlapped = FALSE

Overlaps(s) == \E c \in Callers : calls[c].pc # "idle" /\ calls[c].scope = s
Goto(c, pc) == calls' = [calls EXCEPT ![c].pc = pc]

\* the session authorizes the scope before the call starts
Begin(c, s) ==
  /\ calls[c] = Idle
  /\ \/ /\ calls' = [calls EXCEPT ![c] = [pc |-> "load", scope |-> s, key |-> 0]]   \* initialize
        /\ UNCHANGED memory
     \/ /\ memory.scope = s            \* reset: clear drops the memory before it awaits
        /\ memory' = NoMemory
        /\ calls' = [calls EXCEPT ![c] = [pc |-> IF memory.owns THEN "remove" ELSE "idle",
                                          scope |-> IF memory.owns THEN s ELSE None, key |-> 0]]
  /\ overlapped' = (overlapped \/ Overlaps(s))
  /\ UNCHANGED <<files, legacy, keys>>

MemoryOnly(s) == memory' = [scope |-> s, key |-> 0, owns |-> FALSE]

\* #adopt
Adopt(s, k) == memory' = [scope |-> s, key |-> k, owns |-> TRUE]

\* no protected storage: nothing on disk is read or written
Unprotected(c) ==
  /\ calls[c].pc = "load"
  /\ MemoryOnly(calls[c].scope)
  /\ calls' = [calls EXCEPT ![c] = Idle]
  /\ UNCHANGED <<files, legacy, keys, overlapped>>

\* the scope's own file is used, a damaged one discarded, another member's left alone
Load(c) ==
  /\ calls[c].pc = "load"
  /\ LET s == calls[c].scope  f == files[s] IN
       \/ /\ f.kind = "key" /\ f.scope = s
          /\ Adopt(s, f.key) /\ calls' = [calls EXCEPT ![c] = Idle] /\ UNCHANGED files
       \/ /\ f.kind = "key" /\ f.scope # s
          /\ MemoryOnly(s) /\ calls' = [calls EXCEPT ![c] = Idle] /\ UNCHANGED files
       \/ /\ f.kind = "corrupt"
          /\ files' = [files EXCEPT ![s] = NoFile]
          /\ MemoryOnly(s) /\ calls' = [calls EXCEPT ![c] = Idle]
       \/ /\ f.kind = "none" /\ Goto(c, "legacy") /\ UNCHANGED <<files, memory>>
  /\ UNCHANGED <<legacy, keys, overlapped>>

\* #adoptLegacyKey moves the global file's key when it is this scope's; else a new key is made
Migrate(c) ==
  /\ calls[c].pc = "legacy"
  /\ LET s == calls[c].scope IN
       \/ /\ legacy.kind = "key" /\ legacy.scope = s
          /\ files' = [files EXCEPT ![s] = FileOf(s, legacy.key)]
          /\ calls' = [calls EXCEPT ![c].pc = "moved", ![c].key = legacy.key]
          /\ UNCHANGED keys
       \/ /\ legacy.kind # "key" \/ legacy.scope # s
          /\ keys < MaxKey /\ keys' = keys + 1
          /\ calls' = [calls EXCEPT ![c].pc = "save", ![c].key = keys + 1]
          /\ UNCHANGED files
  /\ UNCHANGED <<legacy, memory, overlapped>>

RemoveLegacy(c) ==
  /\ calls[c].pc = "moved"
  /\ legacy' \in {NoFile, legacy}
  /\ Goto(c, "adopt")
  /\ UNCHANGED <<files, memory, keys, overlapped>>

SaveUnchecked(c) ==
  /\ calls[c].pc = "save"
  /\ files' \in {files, [files EXCEPT ![calls[c].scope] = FileOf(calls[c].scope, calls[c].key)]}
  /\ Goto(c, "adopt")
  /\ UNCHANGED <<legacy, memory, keys, overlapped>>

\* #saveKey: the write is atomic, and a failed one fails the call
Save(c) ==
  /\ calls[c].pc = "save"
  /\ \/ /\ files' = [files EXCEPT ![calls[c].scope] = FileOf(calls[c].scope, calls[c].key)]
        /\ Goto(c, "adopt")
     \/ UNCHANGED files /\ calls' = [calls EXCEPT ![c] = Idle]
  /\ UNCHANGED <<legacy, memory, keys, overlapped>>

AdoptSaved(c) ==
  /\ calls[c].pc = "adopt"
  /\ Adopt(calls[c].scope, calls[c].key)
  /\ calls' = [calls EXCEPT ![c] = Idle]
  /\ UNCHANGED <<files, legacy, keys, overlapped>>

\* clear unlinks only a file this instance established as its own
Remove(c) ==
  /\ calls[c].pc = "remove"
  /\ files' = [files EXCEPT ![calls[c].scope] = NoFile]
  /\ calls' = [calls EXCEPT ![c] = Idle]
  /\ UNCHANGED <<legacy, memory, keys, overlapped>>

Restart ==
  /\ memory' = NoMemory /\ calls' = [c \in Callers |-> Idle]
  /\ UNCHANGED <<files, legacy, keys, overlapped>>

Next ==
  \/ \E c \in Callers, s \in Scopes : Begin(c, s)
  \/ \E c \in Callers : Unprotected(c) \/ Load(c) \/ Migrate(c) \/ RemoveLegacy(c)
                        \/ Save(c) \/ AdoptSaved(c) \/ Remove(c)
  \/ Restart

Spec == Init /\ [][Next]_vars

---------------------------------------------------------------------------
(* A key that rows are encrypted with is the one the next start will read: while   *)
(* no call is in flight, the key held for a scope as persistent is the one in that  *)
(* scope's file ("every caller has just proven the file at this scope's key path    *)
(* holds this scope's key", cache-crypto.ts:342-345).                              *)
MemoryKeyIsStored ==
  (memory.key # 0 /\ \A c \in Callers : calls[c] = Idle) =>
    files[memory.scope] = FileOf(memory.scope, memory.key)

(* The same when no two calls for one scope overlap.                               *)
SequentialKeyIsStored == overlapped \/ MemoryKeyIsStored

(* No member's call destroys another member's key: a file that holds the key of a   *)
(* scope is removed or replaced only by that scope's own reset, and the global file  *)
(* goes only once its key is in its owner's file.                                   *)
ForeignKeysKept ==
      /\ \A s \in Scopes : (files[s].kind = "key" /\ files'[s] # files[s]) =>
           files[s].scope = s /\ (overlapped \/ \E c \in Callers :
             calls[c].scope = s /\ calls[c].pc = "remove")
      /\ legacy'.kind = "none" /\ legacy.kind = "key" =>
           overlapped \/ files[legacy.scope] = FileOf(legacy.scope, legacy.key)
KeepsForeignKeys == [][ForeignKeysKept]_vars
=============================================================================
