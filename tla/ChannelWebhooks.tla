-------------------------- MODULE ChannelWebhooks ---------------------------
(* A channel's incoming webhook: the bot and the credential its URL carries, managed by the *)
(* channel's members and by the operator's bot command, while posts arrive                 *)
(* (bots/service.ts, bots/cli.ts, webhooks/routes.ts, the bot's part of sendMessage).      *)
(* Statements lock rows and hold them to the transaction's end.  An UPDATE finds its rows   *)
(* when it starts; those it waits for are looked at again, new ones are not seen.          *)
EXTENDS Naturals, FiniteSets

CONSTANTS Sessions, MaxCredentials, MaxMembers, MaxTime, TTL, MaxStarts, MaxPosts, WindowPosts

VARIABLES
  time, bot,     \* the bot's membership: "none" before it exists
  hook,          \* channel_webhooks: [current, disabled]
  credentials,   \* bot_credentials: [status, expires, writes]
  others,        \* active members other than the bot
  manages,       \* the managing member still may
  archived, work,
  posts,         \* history: what held when a post committed
  silenced,      \* history: credentials a rotation or a disabling reported as replaced
  replaced,      \* history: whether a rotation left an earlier credential alive
  attempts, starts

hookVars == <<time, bot, hook, credentials, others, manages, archived, work, posts, silenced, replaced,
              attempts, starts>>

Credentials == 1..MaxCredentials
NoWork == [kind |-> "none", pc |-> "none", cred |-> 0, found |-> {}, active |-> FALSE, held |-> {},
           shared |-> {}]
Rows == {"conversation", "hook", "workspace", "bot"}
CredRows == {10 + c : c \in Credentials}
Channels == {"enable", "rotate", "disable"}
Commands == {"cli_rotate", "cli_revoke", "cli_grant", "cli_create"}

TypeOK ==
  /\ time \in 0..MaxTime /\ bot \in {"none", "active", "revoked"} /\ manages \in BOOLEAN /\ archived \in BOOLEAN
  /\ hook \in [current : {0} \cup Credentials, disabled : BOOLEAN]
  /\ credentials \in [Credentials -> [status : {"none", "live", "revoked"}, expires : 0..MaxTime + TTL,
                                       writes : BOOLEAN]]
  /\ others \in 0..MaxMembers /\ starts \in 0..MaxStarts
  /\ work \in [Sessions -> [kind : Channels \cup Commands \cup {"none", "post", "archive"},
       pc : {"none", "channel", "hook", "capacity", "find", "revoke", "commit", "workspace", "bot", "auth",
             "resolve", "member", "credential"},
       cred : {0} \cup Credentials, found : SUBSET Credentials, active : BOOLEAN, held : SUBSET Rows,
       shared : SUBSET Credentials]]
  /\ posts \subseteq [current : BOOLEAN, live : BOOLEAN, silenced : BOOLEAN, open : BOOLEAN]
  /\ silenced \subseteq Credentials /\ replaced \in BOOLEAN /\ attempts \in [Credentials -> 0..WindowPosts + 1]

Init ==
  /\ time = 0 /\ bot = "none" /\ hook = [current |-> 0, disabled |-> FALSE] /\ others = 1
  /\ credentials = [c \in Credentials |-> [status |-> "none", expires |-> 0, writes |-> FALSE]]
  /\ manages = TRUE /\ archived = FALSE /\ work = [s \in Sessions |-> NoWork] /\ posts = {}
  /\ silenced = {} /\ replaced = FALSE /\ attempts = [c \in Credentials |-> 0] /\ starts = 0

Takes(s, rows) == \A o \in Sessions \ {s} : work[o].held \cap rows = {}
\* a credential's row is held by a revocation that found it alive, and shared by a delivery
Revoking(s, c) == work[s].pc = "commit" /\ c \in work[s].found
RowFree(s, c) == \A o \in Sessions \ {s} : ~Revoking(o, c) /\ c \notin work[o].shared
Readable(s, c) == \A o \in Sessions \ {s} : ~Revoking(o, c)
Goes(s, w) == work' = [work EXCEPT ![s] = w]
Moves(s, pc, rows) == Goes(s, [work[s] EXCEPT !.pc = pc, !.held = @ \cup rows])
Ends(s) == Goes(s, NoWork)
Data == <<bot, hook, credentials, others, manages, archived, posts, silenced, replaced, attempts>>
Only == UNCHANGED <<Data, time, starts>>
Live(c) == credentials[c].status = "live"
Valid(c) == Live(c) /\ credentials[c].expires > time
CredentialActive == hook.current # 0 /\ ~hook.disabled /\ bot = "active" /\ Valid(hook.current)
                    /\ credentials[hook.current].writes
Members == others + (IF bot = "active" THEN 1 ELSE 0)
Unissued == {c \in Credentials : credentials[c].status = "none"
               /\ \A s \in Sessions : work[s].cred # c}

Starts(s, kind, pc, cred) ==
  /\ work[s] = NoWork /\ starts < MaxStarts /\ starts' = starts + 1
  /\ Goes(s, [NoWork EXCEPT !.kind = kind, !.pc = pc, !.cred = cred]) /\ UNCHANGED <<Data, time>>

ChannelRequest(s, kind) == Starts(s, kind, "channel", 0)
Command(s, kind) == Starts(s, kind, "workspace", 0)
IncomingPost(s, c) == credentials[c].status # "none" /\ Starts(s, "post", "auth", c)

\* the channel's row, whose manager, mode and archive are read under it
requireManageableWebhookChannel(s) ==
  LET w == work[s] IN
  /\ w.kind \in Channels \cup {"archive"} /\ w.pc = "channel" /\ Takes(s, {"conversation"})
  /\ IF ~manages \/ (archived /\ w.kind # "disable") THEN Ends(s)
     ELSE Moves(s, IF w.kind = "archive" THEN "commit" ELSE "hook", {"conversation"})
  /\ Only

channelWebhook(s) ==
  LET w == work[s]
      next == IF w.kind = "enable" /\ bot # "active" THEN "capacity" ELSE "find" IN
  /\ w.pc = "hook" /\ Takes(s, {"hook"})
  /\ IF \/ w.kind = "enable" /\ CredentialActive
        \/ w.kind = "rotate" /\ (bot = "none" \/ ~CredentialActive)
        \/ w.kind = "disable" /\ bot = "none"
     THEN Ends(s) ELSE Moves(s, next, {"hook"})
  /\ Only

requireMemberCapacity(s) ==
  /\ work[s].pc = "capacity" /\ Takes(s, {"workspace"})
  /\ IF Members >= MaxMembers THEN Ends(s) ELSE Moves(s, "find", {"workspace"})
  /\ Only

\* the bot command: an owner's workspace, then the bot's row while its membership is active
requireOwner(s) ==
  LET w == work[s] IN
  /\ w.kind \in Commands /\ w.pc = "workspace" /\ Takes(s, {"workspace"})
  /\ IF w.kind = "cli_create" /\ Members >= MaxMembers THEN Ends(s)
     ELSE Moves(s, IF w.kind = "cli_create" THEN "commit" ELSE "bot", {"workspace"})
  /\ Only

requireBot(s) ==
  LET w == work[s] IN
  /\ w.pc = "bot" /\ Takes(s, {"bot"})
  /\ IF bot # "active" THEN Ends(s)
     ELSE Moves(s, IF w.kind = "cli_grant" THEN "commit" ELSE "find", {"bot"})
  /\ Only

\* the UPDATE's rows when it starts, and what is left of them when it has their locks
FindCredentials(s) ==
  /\ work[s].pc = "find"
  /\ Goes(s, [work[s] EXCEPT !.pc = "revoke", !.found = {c \in Credentials : Live(c)}]) /\ Only
revokeBotCredentials(s) ==
  LET w == work[s] IN
  /\ w.pc = "revoke" /\ \A c \in w.found : RowFree(s, c)
  /\ IF w.kind \in {"enable", "rotate", "cli_rotate"}
     THEN \E c \in Unissued : /\ \A o \in Unissued : c <= o
                              /\ Goes(s, [w EXCEPT !.pc = "commit", !.found = {f \in @ : Live(f)}, !.cred = c])
     ELSE Goes(s, [w EXCEPT !.pc = "commit", !.found = {f \in @ : Live(f)}])
  /\ Only

\* everything the transaction wrote becomes visible
insertCredential(w, writes) ==
  [c \in Credentials |->
    IF c = w.cred THEN [status |-> "live", expires |-> time + TTL, writes |-> writes]
    ELSE IF c \in w.found THEN [credentials[c] EXCEPT !.status = "revoked"] ELSE credentials[c]]
Leaves(w) == \E c \in Credentials \ (w.found \cup {w.cred}) : Live(c)

CommitChannel(s) ==
  LET w == work[s] IN
  /\ w.kind \in Channels /\ w.pc = "commit" /\ Ends(s)
  /\ bot' = IF w.kind = "disable" THEN "revoked" ELSE "active"
  /\ hook' = [current |-> w.cred, disabled |-> w.kind = "disable"]
  /\ credentials' = insertCredential(w, TRUE)
  /\ silenced' = silenced \cup w.found
                 \cup (IF hook.current # 0 /\ hook.current # w.cred THEN {hook.current} ELSE {})
  /\ replaced' = (replaced \/ (w.kind = "rotate" /\ Leaves(w)))
  /\ UNCHANGED <<others, manages, archived, posts, attempts, time, starts>>

CommitCommand(s) ==
  LET w == work[s] IN
  /\ w.kind \in Commands /\ w.pc = "commit" /\ Ends(s)
  /\ others' = IF w.kind = "cli_create" THEN others + 1 ELSE others
  /\ \E writes \in BOOLEAN : credentials' = insertCredential(w, writes)
  /\ silenced' = silenced \cup w.found
  /\ replaced' = (replaced \/ (w.kind = "cli_rotate" /\ Leaves(w)))
  /\ UNCHANGED <<bot, hook, manages, archived, posts, attempts, time, starts>>

CommitArchive(s) ==
  /\ work[s].kind = "archive" /\ work[s].pc = "commit" /\ Ends(s) /\ archived' = TRUE
  /\ UNCHANGED <<bot, hook, credentials, others, manages, posts, silenced, replaced, attempts, time, starts>>

\* a post: the credential, then the channel it is bound to, then the window, then delivery
authenticate(s) ==
  LET w == work[s] IN
  /\ w.kind = "post" /\ w.pc = "auth" /\ RowFree(s, w.cred)
  /\ IF Valid(w.cred) /\ bot = "active" /\ credentials[w.cred].writes THEN Moves(s, "resolve", {})
     ELSE Ends(s)
  /\ Only
authenticateChannelWebhook(s) ==
  LET w == work[s] IN
  /\ w.pc = "resolve"
  /\ IF hook.current = w.cred /\ ~hook.disabled /\ Valid(w.cred)
     THEN /\ attempts' = [attempts EXCEPT ![w.cred] = IF @ <= WindowPosts THEN @ + 1 ELSE @]
          /\ IF attempts[w.cred] >= WindowPosts THEN Ends(s) ELSE Moves(s, "channel", {})
     ELSE Ends(s) /\ UNCHANGED attempts
  /\ UNCHANGED <<bot, hook, credentials, others, manages, archived, posts, silenced, replaced, time, starts>>
LockConversation(s) ==
  /\ work[s].kind = "post" /\ work[s].pc = "channel" /\ Takes(s, {"conversation"})
  /\ Moves(s, "member", {"conversation"}) /\ Only
ShareMembership(s) ==
  /\ work[s].pc = "member" /\ (IF bot = "active" THEN Moves(s, "credential", {}) ELSE Ends(s)) /\ Only
\* FOR SHARE of the credential and the webhook that still carries it
\* mutant: the delivery trusts what the route resolved
TrustsTheRoute(s) ==
  /\ work[s].pc = "credential" /\ Takes(s, {"hook"}) /\ Readable(s, work[s].cred)
  /\ Goes(s, [work[s] EXCEPT !.pc = "commit", !.shared = {work[s].cred}]) /\ Only
ShareCredential(s) ==
  LET w == work[s] IN
  /\ w.pc = "credential" /\ Takes(s, {"hook"}) /\ Readable(s, w.cred)
  /\ IF Valid(w.cred) /\ credentials[w.cred].writes /\ hook.current = w.cred /\ ~hook.disabled /\ ~archived
     THEN Goes(s, [w EXCEPT !.pc = "commit", !.shared = {w.cred}]) ELSE Ends(s)
  /\ Only
CommitPost(s) ==
  LET w == work[s] IN
  /\ w.kind = "post" /\ w.pc = "commit" /\ Takes(s, {"workspace"}) /\ Cardinality(posts) < MaxPosts /\ Ends(s)
  /\ posts' = posts \cup {[current |-> hook.current = w.cred /\ ~hook.disabled, live |-> Live(w.cred),
                           silenced |-> w.cred \in silenced, open |-> ~archived]}
  /\ UNCHANGED <<bot, hook, credentials, others, manages, archived, silenced, replaced, attempts, time, starts>>

\* any of several that wait for each other is aborted; nothing here runs again by itself
Aborted(s) ==
  /\ work[s].pc \in {"hook", "capacity", "workspace", "bot", "revoke", "credential", "commit"}
  /\ \E o \in Sessions \ {s} : work[o].kind # "none"
  /\ work[s].kind # "post" /\ Ends(s) /\ Only
PostFails(s) == work[s].kind = "post" /\ work[s].pc = "commit" /\ ~Takes(s, {"workspace"}) /\ Ends(s) /\ Only
ManagerLeaves == manages /\ manages' = FALSE
  /\ UNCHANGED <<bot, hook, credentials, others, archived, work, posts, silenced, replaced, attempts, time, starts>>
TimePasses ==
  /\ time < MaxTime /\ time' = time + 1 /\ attempts' = [c \in Credentials |-> 0]
  /\ UNCHANGED <<bot, hook, credentials, others, manages, archived, work, posts, silenced, replaced, starts>>

Next ==
  \/ \E s \in Sessions :
       \/ \E k \in Channels \cup {"archive"} : ChannelRequest(s, k)
       \/ \E k \in Commands : Command(s, k)
       \/ \E c \in Credentials : IncomingPost(s, c)
       \/ requireManageableWebhookChannel(s) \/ channelWebhook(s) \/ requireMemberCapacity(s) \/ requireOwner(s)
       \/ requireBot(s) \/ FindCredentials(s) \/ revokeBotCredentials(s) \/ CommitChannel(s) \/ CommitCommand(s)
       \/ CommitArchive(s) \/ authenticate(s) \/ authenticateChannelWebhook(s) \/ LockConversation(s)
       \/ ShareMembership(s) \/ ShareCredential(s) \/ CommitPost(s) \/ Aborted(s) \/ PostFails(s)
  \/ ManagerLeaves \/ TimePasses

Spec == Init /\ [][Next]_hookVars

-----------------------------------------------------------------------------
(* A message a webhook posts commits only while its channel is open, the webhook enabled    *)
(* and the credential its current, unrevoked one; once a rotation or a disabling was         *)
(* answered, the URL it replaced posts nothing, however long the post was under way.        *)
PostsAreCurrent == \A p \in posts : p.current /\ p.live /\ p.open /\ ~p.silenced

(* What the rows say together: a disabled webhook has no credential and no member, an       *)
(* enabled one carries a credential that was issued, and the workspace never outgrows its    *)
(* capacity through bots.                                                                 *)
WebhookHolds ==
  /\ (hook.disabled => hook.current = 0 /\ bot = "revoked")
  /\ (hook.current # 0 => bot = "active" /\ credentials[hook.current].status # "none"
                          /\ credentials[hook.current].writes)
  /\ Members <= MaxMembers

(* docs/bot-tasks.md:43: "Rotation atomically revokes every prior credential for that bot   *)
(* and prints one replacement": what is alive when a rotation commits is the replacement.   *)
RotationRevokesPrior == ~replaced
=============================================================================
