------------------------------ MODULE AiChannel ------------------------------
(* The desktop's AI channel: one controller that owns at most one agent process, its    *)
(* conversation, its prompt and its permission request, under lifecycle operations that *)
(* suspend at every call to the agent or the disk and may be superseded meanwhile.      *)
(* Code: apps/desktop/src/main/ai-channel-controller.ts and claude-acp-host.ts.         *)
(*                                                                                      *)
(* An operation's number is its place in the controller's count; the agent process and  *)
(* the host token of a start bear the number of that start. A conversation is a number, *)
(* 0 for none. Disposing an agent kills it at once, so it takes no step of its own.     *)
EXTENDS Integers, Sequences, FiniteSets

CONSTANTS
  Folders,    \* the workspace folders a member may choose
  NoFolder,   \* no folder is chosen
  MaxOps,     \* bound: lifecycle operations
  MaxChats,   \* bound: conversations the agents create
  MaxAsks     \* bound: permission requests

VARIABLES
  pref,        \* the preference in memory: folder and conversation
  disk,        \* the preference in its file
  writes,      \* saves waiting for the file, oldest first
  view,        \* what the renderer is shown
  host,        \* the agent the controller holds, 0 when none
  hostToken,   \* the agent whose callbacks are believed, 0 when none
  accepted,    \* the conversation whose events are believed, 0 when none
  prompt,      \* the turn that is running, NoTurn when none
  inflight,    \* turns whose promise has not settled
  question,     \* the permission request that waits for the member, 0 when none
  unanswered,  \* permission requests whose agent still waits
  asked,       \* permission requests made so far
  chats,       \* folder of each conversation, in order of creation
  workers,     \* each agent process: "none", "launching", "live" or "dead"
  ops,         \* the lifecycle operations, by number
  opCount,     \* how many have begun
  retirement,  \* the operation that is taking an agent down, 0 when none
  disposed     \* the controller is closed

vars == <<pref, disk, writes, view, host, hostToken, accepted, prompt, inflight, question,
          unanswered, asked, chats, workers, ops, opCount, retirement, disposed>>
turnVars == <<prompt, inflight>>
askVars == <<question, unanswered, asked>>
saveVars == <<pref, disk, writes>>

Ops == 1..MaxOps
Statuses == {"loading", "not-configured", "configured", "starting", "ready", "running",
             "error", "unavailable"}
NoTurn == [tok |-> 0, gen |-> 0, chat |-> 0]
NoPref == [folder |-> NoFolder, chat |-> 0]
Resting == [kind |-> "none", pc |-> "done", tok |-> 0, chat |-> 0, gen |-> 0,
            folder |-> NoFolder]

Prefs == [folder : Folders \cup {NoFolder}, chat : 0..MaxChats]
TypeOK ==
  /\ pref \in Prefs /\ disk \in Prefs
  /\ writes \in Seq([op : Ops, pref : Prefs])
  /\ view \in [gen : Nat \ {0}, status : Statuses, entries : SUBSET (1..MaxChats),
               asking : 0..MaxAsks]
  /\ {host, hostToken, retirement, opCount} \subseteq 0..MaxOps
  /\ accepted \in 0..MaxChats /\ question \in 0..MaxAsks
  /\ unanswered \subseteq 1..MaxAsks /\ asked \in 0..MaxAsks
  /\ chats \in Seq(Folders) /\ Len(chats) <= MaxChats
  /\ workers \in [Ops -> {"none", "launching", "live", "dead"}]
  /\ disposed \in BOOLEAN

ConfiguredStatus(p) == IF p.folder = NoFolder THEN "not-configured" ELSE "configured"

(* The file may already remember a folder and its conversation when the app starts.     *)
Init ==
  /\ \E f \in Folders \cup {NoFolder}, remembered \in 0..1 :
       /\ f = NoFolder => remembered = 0
       /\ chats = IF remembered = 1 THEN <<f>> ELSE <<>>
       /\ disk = [folder |-> f, chat |-> remembered]
  /\ pref = NoPref /\ writes = <<>>
  /\ view = [gen |-> 1, status |-> "loading", entries |-> {}, asking |-> 0]
  /\ host = 0 /\ hostToken = 0 /\ accepted = 0
  /\ prompt = NoTurn /\ inflight = {}
  /\ question = 0 /\ unanswered = {} /\ asked = 0
  /\ workers = [o \in Ops |-> "none"]
  /\ ops = [o \in Ops |-> Resting] /\ opCount = 0
  /\ retirement = 0 /\ disposed = FALSE

Current(o) == ~disposed /\ opCount = o
HasToken(t) == ~disposed /\ hostToken = t
Usable == ~disposed /\ view.status # "loading"

At(o, pc) == ops[o].pc = pc
GoesTo(o, pc) ==
  ops' = [ops EXCEPT ![o] = IF pc = "done" THEN Resting ELSE [@ EXCEPT !.pc = pc]]

(* A new operation supersedes the one before it, wherever that one is suspended.        *)
Begins(op) ==
  /\ opCount < MaxOps
  /\ opCount' = opCount + 1
  /\ ops' = [ops EXCEPT ![opCount + 1] = op]

(* The waiting permission request, if there is one, is answered with "cancelled".       *)
Settle == question' = 0 /\ unanswered' = unanswered \ {question} /\ UNCHANGED asked
Detach == host' = 0 /\ hostToken' = 0 /\ accepted' = 0 /\ prompt' = NoTurn

Kill(t) == workers' = [workers EXCEPT ![t] = "dead"]

-----------------------------------------------------------------------------
(* initialize: the preference is read from its file, or the read fails.                 *)
Initialize ==
  /\ ~disposed /\ view.status = "loading"
  /\ \/ pref' = disk /\ view' = [view EXCEPT !.status = ConfiguredStatus(disk)]
     \/ pref' = NoPref /\ view' = [view EXCEPT !.status = "unavailable"]
  /\ UNCHANGED <<disk, writes, host, hostToken, accepted, turnVars, askVars, chats, workers,
                 ops, opCount, retirement, disposed>>

(* JsonPreferenceFile.save: writes happen one after the other, in the order asked.      *)
SaveAsked(o, p) == writes' = Append(writes, [op |-> o, pref |-> p])

(* createClaudeAcpHost: a worker is forked and the protocol initialized.                *)
Launches(t) == workers' = [workers EXCEPT ![t] = "launching"]

(* failCurrentHost: the held agent is given up and disposed, and the member is told.    *)
FailHost ==
  /\ Detach /\ Settle
  /\ workers' = [t \in Ops |-> IF t = host THEN "dead" ELSE workers[t]]
  /\ view' = [view EXCEPT !.gen = @ + 1, !.status = "error", !.asking = 0]

-----------------------------------------------------------------------------
(* start: refused while busy; otherwise the previous agent's retirement is awaited.     *)
Start ==
  /\ Usable
  /\ view.status \notin {"running", "starting"}
  /\ ~(view.status = "ready" /\ host # 0 /\ accepted # 0)
  /\ pref.folder # NoFolder
  /\ Begins([Resting EXCEPT !.kind = "start", !.pc = "wait"])
  /\ view' = [view EXCEPT !.status = "starting", !.entries = {}]
  /\ UNCHANGED <<saveVars, host, hostToken, accepted, turnVars, askVars, chats, workers,
                 retirement, disposed>>

StartLaunches(o) ==
  /\ ops[o].kind = "start" /\ At(o, "wait") /\ retirement = 0
  /\ IF Current(o)
     THEN /\ ops' = [ops EXCEPT ![o].pc = "launch", ![o].tok = o]
          /\ hostToken' = o /\ accepted' = 0 /\ Launches(o)
     ELSE GoesTo(o, "done") /\ UNCHANGED <<hostToken, accepted, workers>>
  /\ UNCHANGED <<saveVars, view, host, turnVars, askVars, chats, opCount, retirement,
                 disposed>>

(* Mutant: the agent is adopted although its start was superseded.                      *)
AgentUpUnchecked(o) ==
  /\ At(o, "launch") /\ workers[o] \in {"launching", "dead"}
  /\ host' = o /\ accepted' = pref.chat
  /\ workers' = [workers EXCEPT ![o] = IF @ = "launching" THEN "live" ELSE @]
  /\ ops' = [ops EXCEPT ![o].folder = pref.folder, ![o].chat = pref.chat,
                        ![o].pc = IF pref.chat # 0 THEN "resume" ELSE "create"]
  /\ UNCHANGED <<saveVars, view, hostToken, turnVars, askVars, chats, opCount, retirement,
                 disposed>>

(* The agent is up: it is adopted, unless the start was superseded meanwhile.           *)
AgentUp(o) ==
  /\ At(o, "launch") /\ workers[o] \in {"launching", "dead"}
  /\ IF Current(o) /\ HasToken(o)
     THEN /\ host' = o /\ accepted' = pref.chat
          /\ workers' = [workers EXCEPT ![o] = IF @ = "launching" THEN "live" ELSE @]
          /\ ops' = [ops EXCEPT ![o].folder = pref.folder, ![o].chat = pref.chat,
                                ![o].pc = IF pref.chat # 0 THEN "resume" ELSE "create"]
     ELSE GoesTo(o, "done") /\ Kill(o) /\ UNCHANGED <<host, accepted>>
  /\ UNCHANGED <<saveVars, view, hostToken, turnVars, askVars, chats, opCount, retirement,
                 disposed>>
(* Mutant: a failed launch is not reported.                                             *)
AgentMissingQuietly(o) ==
  /\ At(o, "launch") /\ GoesTo(o, "done") /\ Kill(o)
  /\ hostToken' = IF HasToken(o) THEN 0 ELSE hostToken
  /\ UNCHANGED <<saveVars, view, host, accepted, turnVars, askVars, chats, opCount, retirement,
                 disposed>>

AgentMissing(o) ==
  /\ At(o, "launch") /\ GoesTo(o, "done") /\ Kill(o)
  /\ IF Current(o) /\ HasToken(o)
     THEN hostToken' = 0 /\ view' = [view EXCEPT !.status = "unavailable"]
     ELSE UNCHANGED <<hostToken, view>>
  /\ UNCHANGED <<saveVars, host, accepted, turnVars, askVars, chats, opCount, retirement,
                 disposed>>

(* A call to the agent failed: its operation, while it holds the agent, gives it up.    *)
CallFails(o) ==
  /\ At(o, "resume") \/ At(o, "close") \/ At(o, "create")
  /\ GoesTo(o, "done")
  /\ IF Current(o) /\ HasToken(ops[o].tok)
     THEN FailHost
     ELSE UNCHANGED <<view, host, hostToken, accepted, prompt, askVars, workers>>
  /\ UNCHANGED <<saveVars, inflight, chats, opCount, retirement, disposed>>

(* loadOrCreateSession: the remembered conversation is resumed, and its history comes   *)
(* back as events; when the agent does not know it, a new one is created.               *)
Resumed(o) ==
  /\ At(o, "resume") /\ workers[ops[o].tok] = "live"
  /\ IF HasToken(ops[o].tok)
     THEN GoesTo(o, "save") /\ SaveAsked(o, [folder |-> ops[o].folder, chat |-> ops[o].chat])
     ELSE GoesTo(o, "done") /\ UNCHANGED writes
  /\ UNCHANGED <<pref, disk, view, host, hostToken, accepted, turnVars, askVars, chats,
                 workers, opCount, retirement, disposed>>

ConversationMissing(o) ==
  /\ At(o, "resume")
  /\ IF HasToken(ops[o].tok)
     THEN GoesTo(o, "create") /\ accepted' = 0 /\ view' = [view EXCEPT !.entries = {}]
     ELSE GoesTo(o, "done") /\ UNCHANGED <<accepted, view>>
  /\ UNCHANGED <<saveVars, host, hostToken, turnVars, askVars, chats, workers, opCount,
                 retirement, disposed>>

Created(o) ==
  /\ At(o, "create") /\ workers[ops[o].tok] = "live" /\ Len(chats) < MaxChats
  /\ chats' = Append(chats, ops[o].folder)
  /\ IF HasToken(ops[o].tok)
     THEN /\ accepted' = Len(chats')
          /\ ops' = [ops EXCEPT ![o].pc = "save", ![o].chat = Len(chats')]
          /\ SaveAsked(o, [folder |-> ops[o].folder, chat |-> Len(chats')])
     ELSE GoesTo(o, "done") /\ UNCHANGED <<accepted, writes>>
  /\ UNCHANGED <<pref, disk, view, host, hostToken, turnVars, askVars, workers, opCount,
                 retirement, disposed>>

(* Mutant: the conversation that is being closed is still believed.                     *)
NewSessionBelieved ==
  /\ Usable /\ view.status = "ready" /\ host # 0 /\ accepted # 0
  /\ Begins([Resting EXCEPT !.kind = "new", !.pc = "close", !.tok = host,
                            !.folder = pref.folder])
  /\ Settle /\ prompt' = NoTurn
  /\ view' = [gen |-> view.gen + 1, status |-> "starting", entries |-> {}, asking |-> 0]
  /\ UNCHANGED <<saveVars, host, hostToken, accepted, inflight, chats, workers, retirement,
                 disposed>>

(* newSession: the conversation is closed and another one opened on the same agent.     *)
NewSession ==
  /\ Usable /\ view.status = "ready" /\ host # 0 /\ accepted # 0
  /\ Begins([Resting EXCEPT !.kind = "new", !.pc = "close", !.tok = host,
                            !.folder = pref.folder])
  /\ Settle /\ prompt' = NoTurn /\ accepted' = 0
  /\ view' = [gen |-> view.gen + 1, status |-> "starting", entries |-> {}, asking |-> 0]
  /\ UNCHANGED <<saveVars, host, hostToken, inflight, chats, workers, retirement, disposed>>

Closed(o) ==
  /\ ops[o].kind = "new" /\ At(o, "close") /\ workers[ops[o].tok] = "live"
  /\ GoesTo(o, IF HasToken(ops[o].tok) THEN "create" ELSE "done")
  /\ UNCHANGED <<saveVars, view, host, hostToken, accepted, turnVars, askVars, chats,
                 workers, opCount, retirement, disposed>>

(* The oldest save reaches the file or fails, and its operation goes on.                *)
Write ==
  /\ writes # <<>>
  /\ LET w == Head(writes)
         o == w.op
         held == HasToken(ops[o].tok)
     IN /\ writes' = Tail(writes) /\ GoesTo(o, "done")
        /\ \/ /\ disk' = w.pref
              /\ IF ops[o].kind = "choose"
                 THEN /\ pref' = IF Current(o) THEN w.pref ELSE pref
                      /\ view' = IF Current(o)
                                 THEN [gen |-> ops[o].gen, status |-> "configured",
                                       entries |-> {}, asking |-> 0]
                                 ELSE view
                 ELSE /\ pref' = IF held THEN w.pref ELSE pref
                      /\ view' = IF held /\ Current(o)
                                 THEN [view EXCEPT !.status = "ready"]
                                 ELSE view
              /\ UNCHANGED <<host, hostToken, accepted, prompt, askVars, workers>>
           \/ /\ UNCHANGED <<pref, disk>>
              /\ IF ops[o].kind = "choose"
                 THEN /\ view' = IF Current(o)
                                 THEN [view EXCEPT !.gen = ops[o].gen, !.asking = 0,
                                         !.status = IF pref.folder = NoFolder
                                                    THEN "not-configured" ELSE "error"]
                                 ELSE view
                      /\ UNCHANGED <<host, hostToken, accepted, prompt, askVars, workers>>
                 ELSE IF held /\ Current(o)
                      THEN FailHost
                      ELSE UNCHANGED <<view, host, hostToken, accepted, prompt, askVars,
                                       workers>>
  /\ UNCHANGED <<inflight, chats, opCount, retirement, disposed>>

-----------------------------------------------------------------------------
(* retireDetachedHost: a running turn is cancelled and the conversation closed, each a  *)
(* bounded call to the agent, before the agent is killed.                               *)
RetirePc(turn, chat) ==
  IF turn # NoTurn THEN "cancelTurn" ELSE IF chat # 0 THEN "closeChat" ELSE "retired"

(* retireHost, by the operation numbered o: it waits for the agent that is being taken  *)
(* down, and then takes down the one the controller holds.                              *)
Retires(o, op) ==
  IF retirement # 0
  THEN /\ ops' = [ops EXCEPT ![o] = [op EXCEPT !.pc = "wait"]]
       /\ UNCHANGED <<host, hostToken, accepted, prompt, askVars, workers, retirement>>
  ELSE LET pc == IF host = 0 THEN "retired" ELSE RetirePc(prompt, accepted)
       IN /\ ops' = [ops EXCEPT ![o] = [op EXCEPT !.pc = pc, !.tok = host, !.chat = accepted]]
          /\ Detach /\ Settle
          /\ retirement' = IF pc = "retired" THEN 0 ELSE o
          /\ workers' = [t \in Ops |-> IF t = host /\ pc = "retired" THEN "dead"
                                       ELSE workers[t]]

Superseding == opCount < MaxOps /\ opCount' = opCount + 1

ChooseWorkspace ==
  /\ Usable /\ Superseding
  /\ \E f \in Folders :
       Retires(opCount', [Resting EXCEPT !.kind = "choose", !.gen = view.gen + 1,
                                         !.folder = f])
  /\ UNCHANGED <<saveVars, view, inflight, chats, disposed>>

Suspend ==
  /\ Usable /\ Superseding
  /\ Retires(opCount', [Resting EXCEPT !.kind = "suspend", !.gen = view.gen + 1])
  /\ UNCHANGED <<saveVars, view, inflight, chats, disposed>>

Dispose ==
  /\ ~disposed /\ Superseding /\ disposed' = TRUE
  /\ Retires(opCount', [Resting EXCEPT !.kind = "dispose"])
  /\ UNCHANGED <<saveVars, view, inflight, chats>>

RetireWaited(o) ==
  /\ ops[o].kind \in {"choose", "suspend", "dispose"} /\ At(o, "wait") /\ retirement = 0
  /\ Retires(o, ops[o])
  /\ UNCHANGED <<saveVars, view, inflight, chats, opCount, disposed>>

TurnCancelled(o) ==
  /\ At(o, "cancelTurn") /\ GoesTo(o, "closeChat")
  /\ UNCHANGED <<saveVars, view, host, hostToken, accepted, turnVars, askVars, chats,
                 workers, opCount, retirement, disposed>>

ChatClosed(o) ==
  /\ At(o, "closeChat") /\ GoesTo(o, "retired") /\ Kill(ops[o].tok)
  /\ retirement' = IF retirement = o THEN 0 ELSE retirement
  /\ UNCHANGED <<saveVars, view, host, hostToken, accepted, turnVars, askVars, chats,
                 opCount, disposed>>

(* The agent is down: the operation that asked for it goes on, unless superseded.       *)
Retired(o) ==
  /\ At(o, "retired")
  /\ IF ~Current(o) \/ ops[o].kind = "dispose"
     THEN GoesTo(o, "done") /\ UNCHANGED <<writes, view>>
     ELSE IF ops[o].kind = "choose"
     THEN /\ GoesTo(o, "save") /\ UNCHANGED view
          /\ SaveAsked(o, [folder |-> ops[o].folder, chat |-> 0])
     ELSE /\ GoesTo(o, "done") /\ UNCHANGED writes
          /\ view' = IF ops[o].kind = "suspend"
                     THEN [gen |-> ops[o].gen, status |-> ConfiguredStatus(pref),
                           entries |-> {}, asking |-> 0]
                     ELSE [view EXCEPT !.status = "configured", !.asking = 0]
  /\ UNCHANGED <<pref, disk, host, hostToken, accepted, turnVars, askVars, chats, workers,
                 opCount, retirement, disposed>>

-----------------------------------------------------------------------------
(* sendPrompt: one turn at a time, on the accepted conversation.                        *)
SendPrompt ==
  /\ Usable /\ view.status = "ready" /\ host # 0 /\ accepted # 0 /\ prompt = NoTurn
  /\ prompt' = [tok |-> hostToken, gen |-> view.gen, chat |-> accepted]
  /\ inflight' = inflight \cup {prompt'}
  /\ view' = [view EXCEPT !.status = "running", !.entries = @ \cup {accepted}, !.asking = 0]
  /\ UNCHANGED <<saveVars, host, hostToken, accepted, askVars, chats, workers, ops, opCount,
                 retirement, disposed>>

(* finishPrompt: only the turn the controller still runs has an effect.                 *)
Expected(t) == prompt = t /\ HasToken(t.tok) /\ view.gen = t.gen

PromptSucceeds(t) ==
  /\ workers[t.tok] = "live" /\ inflight' = inflight \ {t}
  /\ IF Expected(t)
     THEN /\ prompt' = NoTurn /\ Settle
          /\ view' = [view EXCEPT !.status = "ready", !.asking = 0]
     ELSE UNCHANGED <<prompt, askVars, view>>
  /\ UNCHANGED <<saveVars, host, hostToken, accepted, chats, workers, ops, opCount,
                 retirement, disposed>>

PromptFails(t) ==
  /\ inflight' = inflight \ {t}
  /\ IF Expected(t)
     THEN Superseding /\ FailHost
     ELSE UNCHANGED <<opCount, view, host, hostToken, accepted, prompt, askVars, workers>>
  /\ UNCHANGED <<saveVars, chats, ops, retirement, disposed>>

(* cancelPrompt: the agent is detached at once; "running" stands until it is down.      *)
CancelPrompt ==
  /\ Usable /\ view.status = "running" /\ prompt # NoTurn /\ host # 0
  /\ Begins([Resting EXCEPT !.kind = "cancel", !.pc = "cancelTurn", !.tok = host,
                            !.chat = prompt.chat])
  /\ Detach /\ Settle
  /\ view' = [view EXCEPT !.gen = @ + 1, !.asking = 0]
  /\ retirement' = opCount'
  /\ UNCHANGED <<saveVars, inflight, chats, workers, disposed>>

-----------------------------------------------------------------------------
(* handleHostEvent: history while starting, output of the running turn afterwards.      *)
HostEvent(t, chat) ==
  /\ workers[t] = "live"
  /\ HasToken(t) /\ chat = accepted
  /\ view.status = "starting" \/ (prompt.tok = t /\ prompt.gen = view.gen)
  /\ view' = [view EXCEPT !.entries = @ \cup {chat}]
  /\ UNCHANGED <<saveVars, host, hostToken, accepted, turnVars, askVars, chats, workers, ops,
                 opCount, retirement, disposed>>

(* handlePermissionRequest: refused unless the agent runs the current turn; a second    *)
(* request cancels the first, even when its own options turn out to be unusable.        *)
HostAsks(t, chat) ==
  /\ workers[t] = "live" /\ asked < MaxAsks
  /\ HasToken(t) /\ view.status = "running" /\ prompt # NoTurn
  /\ prompt.gen = view.gen /\ chat = prompt.chat
  /\ asked' = asked + 1
  /\ \/ /\ question' = asked' /\ unanswered' = (unanswered \ {question}) \cup {asked'}
        /\ view' = [view EXCEPT !.entries = @ \cup {chat}, !.asking = asked']
     \/ /\ question' = 0 /\ unanswered' = unanswered \ {question}
        /\ view' = [view EXCEPT !.entries = @ \cup {chat},
                                !.asking = IF question # 0 THEN 0 ELSE @]
  /\ UNCHANGED <<saveVars, host, hostToken, accepted, turnVars, chats, workers, ops, opCount,
                 retirement, disposed>>

(* The member answers, or the agent withdraws the question.                             *)
RespondPermission ==
  /\ Usable /\ question # 0
  /\ Settle /\ view' = [view EXCEPT !.asking = 0]
  /\ UNCHANGED <<saveVars, host, hostToken, accepted, turnVars, chats, workers, ops, opCount,
                 retirement, disposed>>

AskAborts(a) ==
  /\ a \in unanswered /\ question = a
  /\ Settle /\ view' = [view EXCEPT !.asking = IF disposed THEN @ ELSE 0]
  /\ UNCHANGED <<saveVars, host, hostToken, accepted, turnVars, chats, workers, ops, opCount,
                 retirement, disposed>>

(* The agent's process ends by itself, or a timed-out call kills it: the exit counts    *)
(* only for the agent the controller holds.                                             *)
WorkerDies(t) ==
  /\ workers[t] \in {"launching", "live"} /\ Kill(t)
  /\ IF HasToken(t)
     THEN /\ Settle /\ Detach
          /\ view' = [view EXCEPT !.gen = @ + 1, !.status = "error", !.asking = 0]
     ELSE UNCHANGED <<view, host, hostToken, accepted, prompt, askVars>>
  /\ UNCHANGED <<saveVars, inflight, chats, ops, opCount, retirement, disposed>>

-----------------------------------------------------------------------------
(* When an agent is down, the operations that awaited it run on, in the order they      *)
(* began, before any other callback.                                                    *)
Woken == {o \in Ops : At(o, "retired") \/ (At(o, "wait") /\ retirement = 0)}
Wakes(o) == StartLaunches(o) \/ RetireWaited(o) \/ Retired(o)

Step(o) ==
  \/ AgentUp(o) \/ AgentMissing(o) \/ CallFails(o)
  \/ Resumed(o) \/ ConversationMissing(o) \/ Created(o) \/ Closed(o)
  \/ TurnCancelled(o) \/ ChatClosed(o)

(* What the process does by itself: every call to the agent has a time limit.           *)
Progress ==
  \/ Woken # {} /\ Wakes(CHOOSE o \in Woken : \A p \in Woken : o <= p)
  \/ Woken = {} /\ (Write \/ \E o \in Ops : Step(o))

Requests ==
  \/ Initialize \/ Start \/ NewSession \/ ChooseWorkspace \/ Suspend \/ Dispose
  \/ SendPrompt \/ CancelPrompt \/ RespondPermission

Agents ==
  \/ \E t \in inflight : PromptSucceeds(t) \/ PromptFails(t)
  \/ \E t \in Ops : WorkerDies(t)
  \/ \E t \in Ops, chat \in 1..MaxChats : HostEvent(t, chat) \/ HostAsks(t, chat)
  \/ \E a \in unanswered : AskAborts(a)

Next == Progress \/ (Woken = {} /\ (Requests \/ Agents))

Spec == Init /\ [][Next]_vars
FairSpec == Spec /\ WF_vars(Progress)

-----------------------------------------------------------------------------
(* No agent process outlives the controller's interest in it: one that runs is the one  *)
(* held, is being launched by an operation that will look again, or is being retired.   *)
AgentsAreHeld ==
  \A t \in Ops : workers[t] \in {"launching", "live"} =>
    \/ host = t /\ hostToken = t
    \/ At(t, "launch")
    \/ \E o \in Ops : ops[o].tok = t /\ ops[o].pc \in {"cancelTurn", "closeChat"}

(* A question an agent waits on is the one the member is shown, and belongs to the turn *)
(* that runs; a member is never left with a question nobody waits on, unless the agent  *)
(* is being taken down.                                                                 *)
QuestionsAreLive ==
  /\ unanswered = {question} \ {0}
  /\ question # 0 => view.asking = question /\ prompt # NoTurn /\ prompt.tok = host
  /\ view.asking # 0 /\ question = 0 =>
       disposed \/ \E o \in Ops : ops[o].pc \in {"wait", "cancelTurn", "closeChat", "retired",
                                                 "save"}

(* The transcript shows the accepted conversation and no other, and a conversation is   *)
(* remembered, in memory and in the file, only with the folder it was opened in.        *)
TranscriptIsItsOwn ==
  /\ accepted # 0 => view.entries \subseteq {accepted}
  /\ \A p \in {pref, disk} : p.chat # 0 => p.folder = chats[p.chat]
  /\ accepted # 0 /\ pref.chat # 0 => chats[accepted] = pref.folder

(* A busy status is never stranded: behind it is a turn, or an operation that was not   *)
(* superseded and will publish another one.                                             *)
BusyIsHeld ==
  view.status \in {"starting", "running"} /\ ~disposed =>
    prompt # NoTurn \/ \E o \in Ops : Current(o) /\ ~At(o, "done")

(* A request checked against the generation cannot take a later view for an earlier one. *)
GenerationGrows == view'.gen >= view.gen

(* Starting ends, whatever the agent and the disk do.                                   *)
BusyEnds ==
  [](view.status = "starting" => <>(view.status # "starting" \/ disposed))

=============================================================================
