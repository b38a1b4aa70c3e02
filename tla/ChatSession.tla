---------------------------- MODULE ChatSession ----------------------------
(* The desktop's signed-in session (main/chat-session.ts): one credential in the  *)
(* cookie jar, the identity record bound to it on disk, the authorization of the  *)
(* local cache, and the renewal timer.  Restores, renewals, exchanges, sign-outs  *)
(* and passive sign-outs run one at a time on the mutation chain; authenticated   *)
(* requests do not, and their refusals may arrive after the credential they were  *)
(* sent with has been replaced.  The server and the jar are external.             *)
(* The session epoch and the credential generation are only ever compared with    *)
(* the values a request captured, so each request carries the outcome of the      *)
(* comparison (sameEpoch, sameGen) and advancing either one clears it.            *)
EXTENDS Naturals, Sequences, FiniteSets

CONSTANTS Users, Requests, None,
          MaxCred,   \* credentials the server issues in a behaviour
          MaxQueue,  \* mutations waiting behind the running one
          MaxAsked   \* mutations the member and the callbacks ask for, and crashes

VARIABLES
  issued,     \* the server's credentials: [user, state]
  jar,        \* the credential in the cookie jar, 0 when there is none
  record,     \* the protected record: [cred, user], or None
  session,    \* #state: [status, user], user the context it carries or None
  cacheOpen,  \* #cacheAuthorizationActive
  timer,      \* #renewalTimer is armed
  blocked,    \* #protocolBlocked
  op,         \* the running mutation: [kind, pc, ctx, cred]
  queue,      \* the mutations waiting on the chain
  requests,   \* the authenticated requests in flight
  asked,      \* mutations asked for and crashes so far
  unread      \* history: an exchange replaced the jar by an answer nobody could read

vars == <<issued, jar, record, session, cacheOpen, timer, blocked, op, queue, requests, asked, unread>>

Creds == 0..MaxCred
Contexts == Users \cup {None}
NoOp == [kind |-> "none", pc |-> "none", ctx |-> None, cred |-> 0]
NoRequest == [pc |-> "idle", cred |-> 0, user |-> None,
              sameEpoch |-> FALSE, sameGen |-> FALSE, seen |-> FALSE, fresh |-> FALSE]
Kinds == {"restore", "renew", "link", "handoff", "signOut"}
Waiting == [kind : Kinds \cup {"wait", "mark"}, of : Requests \cup {None}]

TypeOK ==
  /\ issued \in Seq([user : Users, state : {"live", "stale", "ended"}])
  /\ Len(issued) <= MaxCred
  /\ jar \in Creds
  /\ record \in [cred : Creds, user : Users] \cup {None}
  /\ session \in [status : {"out", "in", "away"}, user : Contexts]
  /\ cacheOpen \in BOOLEAN /\ blocked \in BOOLEAN /\ timer \in BOOLEAN /\ unread \in BOOLEAN
  /\ op.kind \in Kinds \cup {"mark", "none"}
  /\ queue \in Seq(Waiting) /\ Len(queue) <= MaxQueue
  /\ DOMAIN requests = Requests

\* a new device, or one that kept a credential and its record from an earlier start
Init ==
  /\ \/ issued = <<>> /\ jar = 0 /\ record = None
     \/ \E u \in Users : /\ issued = <<[user |-> u, state |-> "live"]>> /\ jar = 1
                        /\ record = [cred |-> 1, user |-> u]
  /\ session = [status |-> "out", user |-> None]
  /\ cacheOpen = FALSE /\ timer = FALSE /\ blocked = FALSE
  /\ op = NoOp /\ queue = <<>> /\ requests = [r \in Requests |-> NoRequest]
  /\ asked = 0 /\ unread = FALSE

---------------------------------------------------------------------------
(* The server accepts a live credential and rotates one that is live or has gone   *)
(* stale; a rotated or revoked one has ended.                                      *)
Accepts(c) == c # 0 /\ issued[c].state = "live"
Rotates(c) == c # 0 /\ issued[c].state \in {"live", "stale"}
SetState(c, s) == [issued EXCEPT ![c].state = s]
Issue(log, u) == Append(log, [user |-> u, state |-> "live"])
CanIssue == Len(issued) < MaxCred
OwnerOf(c) == IF c = 0 THEN None ELSE issued[c].user

Lapse(c) ==
  /\ c \in {jar} \cup {requests[r].cred : r \in Requests}   \* nobody asks about another one
  /\ Accepts(c)
  /\ issued' = SetState(c, "stale")
  /\ UNCHANGED <<jar, record, session, cacheOpen, timer, blocked, op, queue, requests, asked, unread>>

---------------------------------------------------------------------------
(* The protected record.                                                          *)
ContextOf == IF session.status = "out" THEN None ELSE session.user

LoadedUnmatched == IF record # None THEN record.user ELSE None
\* load(credential): the record's identity, or nothing when it is bound to another credential
Loaded == IF record # None /\ jar # 0 /\ record.cred = jar THEN record.user ELSE None
\* a record that does not match is cleared by the load that finds it
AfterLoad == IF jar # 0 /\ record # None /\ record.cred # jar THEN None ELSE record

\* replace binds the identity to the credential in the jar; a failed write clears the record,
\* and a failed clear leaves what was there
Remembered(u) ==
  IF jar = 0 THEN {None, record}
  ELSE {[cred |-> jar, user |-> u], None, record}
Cleared == {None, record}

---------------------------------------------------------------------------
(* The captured comparisons.                                                      *)
AdvanceEpoch(rs) == [r \in Requests |-> [rs[r] EXCEPT !.sameEpoch = FALSE]]
AdvanceGeneration(rs) == [r \in Requests |-> [rs[r] EXCEPT !.sameGen = FALSE]]
StateReplaced(rs) == [r \in Requests |-> [rs[r] EXCEPT !.seen = FALSE, !.fresh = FALSE]]

Publish(rs, status, u) ==
  /\ session' = [status |-> status, user |-> u]
  /\ requests' = StateReplaced(rs)

\* #armRenewal
Armed(isBlocked) == ~isBlocked

\* #applySignedIn and #scheduleRenewal, after #rememberAuthenticatedContext
SignIn(rs, u) ==
  /\ record' \in Remembered(u)
  /\ Publish(rs, "in", u)
  /\ cacheOpen' = TRUE /\ blocked' = FALSE /\ timer' = TRUE

\* no verdict on the credential: it stays, and the record bound to it may open the cache
KeepUnverified(block) ==
  /\ record' = AfterLoad
  /\ cacheOpen' = (Loaded # None)
  /\ Publish(requests, "away", Loaded)
  /\ blocked' = (blocked \/ block)
  /\ timer' = IF block THEN FALSE ELSE timer

Finish == op' = NoOp
Goto(pc) == op' = [op EXCEPT !.pc = pc]

---------------------------------------------------------------------------
(* The mutation chain.                                                            *)
Enqueue(entry) == Len(queue) < MaxQueue /\ queue' = Append(queue, entry)

Request(kind) ==
  /\ kind \in Kinds \ {"renew"}
  /\ asked < MaxAsked /\ asked' = asked + 1
  /\ Enqueue([kind |-> kind, of |-> None])
  /\ UNCHANGED <<issued, jar, record, session, cacheOpen, timer, blocked, op, requests, unread>>

TimerFires ==
  /\ timer
  /\ Enqueue([kind |-> "renew", of |-> None])
  /\ timer' = FALSE
  /\ UNCHANGED <<issued, jar, record, session, cacheOpen, blocked, op, requests, asked, unread>>

StartOp ==
  /\ op = NoOp /\ queue # <<>> /\ Head(queue).kind \in Kinds
  /\ queue' = Tail(queue)
  /\ op' = [kind |-> Head(queue).kind, pc |-> "start", ctx |-> None,
            cred |-> IF cacheOpen /\ Head(queue).kind \in {"link", "handoff"} THEN jar ELSE 0]
  /\ UNCHANGED <<issued, jar, record, session, cacheOpen, timer, blocked, requests, asked, unread>>

---------------------------------------------------------------------------
(* restore: probe, one rotation after a refusal, and probe again.                 *)
Probing == op.kind = "restore" /\ op.pc \in {"start", "reprobe"}

ProbeIdentified ==
  /\ Probing /\ Accepts(jar)
  /\ SignIn(requests, OwnerOf(jar)) /\ Finish
  /\ UNCHANGED <<issued, jar, queue, asked, unread>>

ProbeExpired ==
  /\ Probing /\ ~Accepts(jar)
  /\ IF op.pc = "start"
     THEN /\ op' = [op EXCEPT !.pc = "rotate", !.ctx = Loaded]
          /\ record' = AfterLoad
     ELSE Goto("discard") /\ UNCHANGED record
  /\ UNCHANGED <<issued, jar, session, cacheOpen, timer, blocked, queue, requests, asked, unread>>

ProbeUnusable ==
  /\ Probing
  /\ \E upgrade \in BOOLEAN : KeepUnverified(upgrade)
  /\ Finish
  /\ UNCHANGED <<issued, jar, queue, asked, unread>>

(* #rotateSession, for a restore and for a renewal.                               *)
Rotating == (op.kind = "restore" /\ op.pc = "rotate") \/ (op.kind = "renew" /\ op.pc = "rotate")

\* the answer is ok: the network layer has stored the new cookie, the code has not resumed yet
RotateOk ==
  /\ Rotating /\ Rotates(jar) /\ CanIssue
  /\ issued' = Issue(SetState(jar, "ended"), OwnerOf(jar))
  /\ jar' = Len(issued) + 1
  /\ Goto("rotated")
  /\ UNCHANGED <<record, session, cacheOpen, timer, blocked, queue, requests, asked, unread>>

\* refused, unreachable, or the answer is lost after the server has rotated
RotateFails ==
  /\ Rotating
  /\ \/ UNCHANGED issued
     \/ Rotates(jar) /\ issued' = SetState(jar, "ended")
  /\ IF op.kind = "restore"
     THEN Goto("discard") /\ UNCHANGED timer
     ELSE Finish /\ timer' = Armed(blocked)
  /\ UNCHANGED <<jar, record, session, cacheOpen, blocked, queue, requests, asked, unread>>

RotateUpgrade ==
  /\ Rotating
  /\ cacheOpen' = (op.ctx # None)
  /\ Publish(requests, "away", op.ctx)
  /\ blocked' = TRUE /\ timer' = FALSE /\ Finish
  /\ UNCHANGED <<issued, jar, record, queue, asked, unread>>

CarriedBlindly == Remembered(op.ctx)
\* the identity captured before the rotation is bound to the new credential
Carried == IF op.ctx = None THEN {record} ELSE Remembered(op.ctx)

\* #advanceCredentialGeneration, and the record follows the new credential
RotateResumes ==
  /\ op.pc = "rotated"
  /\ requests' = AdvanceGeneration(requests)
  /\ record' \in Carried
  /\ IF op.kind = "restore"
     THEN Goto("reprobe") /\ UNCHANGED timer
     ELSE Finish /\ timer' = Armed(blocked)
  /\ UNCHANGED <<issued, jar, session, cacheOpen, blocked, queue, asked, unread>>

---------------------------------------------------------------------------
(* renewSession and #maintainRenewal.                                             *)
RenewStarts ==
  /\ op.pc = "start" /\ op.kind = "renew"
  /\ \/ session.status = "out" /\ timer' = FALSE /\ Finish
     \/ session.status # "out"      \* a bounded wake-up, the renewal is not due yet
        /\ timer' = Armed(blocked) /\ Finish
     \/ session.status # "out" /\ UNCHANGED timer
        /\ op' = [op EXCEPT !.pc = "rotate", !.ctx = ContextOf]
  /\ UNCHANGED <<issued, jar, record, session, cacheOpen, blocked, queue, requests, asked, unread>>

---------------------------------------------------------------------------
(* The two exchanges.                                                             *)
Exchanging == op.kind \in {"link", "handoff"}

ExchangeOk ==
  /\ Exchanging /\ op.pc = "start"
  /\ \/ \E u \in Users : /\ CanIssue
                         /\ issued' = Issue(issued, u)
                         /\ jar' = Len(issued) + 1
                         /\ Goto("answered")
     \/ UNCHANGED <<issued, jar>> /\ Goto("blank")   \* an ok answer without a credential
  /\ UNCHANGED <<record, session, cacheOpen, timer, blocked, queue, requests, asked, unread>>

ExchangeIdentified ==
  /\ op.pc = "answered"
  /\ SignIn(AdvanceGeneration(AdvanceEpoch(requests)), OwnerOf(jar))
  /\ Finish
  /\ UNCHANGED <<issued, jar, queue, asked, unread>>

\* reportAuthKitFailure and #failMagicLink leave a signed-in session alone
AuthKitFails == IF session.status = "in" THEN UNCHANGED <<session, requests>>
                ELSE Publish(requests, "out", None)
LinkFails == IF session.status = "in" THEN UNCHANGED <<session, requests>>
             ELSE Publish(requests, "away", ContextOf)

\* the body cannot be read: the cache reopens only for the credential it was opened with
ExchangeUnread ==
  /\ op.pc \in {"answered", "blank"}
  /\ LET unchanged == ContextOf # None /\ op.cred # 0 /\ jar = op.cred
         reported  == op.kind = "handoff" /\ session.status # "in"
     IN /\ cacheOpen' = (unchanged /\ ~reported)
        /\ record' \in IF unchanged THEN {record} ELSE Cleared
  /\ IF op.kind = "link" THEN LinkFails ELSE AuthKitFails
  /\ Finish
  /\ unread' = (unread \/ op.pc = "answered")
  /\ UNCHANGED <<issued, jar, timer, blocked, queue, asked>>

ExchangeRefused ==
  /\ Exchanging /\ op.pc = "start"
  /\ \/ /\ op.kind = "link" /\ session.status # "in"
        /\ Goto("discard") /\ UNCHANGED <<session, requests, cacheOpen>>
     \/ /\ op.kind = "link" /\ session.status = "in"
        /\ Finish /\ UNCHANGED <<session, requests, cacheOpen>>
     \/ /\ op.kind = "handoff" /\ AuthKitFails /\ Finish
        /\ cacheOpen' = (cacheOpen /\ session.status = "in")
  /\ UNCHANGED <<issued, jar, record, timer, blocked, queue, asked, unread>>

ExchangeUnreached ==
  /\ Exchanging /\ op.pc = "start"
  /\ \E upgrade \in BOOLEAN :
       /\ IF op.kind = "link" \/ upgrade
          THEN LinkFails /\ UNCHANGED cacheOpen
          ELSE AuthKitFails /\ cacheOpen' = (cacheOpen /\ session.status = "in")
       /\ blocked' = (blocked \/ upgrade)
       /\ timer' = IF upgrade THEN FALSE ELSE timer
  /\ Finish
  /\ UNCHANGED <<issued, jar, record, queue, asked, unread>>

\* the callback loop reports a failed provider sign-in outside the chain
ReportAuthKitFailure ==
  /\ session.status # "in"
  /\ cacheOpen' = FALSE /\ Publish(requests, "out", None)
  /\ UNCHANGED <<issued, jar, record, timer, blocked, op, queue, asked, unread>>

---------------------------------------------------------------------------
(* Giving the credential up: the timer and the cache first, the cookie, then the  *)
(* record, the epoch and the state.                                               *)
SignOutStarts ==
  /\ op.kind = "signOut" /\ op.pc = "start"
  /\ \/ UNCHANGED issued
     \/ jar # 0 /\ issued' = SetState(jar, "ended")
  /\ timer' = FALSE /\ cacheOpen' = FALSE
  /\ Goto("discard")
  /\ UNCHANGED <<jar, record, session, blocked, queue, requests, asked, unread>>

Discard ==
  /\ op.pc = "discard"
  /\ timer' = FALSE /\ cacheOpen' = FALSE /\ jar' = 0
  /\ Goto("discarded")
  /\ UNCHANGED <<issued, record, session, blocked, queue, requests, asked, unread>>

Discarded ==
  /\ op.pc = "discarded"
  /\ record' \in Cleared
  /\ Publish(AdvanceEpoch(requests), "out", None)
  /\ Finish
  /\ UNCHANGED <<issued, jar, cacheOpen, timer, blocked, queue, asked, unread>>

---------------------------------------------------------------------------
(* Authenticated requests.                                                        *)
Fetch(r) ==
  /\ requests[r] = NoRequest /\ ~blocked /\ session.status # "away"
  /\ requests' = [requests EXCEPT ![r] =
       [pc |-> "sent", cred |-> jar, user |-> ContextOf, sameEpoch |-> TRUE, sameGen |-> TRUE,
        seen |-> TRUE, fresh |-> TRUE]]
  /\ UNCHANGED <<issued, jar, record, session, cacheOpen, timer, blocked, op, queue, asked, unread>>

\* accepted, unreachable, or superseded: the caller is done
Settled(r) ==
  /\ requests[r].pc \in {"sent", "resent"}
  /\ requests' = [requests EXCEPT ![r] = NoRequest]
  /\ UNCHANGED <<issued, jar, record, session, cacheOpen, timer, blocked, op, queue, asked, unread>>

\* a refusal (of a retry, any answer) waits for the mutations already on the chain
Refused(r) ==
  /\ requests[r].pc \in {"sent", "resent"} /\ ~Accepts(requests[r].cred)
  /\ Enqueue([kind |-> "wait", of |-> r])
  /\ requests' = [requests EXCEPT ![r].seen = FALSE, ![r].fresh = FALSE,
                                  ![r].pc = IF @ = "sent" THEN "waiting" ELSE "rewaiting"]
  /\ UNCHANGED <<issued, jar, record, session, cacheOpen, timer, blocked, op, asked, unread>>

Upgrade(r) ==
  /\ requests[r].pc \in {"sent", "resent"}
  /\ LET rest == [requests EXCEPT ![r] = NoRequest] IN
       /\ blocked' = (blocked \/ requests[r].fresh)
       /\ timer' = IF requests[r].fresh THEN FALSE ELSE timer
       /\ IF requests[r].seen THEN Publish(rest, "away", ContextOf)
          ELSE requests' = rest /\ UNCHANGED session
  /\ UNCHANGED <<issued, jar, record, cacheOpen, op, queue, asked, unread>>

\* #assertRequestSession
SameSession(r) == /\ requests[r].sameEpoch
                  /\ requests[r].user # None /\ requests[r].user = ContextOf

\* the retry a refused request gets when a renewal replaced its credential meanwhile
Retried(r) == [requests[r] EXCEPT !.pc = "resent", !.cred = jar, !.sameGen = TRUE,
                                  !.fresh = TRUE]

Resumes(r) ==
  IF ~SameSession(r) THEN NoRequest
  ELSE IF requests[r].pc = "waiting" /\ ~requests[r].sameGen THEN Retried(r)
  ELSE [requests[r] EXCEPT !.pc = "stamped"]

WaitEnds ==
  /\ op = NoOp /\ queue # <<>> /\ Head(queue).kind = "wait"
  /\ queue' = Tail(queue)
  /\ LET r == Head(queue).of IN requests' = [requests EXCEPT ![r] = Resumes(r)]
  /\ UNCHANGED <<issued, jar, record, session, cacheOpen, timer, blocked, op, asked, unread>>

\* the caller hands the refusal to markSignedOut, unless its own scope was superseded
CallMark(r) ==
  /\ requests[r].pc = "stamped"
  /\ \/ Enqueue([kind |-> "mark", of |-> r])
        /\ requests' = [requests EXCEPT ![r].pc = "marking"]
     \/ UNCHANGED queue /\ requests' = [requests EXCEPT ![r] = NoRequest]
  /\ UNCHANGED <<issued, jar, record, session, cacheOpen, timer, blocked, op, asked, unread>>

RejectedAfterRenewal(r) == requests[r].sameEpoch
\* the refusal still concerns the credential and the session it was answered for
Rejected(r) == requests[r].sameEpoch /\ requests[r].sameGen

MarkSignedOut ==
  /\ op = NoOp /\ queue # <<>> /\ Head(queue).kind = "mark"
  /\ queue' = Tail(queue)
  /\ LET r == Head(queue).of IN
       /\ op' = IF Rejected(r)
                THEN [kind |-> "mark", pc |-> "discard", ctx |-> None, cred |-> 0] ELSE NoOp
       /\ requests' = [requests EXCEPT ![r] = NoRequest]
  /\ UNCHANGED <<issued, jar, record, session, cacheOpen, timer, blocked, asked, unread>>

---------------------------------------------------------------------------
(* The process ends at any moment: the jar and the record stay on disk.           *)
Crash ==
  /\ asked < MaxAsked /\ asked' = asked + 1
  /\ session' = [status |-> "out", user |-> None]
  /\ cacheOpen' = FALSE /\ timer' = FALSE /\ blocked' = FALSE
  /\ op' = NoOp /\ queue' = <<>> /\ requests' = [r \in Requests |-> NoRequest]
  /\ UNCHANGED <<issued, jar, record, unread>>

Next ==
  \/ \E c \in 1..MaxCred : Lapse(c)
  \/ \E kind \in Kinds : Request(kind)
  \/ TimerFires \/ StartOp
  \/ ProbeIdentified \/ ProbeExpired \/ ProbeUnusable
  \/ RotateOk \/ RotateFails \/ RotateUpgrade \/ RotateResumes
  \/ RenewStarts
  \/ ExchangeOk \/ ExchangeIdentified \/ ExchangeUnread \/ ExchangeRefused \/ ExchangeUnreached
  \/ ReportAuthKitFailure
  \/ SignOutStarts \/ Discard \/ Discarded
  \/ \E r \in Requests : Fetch(r) \/ Settled(r) \/ Refused(r) \/ Upgrade(r) \/ CallMark(r)
  \/ WaitEnds \/ MarkSignedOut
  \/ Crash

Spec == Init /\ [][Next]_vars

---------------------------------------------------------------------------
(* Whenever the cache of a member is open, the credential in the jar was issued   *)
(* to that member, and so was the one its record is bound to: a renewal, a lost   *)
(* answer, a crash or a failed write never lets one member's credential open      *)
(* another's cache.  Excepted: the instant between an exchange's cookie and its    *)
(* continuation, and what follows an exchange whose answer could not be read.      *)
CacheFollowsCredential ==
  (~unread /\ op.pc # "answered") =>
    /\ cacheOpen => jar # 0 /\ OwnerOf(jar) = session.user
    /\ record # None => OwnerOf(record.cred) = record.user

(* The same without the exception for unread answers: once an exchange replaced    *)
(* the credential, the member who was signed in before never opens a cache again    *)
(* with it ("so it can never authorize cache access for the replacement            *)
(* credential", chat-session.ts:484-486).                                          *)
NoPredecessorCache ==
  (op.pc # "answered" /\ cacheOpen) => OwnerOf(jar) = session.user

(* A credential the server would still accept is given up only by a sign-out the   *)
(* member asked for, or for a refused link on a device that is not signed in: a     *)
(* refusal of the credential that a renewal has just replaced never deletes its     *)
(* successor.                                                                      *)
CredentialKept == (jar # 0 /\ jar' = 0 /\ ~unread /\ Accepts(jar)) => op.kind \in {"signOut", "link"}
KeepsLiveCredential == [][CredentialKept]_vars

(* A signed-in device whose protocol is not refused always has a renewal ahead: its  *)
(* timer is armed, or a mutation that will arm it is on the chain.                   *)
RenewalStaysArmed ==
  (session.status = "in" /\ ~blocked) =>
    \/ timer \/ op # NoOp
    \/ \E i \in DOMAIN queue : queue[i].kind = "renew"
=============================================================================
