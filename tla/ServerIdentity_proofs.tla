----------------------- MODULE ServerIdentity_proofs ------------------------
(***************************************************************************)
(* What the server's identity modules promise for any number of requests,  *)
(* members, invitations, credentials and provider sessions: device sessions,*)
(* signing in through the provider, and admission.  Server_proofs continues*)
(* with enrollment, webhooks and processes, and composes the six.          *)
(*                                                                         *)
(* Each part has an invariant of its own, made the same way: what every    *)
(* request or transaction under way may rely on at the statement it has    *)
(* reached, that two of them rely on nothing the other may still change (the*)
(* locks they hold, the row or the code that is one request's), and what the*)
(* rows say together.                                                      *)
(***************************************************************************)
EXTENDS MCServer, Integers, Sequences, FiniteSetTheorems, WellFoundedInduction, TLAPS

(* Every set of numbers that is not empty has a least one.                 *)
LEMMA HasLeast ==
  ASSUME NEW S \in SUBSET Nat, S # {}
  PROVE  \E x \in S : \A y \in S : x <= y
<1>1. PICK x \in S : \A y \in S : ~(<<y, x>> \in OpToRel(<, Nat))
  BY NatLessThanWellFounded, WFMin
<1>2. \A y \in S : ~(y < x)
  BY <1>1 DEF OpToRel
<1> QED
  BY <1>2

-----------------------------------------------------------------------------
(* Device sessions.                                                        *)

(* A credential is one session's or one replaced row's, and no credential  *)
(* is ahead of the counter.                                                *)
CredentialsApart ==
  /\ \A s \in Devices!SessionIds : sessions[s].token <= issued
  /\ \A s, o \in Devices!SessionIds : s # o /\ sessions[s].token # 0 => sessions[s].token # sessions[o].token
  /\ \A t \in Devices!Tokens : history[t].session # 0 =>
       /\ t <= issued
       /\ sessions[history[t].session].token # 0
       /\ \A s \in Devices!SessionIds : sessions[s].token # t
  /\ \A t \in Devices!Tokens : history[t].session = 0 => history[t].expires = 0

(* A row not yet inserted is blank; a session's link is burned, and made   *)
(* no other one.                                                           *)
LinksBurned ==
  /\ \A s \in Devices!SessionIds : sessions[s].token = 0 => ~sessions[s].revoked /\ madeBy[s] = 0
  /\ \A s \in Devices!SessionIds : madeBy[s] # 0 => links[madeBy[s]].state = "consumed"
  /\ Devices!LinkSpentOnce

(* What a redemption may still do: the link it burned is its own.          *)
Burned(q) == q.pc \in {"resolve", "create"}
RedeemsOK(q) ==
  /\ q.at <= now
  /\ q.pc = "consume" => q.id \in Devices!Links
  /\ Burned(q) => /\ q.id \in Devices!Links /\ links[q.id].state = "consumed"
                  /\ \A s \in Devices!SessionIds : madeBy[s] # q.id

(* What a refresh knows: a credential it saw replaced is no session's, one *)
(* it saw current it did not see replaced.                                 *)
RefreshOK(q) ==
  /\ q.pc \in {"check", "answer", "statement"} => q.token \in Devices!Tokens /\ q.token <= issued
  /\ q.pc \in {"lookup", "reused", "refused"} =>
       q.was # "none" /\ q.token \in Devices!Tokens /\ q.token <= issued
  /\ q.pc \in {"statement", "lookup", "reused", "refused"} =>
       /\ q.was = "replaced" => q.token \in q.seen /\ \A s \in Devices!SessionIds : sessions[s].token # q.token
       /\ q.was = "current" => q.token \notin q.seen
  /\ q.pc = "reused" =>
       /\ q.was = "replaced" /\ q.id \in Devices!SessionIds /\ sessions[q.id].token # 0
       /\ history[q.token].session \in {0, q.id}
  /\ q.pc = "refused" /\ q.was = "replaced" /\ history[q.token].expires > now =>
       sessions[history[q.token].session].revoked

RequestsOK ==
  /\ \A r \in Sessions : RedeemsOK(requests[r]) /\ RefreshOK(requests[r])
  /\ \A r, o \in Sessions : r # o /\ Burned(requests[r]) /\ Burned(requests[o])
       => requests[r].id # requests[o].id

DevicesInv == Devices!TypeOK /\ reached \subseteq 1..issued /\ CredentialsApart /\ LinksBurned /\ RequestsOK

RequestRecords ==
  [kind : {"none", "redeem", "refresh"}, pc : {"none", "consume", "resolve", "create",
     "check", "answer", "statement", "lookup", "reused", "refused"},
   at : 0..MaxNow, token : 0..MaxTokens, id : 0..MaxLinks + MaxSessions, seen : SUBSET Devices!Tokens,
   was : {"none", "current", "replaced"}]

LEMMA DevicesInit == Devices!Init => DevicesInv
<1> SUFFICES ASSUME Devices!Init PROVE DevicesInv
  OBVIOUS
<1> USE DevicesBounds DEF Devices!Init, Devices!Links, Devices!SessionIds, Devices!Tokens
<1>1. Devices!TypeOK
  BY DEF Devices!TypeOK, Devices!NoRow, Devices!NoRequest
<1>2. CredentialsApart
  BY DEF CredentialsApart, Devices!NoRow
<1>3. LinksBurned
  BY DEF LinksBurned, Devices!LinkSpentOnce
<1>4. RequestsOK
  BY DEF RequestsOK, RedeemsOK, RefreshOK, Burned, Devices!NoRequest
<1> QED BY <1>1, <1>2, <1>3, <1>4 DEF DevicesInv

(* A request is as its record says: what the others know, they still know. *)
DevicesStill ==
  \A q \in RequestRecords : RedeemsOK(q) /\ RefreshOK(q) => RedeemsOK(q)' /\ RefreshOK(q)'
StillBut(r) ==
  \A q \in RequestRecords :
    RedeemsOK(q) /\ RefreshOK(q) /\ (\E o \in Sessions : o # r /\ requests[o] = q)
      => RedeemsOK(q)' /\ RefreshOK(q)'
BurnedApart(r, q) ==
  Burned(q) => \A o \in Sessions : o # r /\ Burned(requests[o]) => requests[o].id # q.id

LEMMA RequestTyped ==
  ASSUME Devices!TypeOK, NEW r \in Sessions
  PROVE  requests[r] \in RequestRecords
BY DEF Devices!TypeOK, RequestRecords

LEMMA RequestGoesBut ==
  ASSUME Devices!TypeOK, RequestsOK, NEW r \in Sessions, NEW q \in RequestRecords, StillBut(r),
         requests' = [requests EXCEPT ![r] = q], RedeemsOK(q)', RefreshOK(q)', BurnedApart(r, q)
  PROVE  RequestsOK'
<1>1. ASSUME NEW o \in Sessions
      PROVE  /\ requests'[o] = IF o = r THEN q ELSE requests[o]
             /\ (RedeemsOK(requests[o]) /\ RefreshOK(requests[o]))'
  <2>1. requests'[o] = IF o = r THEN q ELSE requests[o]
    BY DEF Devices!TypeOK
  <2>2. PICK x : x = IF o = r THEN q ELSE requests[o]
    OBVIOUS
  <2>3. RedeemsOK(x)' /\ RefreshOK(x)'
    <3>1. CASE o = r
      BY <2>2, <3>1
    <3>2. CASE o # r
      BY <2>2, <3>2, RequestTyped DEF RequestsOK, StillBut
    <3> QED BY <3>1, <3>2
  <2>4. requests'[o] = x
    BY <2>1, <2>2
  <2> QED BY <2>1, <2>3, <2>4 DEF RedeemsOK, RefreshOK, Burned
<1>2. ASSUME NEW a \in Sessions, NEW o \in Sessions, a # o,
             Burned(requests[a])', Burned(requests[o])'
      PROVE  requests'[a].id # requests'[o].id
  BY <1>1, <1>2 DEF RequestsOK, BurnedApart, Burned
<1> QED BY <1>1, <1>2 DEF RequestsOK

LEMMA RequestGoes ==
  ASSUME Devices!TypeOK, RequestsOK, DevicesStill, NEW r \in Sessions, NEW q \in RequestRecords,
         requests' = [requests EXCEPT ![r] = q], RedeemsOK(q)', RefreshOK(q)', BurnedApart(r, q)
  PROVE  RequestsOK'
<1>1. StillBut(r)
  BY DEF DevicesStill, StillBut
<1> QED BY <1>1, RequestGoesBut

LEMMA RequestsStay ==
  ASSUME Devices!TypeOK, RequestsOK, DevicesStill, UNCHANGED requests
  PROVE  RequestsOK'
<1>1. ASSUME NEW o \in Sessions
      PROVE  (RedeemsOK(requests[o]) /\ RefreshOK(requests[o]))'
  <2>1. PICK x : x = requests[o]
    OBVIOUS
  <2>2. RedeemsOK(x)' /\ RefreshOK(x)'
    BY <2>1, RequestTyped DEF DevicesStill, RequestsOK
  <2> QED BY <2>1, <2>2 DEF RedeemsOK, RefreshOK, Burned
<1> QED BY <1>1 DEF RequestsOK, Burned

LEMMA RequestEnds ==
  ASSUME Devices!TypeOK, RequestsOK, DevicesStill, NEW r \in Sessions, Devices!Ends(r), now' \in 0..MaxNow
  PROVE  RequestsOK'
<1>1. PICK x : x = Devices!NoRequest
  OBVIOUS
<1>2. x \in RequestRecords /\ RedeemsOK(x)' /\ RefreshOK(x)' /\ BurnedApart(r, x)
  BY <1>1, DevicesBounds DEF Devices!NoRequest, RequestRecords, RedeemsOK, RefreshOK, Burned, BurnedApart
<1> QED BY <1>1, <1>2, RequestGoes DEF Devices!Ends, Devices!Go

(* When only a request changes, the others stay as they are.               *)
LEMMA RequestOnly ==
  ASSUME Devices!TypeOK, UNCHANGED <<now, links, sessions, history, issued, madeBy>>
  PROVE  DevicesStill
BY DEF DevicesStill, RedeemsOK, RefreshOK, Burned

LEMMA DevicesTypes ==
  ASSUME DevicesInv
  PROVE  /\ now \in 0..MaxNow /\ issued \in 0..MaxTokens /\ 1..issued \subseteq Devices!Tokens
         /\ reached \subseteq Devices!Tokens
         /\ Devices!Links \subseteq 0..MaxLinks + MaxSessions /\ Devices!SessionIds \subseteq 0..MaxLinks + MaxSessions
<1>1. now \in 0..MaxNow /\ issued \in 0..MaxTokens /\ reached \subseteq Devices!Tokens
  BY DEF DevicesInv, Devices!TypeOK
<1> QED BY <1>1, DevicesBounds DEF Devices!Links, Devices!SessionIds, Devices!Tokens

(* An action of request r that leaves it with record q and touches nothing else. *)
LEMMA DevicesGo ==
  ASSUME DevicesInv, NEW r \in Sessions, NEW q \in RequestRecords, Devices!Go(r, q),
         UNCHANGED now, UNCHANGED member, UNCHANGED links, UNCHANGED sessions, UNCHANGED history,
         UNCHANGED issued, UNCHANGED window, UNCHANGED madeBy, UNCHANGED changes,
         reached' = reached \/ (reached' = reached \cup {requests[r].token} /\ requests[r].token \in 1..issued),
         RedeemsOK(q), RefreshOK(q), BurnedApart(r, q)
  PROVE  DevicesInv'
<1> USE DEF DevicesInv
<1>1. Devices!TypeOK'
  <2>1. requests' \in [Sessions -> RequestRecords]
    BY RequestTyped DEF Devices!Go, Devices!TypeOK
  <2>2. reached' \subseteq Devices!Tokens
    BY DevicesTypes
  <2> QED BY <2>1, <2>2 DEF Devices!TypeOK, RequestRecords, Devices!Links, Devices!SessionIds, Devices!Tokens
<1>2. reached' \subseteq 1..issued'
  OBVIOUS
<1>3. CredentialsApart'
  BY DEF CredentialsApart
<1>4. LinksBurned'
  BY DEF LinksBurned, Devices!LinkSpentOnce
<1>5. RedeemsOK(q)' /\ RefreshOK(q)'
  BY DEF RedeemsOK, RefreshOK, Burned
<1>6. RequestsOK'
  BY <1>5, RequestOnly, RequestGoes DEF Devices!Go
<1> QED BY <1>1, <1>2, <1>3, <1>4, <1>6

LEMMA NoRequestOK ==
  ASSUME DevicesInv, NEW r \in Sessions
  PROVE  Devices!NoRequest \in RequestRecords /\ RedeemsOK(Devices!NoRequest) /\ RefreshOK(Devices!NoRequest) /\ BurnedApart(r, Devices!NoRequest)
BY DevicesBounds DEF DevicesInv, Devices!TypeOK, Devices!NoRequest, RequestRecords, RedeemsOK, RefreshOK,
                     Burned, BurnedApart

LEMMA DevicesEnds ==
  ASSUME DevicesInv, NEW r \in Sessions, Devices!Ends(r),
         UNCHANGED now, UNCHANGED member, UNCHANGED links, UNCHANGED sessions, UNCHANGED history,
         UNCHANGED issued, UNCHANGED window, UNCHANGED madeBy, UNCHANGED changes,
         reached' = reached \/ (reached' = reached \cup {requests[r].token} /\ requests[r].token \in 1..issued)
  PROVE  DevicesInv'
BY NoRequestOK, DevicesGo DEF Devices!Ends

LEMMA BeginTyped ==
  ASSUME NEW p \in RequestRecords, NEW k \in {"redeem", "refresh"}, NEW c \in {"consume", "statement"},
         NEW n \in 0..MaxNow, NEW t \in 0..MaxTokens, NEW l \in 0..MaxLinks + MaxSessions
  PROVE  [p EXCEPT !.kind = k, !.pc = c, !.at = n, !.token = t, !.id = l] \in RequestRecords
<1> DEFINE a == [p EXCEPT !.kind = k]
           b == [a EXCEPT !.pc = c]
           d == [b EXCEPT !.at = n]
           e == [d EXCEPT !.token = t]
           f == [e EXCEPT !.id = l]
<1>1. a \in RequestRecords
  BY DEF RequestRecords
<1>2. b \in RequestRecords
  <2> HIDE DEF a
  <2> QED BY <1>1 DEF RequestRecords
<1>3. d \in RequestRecords
  <2> HIDE DEF b
  <2> QED BY <1>2 DEF RequestRecords
<1>4. e \in RequestRecords
  <2> HIDE DEF d
  <2> QED BY <1>3 DEF RequestRecords
<1>5. f \in RequestRecords
  <2> HIDE DEF e
  <2> QED BY <1>4 DEF RequestRecords
<1>6. f = [p EXCEPT !.kind = k, !.pc = c, !.at = n, !.token = t, !.id = l]
  OBVIOUS
<1> QED BY <1>5, <1>6

LEMMA RedeemBegins ==
  ASSUME DevicesInv, NEW r \in Sessions, NEW l \in Devices!Links, Devices!RedeemMagicLink(r, l)
  PROVE  DevicesInv'
<1> DEFINE q == [Devices!NoRequest EXCEPT !.kind = "redeem", !.pc = "consume", !.at = now, !.token = 0, !.id = l]
<1>1. /\ q.kind = "redeem" /\ q.pc = "consume" /\ q.at = now /\ q.token = 0 /\ q.id = l
      /\ q.seen = {} /\ q.was = "none"
  BY DEF Devices!NoRequest
<1>2. q \in RequestRecords
  <2>1. Devices!NoRequest \in RequestRecords /\ now \in 0..MaxNow /\ 0 \in 0..MaxTokens
        /\ l \in 0..MaxLinks + MaxSessions
    BY DevicesBounds, DevicesTypes, NoRequestOK
  <2> QED BY <2>1, BeginTyped
<1>3. RedeemsOK(q) /\ RefreshOK(q) /\ BurnedApart(r, q)
  BY <1>1, DevicesTypes, DevicesBounds DEF RedeemsOK, RefreshOK, Burned, BurnedApart
<1>4. Devices!Go(r, q)
  BY DEF Devices!RedeemMagicLink, Devices!Begin
<1> HIDE DEF q
<1> QED BY <1>2, <1>3, <1>4, DevicesGo DEF Devices!RedeemMagicLink

LEMMA RefreshBegins ==
  ASSUME DevicesInv, NEW r \in Sessions, NEW t \in reached, Devices!RefreshSession(r, t)
  PROVE  DevicesInv'
<1> DEFINE q == [Devices!NoRequest EXCEPT !.kind = "refresh", !.pc = "statement", !.at = now, !.token = t, !.id = 0]
<1>1. /\ q.kind = "refresh" /\ q.pc = "statement" /\ q.at = now /\ q.token = t /\ q.id = 0
      /\ q.seen = {} /\ q.was = "none"
  BY DEF Devices!NoRequest
<1>2. q \in RequestRecords
  <2>1. Devices!NoRequest \in RequestRecords /\ now \in 0..MaxNow /\ t \in 0..MaxTokens
        /\ 0 \in 0..MaxLinks + MaxSessions
    BY DevicesBounds, DevicesTypes, NoRequestOK DEF Devices!Tokens
  <2> QED BY <2>1, BeginTyped
<1>3. RedeemsOK(q) /\ RefreshOK(q) /\ BurnedApart(r, q)
  <2>1. t \in Devices!Tokens /\ t <= issued
    BY DevicesTypes, DevicesBounds DEF DevicesInv
  <2> HIDE DEF q
  <2> QED BY <1>1, <2>1, DevicesTypes, DevicesBounds DEF RedeemsOK, RefreshOK, Burned, BurnedApart
<1>4. Devices!Go(r, q)
  BY DEF Devices!RefreshSession, Devices!Begin
<1> HIDE DEF q
<1> QED BY <1>2, <1>3, <1>4, DevicesGo DEF Devices!RefreshSession

LEMMA LinkResolveKeeps ==
  ASSUME DevicesInv, NEW r \in Sessions, Devices!ResolveActiveUser(r)
  PROVE  DevicesInv'
<1> DEFINE q == [requests[r] EXCEPT !.pc = "create"]
<1>1. CASE member
  <2>1. requests[r] \in RequestRecords /\ RedeemsOK(requests[r])
    BY RequestTyped DEF DevicesInv, RequestsOK
  <2>2. q \in RequestRecords /\ q.pc = "create" /\ q.id = requests[r].id /\ q.at = requests[r].at
    BY <2>1 DEF RequestRecords
  <2>3. RedeemsOK(q) /\ RefreshOK(q)
    BY <2>1, <2>2 DEF RedeemsOK, RefreshOK, Burned, Devices!ResolveActiveUser
  <2>4. BurnedApart(r, q)
    BY <2>2 DEF BurnedApart, Burned, DevicesInv, RequestsOK, Devices!ResolveActiveUser
  <2>5. Devices!Go(r, q)
    BY <1>1 DEF Devices!ResolveActiveUser
  <2> HIDE DEF q
  <2> QED BY <2>2, <2>3, <2>4, <2>5, DevicesGo DEF Devices!ResolveActiveUser
<1>2. CASE ~member
  BY <1>2, DevicesEnds DEF Devices!ResolveActiveUser
<1> QED BY <1>1, <1>2

LEMMA CheckKeeps ==
  ASSUME DevicesInv, NEW r \in Sessions, Devices!CheckCreated(r)
  PROVE  DevicesInv'
<1> DEFINE q == [requests[r] EXCEPT !.pc = "answer"]
<1>1. CASE Devices!Authenticates(requests[r].token)
  <2>1. requests[r] \in RequestRecords /\ RedeemsOK(requests[r])
    BY RequestTyped DEF DevicesInv, RequestsOK
  <2>2. q \in RequestRecords /\ q.pc = "answer" /\ q.at = requests[r].at
    BY <2>1 DEF RequestRecords
  <2>3. q.token = requests[r].token /\ q.token \in Devices!Tokens /\ q.token <= issued
    BY <2>1, <2>2 DEF RequestRecords, DevicesInv, RequestsOK, RefreshOK, Devices!CheckCreated
  <2>4. RedeemsOK(q) /\ RefreshOK(q) /\ BurnedApart(r, q)
    <3> HIDE DEF q
    <3> QED BY <2>1, <2>2, <2>3 DEF RedeemsOK, RefreshOK, Burned, BurnedApart
  <2>5. Devices!Go(r, q)
    BY <1>1 DEF Devices!CheckCreated
  <2> HIDE DEF q
  <2> QED BY <2>2, <2>4, <2>5, DevicesGo DEF Devices!CheckCreated
<1>2. CASE ~Devices!Authenticates(requests[r].token)
  BY <1>2, DevicesEnds DEF Devices!CheckCreated
<1> QED BY <1>1, <1>2

LEMMA RefusedKeeps ==
  ASSUME DevicesInv, NEW r \in Sessions, Devices!RefreshRefused(r)
  PROVE  DevicesInv'
BY DevicesEnds DEF Devices!RefreshRefused

LEMMA RotationStartKeeps ==
  ASSUME DevicesInv, NEW r \in Sessions, Devices!RotationStarts(r)
  PROVE  DevicesInv'
<1> DEFINE p == requests[r]
           w == IF p.token \in Devices!Replaced THEN "replaced" ELSE "current"
           q == [p EXCEPT !.seen = Devices!Replaced, !.was = w]
<1>1. p \in RequestRecords /\ RedeemsOK(p) /\ RefreshOK(p)
  BY RequestTyped DEF DevicesInv, RequestsOK
<1>2. /\ q \in RequestRecords /\ q.pc = "statement" /\ q.at = p.at /\ q.token = p.token
      /\ q.seen = Devices!Replaced /\ q.was = w
  BY <1>1 DEF RequestRecords, Devices!Replaced, Devices!RotationStarts
<1>3. RedeemsOK(q) /\ BurnedApart(r, q)
  BY <1>1, <1>2 DEF RedeemsOK, Burned, BurnedApart
<1>4. p.token \in Devices!Tokens /\ p.token <= issued
  BY <1>1 DEF RefreshOK, Devices!RotationStarts
<1>5. p.token \in Devices!Replaced => \A s \in Devices!SessionIds : sessions[s].token # p.token
  BY DEF Devices!Replaced, DevicesInv, CredentialsApart
<1>6. RefreshOK(q)
  BY <1>2, <1>4, <1>5 DEF RefreshOK
<1>7. Devices!Go(r, q)
  BY DEF Devices!RotationStarts
<1> HIDE DEF q, w, p
<1> QED BY <1>2, <1>3, <1>6, <1>7, DevicesGo DEF Devices!RotationStarts

LEMMA LookBackKeeps ==
  ASSUME DevicesInv, NEW r \in Sessions, Devices!RefreshLooksBack(r)
  PROVE  DevicesInv'
<1> DEFINE p == requests[r]
           h == history[p.token]
           n == [p EXCEPT !.pc = "reused", !.id = h.session]
           f == [p EXCEPT !.pc = "refused"]
<1>1. p \in RequestRecords /\ RedeemsOK(p) /\ RefreshOK(p)
  BY RequestTyped DEF DevicesInv, RequestsOK
<1>2. /\ p.pc = "lookup" /\ p.was # "none" /\ p.token \in Devices!Tokens /\ p.token <= issued
      /\ p.was \in {"current", "replaced"}
      /\ p.was = "replaced" => p.token \in p.seen /\ \A s \in Devices!SessionIds : sessions[s].token # p.token
      /\ p.was = "current" => p.token \notin p.seen
  BY <1>1 DEF RefreshOK, Devices!RefreshLooksBack, RequestRecords
<1>3. /\ h \in [session : 0..MaxSessions, expires : 0..MaxNow + SessionTTL]
      /\ now \in 0..MaxNow
      /\ p.at \in 0..MaxNow /\ p.at <= now
      /\ h.session = 0 => h.expires = 0
      /\ h.session # 0 => h.session \in Devices!SessionIds /\ sessions[h.session].token # 0
  <2>1. h \in [session : 0..MaxSessions, expires : 0..MaxNow + SessionTTL]
    BY <1>2 DEF DevicesInv, Devices!TypeOK
  <2>2. p.at \in 0..MaxNow /\ p.at <= now
    BY <1>1 DEF RedeemsOK, RequestRecords
  <2>3. h.session # 0 => h.session \in Devices!SessionIds
    BY <2>1, DevicesBounds DEF Devices!SessionIds
  <2> HIDE DEF h
  <2> QED BY <1>2, <2>1, <2>2, <2>3, DevicesTypes DEF DevicesInv, CredentialsApart, h
<1>4. CASE Devices!FoundReuse(p)
  <2>1. h.session # 0 /\ p.token \in p.seen
    BY <1>4 DEF Devices!FoundReuse
  <2>2. n \in RequestRecords /\ n.pc = "reused" /\ n.id = h.session /\ n.at = p.at /\ n.token = p.token
        /\ n.seen = p.seen /\ n.was = p.was
    <3>1. h.session \in 0..MaxLinks + MaxSessions
      BY <1>3, <2>1, DevicesTypes
    <3> DEFINE a == [p EXCEPT !.pc = "reused"]
               b == [a EXCEPT !.id = h.session]
    <3>2. a \in RequestRecords /\ a.pc = "reused" /\ a.at = p.at /\ a.token = p.token
          /\ a.seen = p.seen /\ a.was = p.was
      BY <1>1 DEF RequestRecords
    <3>3. b \in RequestRecords /\ b.pc = "reused" /\ b.at = p.at /\ b.token = p.token
          /\ b.seen = p.seen /\ b.was = p.was /\ b.id = h.session
      <4> HIDE DEF a, h, p
      <4> QED BY <3>1, <3>2 DEF RequestRecords
    <3>4. b = n
      OBVIOUS
    <3> QED BY <3>3, <3>4
  <2>3. RedeemsOK(n) /\ BurnedApart(r, n)
    BY <1>1, <2>2 DEF RedeemsOK, Burned, BurnedApart
  <2>4. RefreshOK(n)
    <3>1. /\ n.pc = "reused" /\ n.was = "replaced" /\ n.token \in Devices!Tokens /\ n.token <= issued
          /\ n.token \in n.seen /\ n.id \in Devices!SessionIds /\ sessions[n.id].token # 0
          /\ history[n.token].session = n.id /\ \A s \in Devices!SessionIds : sessions[s].token # n.token
      BY <1>2, <1>3, <2>1, <2>2
    <3> HIDE DEF n
    <3> QED BY <3>1 DEF RefreshOK
  <2>5. Devices!Go(r, n)
    BY <1>4 DEF Devices!RefreshLooksBack
  <2> HIDE DEF n
  <2> QED BY <2>2, <2>3, <2>4, <2>5, DevicesGo DEF Devices!RefreshLooksBack
<1>5. CASE ~Devices!FoundReuse(p)
  <2>1. p.token \in p.seen => h.session = 0 \/ h.expires <= p.at
    BY <1>3, <1>5, DevicesBounds DEF Devices!FoundReuse
  <2>2. f \in RequestRecords /\ f.pc = "refused" /\ f.at = p.at /\ f.token = p.token
        /\ f.seen = p.seen /\ f.was = p.was
    BY <1>1 DEF RequestRecords
  <2>3. RedeemsOK(f) /\ BurnedApart(r, f)
    BY <1>1, <2>2 DEF RedeemsOK, Burned, BurnedApart
  <2>4. p.token \in p.seen => ~(h.expires > now)
    BY <1>3, <2>1, DevicesBounds
  <2>5. RefreshOK(f)
    <3>1. /\ f.pc = "refused" /\ f.token \in Devices!Tokens /\ f.token <= issued /\ f.was # "none"
          /\ f.was = "replaced" => f.token \in f.seen /\ \A s \in Devices!SessionIds : sessions[s].token # f.token
          /\ f.was = "current" => f.token \notin f.seen
          /\ f.was = "replaced" => ~(history[f.token].expires > now)
      BY <1>2, <2>2, <2>4
    <3> HIDE DEF f
    <3> QED BY <3>1 DEF RefreshOK
  <2>6. Devices!Go(r, f)
    BY <1>5 DEF Devices!RefreshLooksBack
  <2> HIDE DEF f
  <2> QED BY <2>2, <2>3, <2>5, <2>6, DevicesGo DEF Devices!RefreshLooksBack
<1> QED BY <1>4, <1>5

LEMMA AnswerKeeps ==
  ASSUME DevicesInv, NEW r \in Sessions, Devices!Answer(r)
  PROVE  DevicesInv'
<1>1. requests[r].token \in Devices!Tokens /\ requests[r].token <= issued
  BY DEF Devices!Answer, DevicesInv, RequestsOK, RefreshOK
<1>2. requests[r].token \in 1..issued
  BY <1>1, DevicesTypes, DevicesBounds DEF Devices!Tokens
<1>3. reached' = reached \/ reached' = reached \cup {requests[r].token}
  BY DEF Devices!Answer
<1> QED BY <1>2, <1>3, DevicesEnds DEF Devices!Answer

LEMMA RequestLinkKeeps ==
  ASSUME DevicesInv, NEW l \in Devices!Links, Devices!RequestMagicLink(l)
  PROVE  DevicesInv'
<1> USE DEF Devices!RequestMagicLink
<1>1. links' = [links EXCEPT ![l] = [state |-> "sent", expires |-> now + LinkTTL]] /\ links[l].state = "none"
  OBVIOUS
<1>2. links' \in [Devices!Links -> [state : {"none", "sent", "consumed"}, expires : 0..MaxNow + LinkTTL]]
  <2>1. links \in [Devices!Links -> [state : {"none", "sent", "consumed"}, expires : 0..MaxNow + LinkTTL]]
    BY DEF DevicesInv, Devices!TypeOK
  <2>2. now + LinkTTL \in 0..MaxNow + LinkTTL
    BY DevicesTypes, DevicesBounds
  <2> QED BY <1>1, <2>1, <2>2
<1>3. window' \in [attempts : 0..MaxDeliveries, reset : 0..MaxNow + WindowTTL]
  <2>1. Devices!Pruned \in [attempts : 0..MaxDeliveries, reset : 0..MaxNow + WindowTTL]
    BY DevicesTypes, DevicesBounds DEF DevicesInv, Devices!TypeOK, Devices!Pruned
  <2> QED BY <2>1, DevicesBounds DEF Devices!Reserves
<1>4. Devices!TypeOK'
  BY <1>2, <1>3 DEF DevicesInv, Devices!TypeOK, Devices!Links, Devices!SessionIds, Devices!Tokens
<1>5. \A k \in Devices!Links : links[k].state = "consumed" => links'[k] = links[k]
  BY <1>1 DEF DevicesInv, Devices!TypeOK
<1>6. CredentialsApart' /\ reached' \subseteq 1..issued'
  BY DEF DevicesInv, CredentialsApart
<1>7. LinksBurned'
  <2>1. \A s \in Devices!SessionIds : madeBy[s] # 0 => madeBy[s] \in Devices!Links
    BY DevicesBounds DEF DevicesInv, Devices!TypeOK, Devices!Links
  <2> QED BY <1>5, <2>1 DEF DevicesInv, LinksBurned, Devices!LinkSpentOnce
<1>8. DevicesStill
  BY <1>5 DEF DevicesStill, RedeemsOK, RefreshOK, Burned
<1>9. RequestsOK'
  BY <1>8, RequestsStay DEF DevicesInv
<1> QED BY <1>4, <1>6, <1>7, <1>9 DEF DevicesInv

LEMMA ConsumeKeeps ==
  ASSUME DevicesInv, NEW r \in Sessions, Devices!ConsumeMagicLink(r)
  PROVE  DevicesInv'
<1> DEFINE q == requests[r]
           p == [q EXCEPT !.pc = "resolve"]
<1>1. q \in RequestRecords /\ RedeemsOK(q) /\ RefreshOK(q)
  BY RequestTyped DEF DevicesInv, RequestsOK
<1>2. q.pc = "consume" /\ q.id \in Devices!Links
  BY <1>1 DEF Devices!ConsumeMagicLink, RedeemsOK
<1>3. CASE links[q.id].state # "sent"
  BY <1>3, DevicesEnds DEF Devices!ConsumeMagicLink
<1>4. CASE links[q.id].state = "sent"
  <2>1. links' = [links EXCEPT ![q.id].state = "consumed"]
    BY <1>4 DEF Devices!ConsumeMagicLink, Devices!Consumed
  <2>2. /\ links' \in [Devices!Links -> [state : {"none", "sent", "consumed"}, expires : 0..MaxNow + LinkTTL]]
        /\ \A k \in Devices!Links : links[k].state = "consumed" => links'[k].state = "consumed"
        /\ links'[q.id].state = "consumed"
    BY <1>2, <2>1 DEF DevicesInv, Devices!TypeOK
  <2>3. CredentialsApart' /\ reached' \subseteq 1..issued'
    BY DEF DevicesInv, CredentialsApart, Devices!ConsumeMagicLink
  <2>4. LinksBurned'
    <3>1. \A s \in Devices!SessionIds : madeBy[s] # 0 => madeBy[s] \in Devices!Links
      BY DevicesBounds DEF DevicesInv, Devices!TypeOK, Devices!Links
    <3> QED BY <2>2, <3>1 DEF DevicesInv, LinksBurned, Devices!LinkSpentOnce, Devices!ConsumeMagicLink
  <2>5. DevicesStill
    BY <2>2 DEF DevicesStill, RedeemsOK, RefreshOK, Burned, Devices!ConsumeMagicLink
  <2>6. \A s \in Devices!SessionIds : madeBy[s] # q.id
    <3>1. q.id # 0
      BY <1>2, DevicesBounds DEF Devices!Links
    <3> QED BY <1>4, <3>1 DEF DevicesInv, LinksBurned
  <2>7. p \in RequestRecords /\ p.pc = "resolve" /\ p.id = q.id /\ p.at = q.at
    BY <1>1 DEF RequestRecords
  <2>8. Devices!TypeOK'
    <3>1. requests' \in [Sessions -> RequestRecords]
      BY <2>7, NoRequestOK, RequestTyped DEF Devices!Go, Devices!Ends, DevicesInv, Devices!TypeOK,
                                             Devices!ConsumeMagicLink
    <3> QED BY <2>2, <3>1 DEF Devices!ConsumeMagicLink, DevicesInv, Devices!TypeOK, RequestRecords,
                              Devices!Links, Devices!SessionIds, Devices!Tokens
  <2>9. RequestsOK'
    <3>1. CASE Devices!Ends(r)
      BY <2>5, <3>1, RequestEnds, DevicesTypes DEF Devices!ConsumeMagicLink, DevicesInv
    <3>2. CASE Devices!Go(r, p)
      <4>1. PICK x : x = p
        OBVIOUS
      <4>2. now' = now /\ madeBy' = madeBy
        BY DEF Devices!ConsumeMagicLink
      <4>3. x.at <= now' /\ x.id \in Devices!Links /\ links'[x.id].state = "consumed" /\ x.pc = "resolve"
            /\ (\A s \in Devices!SessionIds : madeBy'[s] # x.id)
        BY <1>1, <1>2, <2>2, <2>6, <2>7, <4>1, <4>2 DEF RedeemsOK
      <4>4. RedeemsOK(x)' /\ RefreshOK(x)'
        BY <4>3 DEF RedeemsOK, RefreshOK, Burned
      <4>5. BurnedApart(r, x)
        <5>1. \A o \in Sessions : Burned(requests[o]) => requests[o].id # q.id
          BY <1>4 DEF DevicesInv, RequestsOK, RedeemsOK
        <5> QED BY <2>7, <4>1, <5>1 DEF BurnedApart
      <4> HIDE DEF p
      <4> QED BY <2>5, <2>7, <3>2, <4>1, <4>4, <4>5, RequestGoes DEF Devices!Go, DevicesInv
    <3> QED BY <1>4, <3>1, <3>2 DEF Devices!ConsumeMagicLink
  <2> QED BY <2>3, <2>4, <2>8, <2>9 DEF DevicesInv
<1> QED BY <1>3, <1>4

LEMMA CreateKeeps ==
  ASSUME DevicesInv, NEW r \in Sessions, Devices!CreateSession(r)
  PROVE  DevicesInv'
<1> DEFINE q == requests[r]
           fresh == {s \in Devices!SessionIds : sessions[s].token = 0}
           s == CHOOSE x \in fresh : \A y \in fresh : x <= y
           p == [q EXCEPT !.pc = "check", !.token = issued + 1]
<1>1. q \in RequestRecords /\ RedeemsOK(q) /\ RefreshOK(q) /\ q.pc = "create"
  BY RequestTyped DEF DevicesInv, RequestsOK, Devices!CreateSession
<1>2. issued < MaxTokens /\ fresh # {} /\ issued' = issued + 1 /\ Devices!Go(r, p)
      /\ sessions' = [sessions EXCEPT ![s] = [token |-> issued + 1, expires |-> q.at + SessionTTL, revoked |-> FALSE]]
      /\ madeBy' = [madeBy EXCEPT ![s] = q.id]
      /\ UNCHANGED now /\ UNCHANGED member /\ UNCHANGED links /\ UNCHANGED history /\ UNCHANGED reached
      /\ UNCHANGED window /\ UNCHANGED changes
  BY DEF Devices!CreateSession, Devices!Inserted
<1>3. s \in Devices!SessionIds /\ sessions[s].token = 0
  <2>1. fresh \in SUBSET Nat
    BY DevicesBounds DEF Devices!SessionIds
  <2>2. \E x \in fresh : \A y \in fresh : x <= y
    <3> HIDE DEF fresh
    <3> QED BY <1>2, <2>1, HasLeast
  <2>3. s \in fresh
    BY <2>2, Zenon
  <2> HIDE DEF s
  <2> QED BY <2>3
<1> HIDE DEF s, fresh
<1>4. issued \in 0..MaxTokens /\ issued + 1 \in Devices!Tokens /\ q.at \in 0..MaxNow /\ q.at <= now /\ q.id \in Devices!Links
      /\ q.id # 0 /\ links[q.id].state = "consumed" /\ \A o \in Devices!SessionIds : madeBy[o] # q.id
  BY <1>1, <1>2, DevicesTypes, DevicesBounds DEF RedeemsOK, Burned, RequestRecords, Devices!Tokens, Devices!Links
<1>5. /\ sessions \in [Devices!SessionIds -> [token : 0..MaxTokens, expires : 0..MaxNow + SessionTTL, revoked : BOOLEAN]]
      /\ madeBy \in [Devices!SessionIds -> 0..MaxLinks]
  BY DEF DevicesInv, Devices!TypeOK
<1>6. /\ sessions'[s].token = issued + 1 /\ sessions'[s].revoked = FALSE /\ madeBy'[s] = q.id
      /\ \A o \in Devices!SessionIds \ {s} : sessions'[o] = sessions[o] /\ madeBy'[o] = madeBy[o]
  BY <1>2, <1>3, <1>5
<1>7. /\ sessions' \in [Devices!SessionIds -> [token : 0..MaxTokens, expires : 0..MaxNow + SessionTTL, revoked : BOOLEAN]]
      /\ madeBy' \in [Devices!SessionIds -> 0..MaxLinks]
  <2>1. issued + 1 \in 0..MaxTokens /\ q.at + SessionTTL \in 0..MaxNow + SessionTTL /\ q.id \in 0..MaxLinks
    BY <1>4, DevicesBounds DEF Devices!Tokens, Devices!Links
  <2> QED BY <1>2, <1>5, <2>1
<1>8. p \in RequestRecords /\ p.pc = "check" /\ p.token = issued + 1 /\ p.at = q.at
  <2> DEFINE a == [q EXCEPT !.pc = "check"]
             b == [a EXCEPT !.token = issued + 1]
  <2>1. a \in RequestRecords /\ a.pc = "check" /\ a.at = q.at
    BY <1>1 DEF RequestRecords
  <2>2. b \in RequestRecords /\ b.pc = "check" /\ b.at = q.at /\ b.token = issued + 1
    <3>1. issued + 1 \in 0..MaxTokens
      BY <1>4, DevicesBounds DEF Devices!Tokens
    <3> HIDE DEF a, q
    <3> QED BY <2>1, <3>1 DEF RequestRecords
  <2>3. b = p
    OBVIOUS
  <2> QED BY <2>2, <2>3
<1>9. Devices!TypeOK'
  <2>1. requests' \in [Sessions -> RequestRecords]
    BY <1>2, <1>8, RequestTyped DEF Devices!Go, DevicesInv, Devices!TypeOK
  <2>2. issued' \in 0..MaxTokens
    BY <1>2, <1>4, DevicesBounds DEF Devices!Tokens
  <2> QED BY <1>2, <1>7, <2>1, <2>2 DEF DevicesInv, Devices!TypeOK, RequestRecords, Devices!Links,
                                        Devices!SessionIds, Devices!Tokens
<1>10. CredentialsApart' /\ reached' \subseteq 1..issued'
  <2>1. \A o \in Devices!SessionIds : sessions[o].token \in 0..MaxTokens /\ sessions[o].token <= issued
    BY <1>5 DEF DevicesInv, CredentialsApart
  <2>2. \A t \in Devices!Tokens : history[t].session # 0 =>
          t <= issued /\ t \in Nat /\ history[t].session \in Devices!SessionIds /\ sessions[history[t].session].token # 0
    <3>1. ASSUME NEW t \in Devices!Tokens, history[t].session # 0
          PROVE  t \in Nat /\ history[t].session \in Devices!SessionIds
      <4>1. history[t].session \in 0..MaxSessions
        BY DEF DevicesInv, Devices!TypeOK
      <4> QED BY <3>1, <4>1, DevicesBounds DEF Devices!Tokens, Devices!SessionIds
    <3> QED BY <3>1 DEF DevicesInv, CredentialsApart
  <2>3. reached' \subseteq 1..issued'
    BY <1>2, <1>4, DevicesBounds DEF DevicesInv
  <2> QED BY <1>2, <1>3, <1>4, <1>6, <2>1, <2>2, <2>3 DEF DevicesInv, CredentialsApart
<1>11. LinksBurned'
  BY <1>2, <1>3, <1>4, <1>6 DEF DevicesInv, LinksBurned, Devices!LinkSpentOnce
<1>12. StillBut(r)
  <2> SUFFICES ASSUME NEW x \in RequestRecords, RedeemsOK(x), RefreshOK(x),
                      NEW o \in Sessions, o # r, requests[o] = x
               PROVE  RedeemsOK(x)' /\ RefreshOK(x)'
    BY DEF StillBut
  <2>1. Burned(x) => x.id # q.id
    BY <1>1 DEF DevicesInv, RequestsOK, Burned
  <2>2. RedeemsOK(x)'
    BY <1>2, <1>6, <2>1 DEF RedeemsOK, Burned
  <2>3. x.id \in Devices!SessionIds /\ sessions[x.id].token # 0 => sessions'[x.id] = sessions[x.id]
    BY <1>3, <1>6
  <2>4. x.token <= issued => x.token <= issued'
    BY <1>2, <1>4, DevicesBounds DEF RequestRecords
  <2>5. \A n \in Devices!SessionIds : x.token <= issued /\ sessions[n].token # x.token => sessions'[n].token # x.token
    BY <1>2, <1>4, <1>6, DevicesBounds DEF RequestRecords
  <2>6. ASSUME x.token \in Devices!Tokens, history[x.token].expires > now
        PROVE  sessions'[history[x.token].session] = sessions[history[x.token].session]
    <3>1. history[x.token] \in [session : 0..MaxSessions, expires : 0..MaxNow + SessionTTL]
      BY <2>6 DEF DevicesInv, Devices!TypeOK
    <3>2. history[x.token].session # 0
      BY <2>6, DevicesTypes, DevicesBounds DEF DevicesInv, CredentialsApart
    <3>3. history[x.token].session \in Devices!SessionIds /\ sessions[history[x.token].session].token # 0
      BY <2>6, <3>1, <3>2, DevicesBounds DEF Devices!SessionIds, DevicesInv, CredentialsApart
    <3> QED BY <1>3, <1>6, <3>3
  <2> QED BY <1>2, <2>2, <2>3, <2>4, <2>5, <2>6 DEF RefreshOK
<1>13. RequestsOK'
  <2>1. PICK x : x = p
    OBVIOUS
  <2>2. RedeemsOK(x)' /\ RefreshOK(x)' /\ BurnedApart(r, x) /\ x \in RequestRecords
    <3>1. x \in RequestRecords /\ x.pc = "check" /\ x.token = issued' /\ x.at <= now' /\ x.token \in Devices!Tokens
      BY <1>2, <1>4, <1>8, <2>1
    <3> HIDE DEF p
    <3> QED BY <1>4, <3>1, DevicesBounds DEF RedeemsOK, RefreshOK, Burned, BurnedApart, Devices!Tokens
  <2> HIDE DEF p
  <2> QED BY <1>2, <1>12, <2>1, <2>2, RequestGoesBut DEF Devices!Go, DevicesInv
<1> QED BY <1>9, <1>10, <1>11, <1>13 DEF DevicesInv

LEMMA RotateKeeps ==
  ASSUME DevicesInv, NEW r \in Sessions, Devices!RefreshRotates(r)
  PROVE  DevicesInv'
<1> DEFINE q == requests[r]
           rows == {s \in Devices!Live(q.token) : sessions[s].expires > q.at}
           p == [q EXCEPT !.pc = "answer", !.token = issued + 1]
           k == [q EXCEPT !.pc = "lookup"]
<1>1. q \in RequestRecords /\ RedeemsOK(q) /\ RefreshOK(q) /\ q.pc = "statement" /\ q.was # "none"
  BY RequestTyped DEF DevicesInv, RequestsOK, Devices!RefreshRotates
<1>2. CASE rows = {} /\ Devices!Go(r, k) /\ UNCHANGED <<sessions, history, issued>>
  <2>1. k \in RequestRecords /\ k.pc = "lookup" /\ k.at = q.at /\ k.token = q.token /\ k.was = q.was /\ k.seen = q.seen
    BY <1>1 DEF RequestRecords
  <2>2. RedeemsOK(k) /\ RefreshOK(k) /\ BurnedApart(r, k)
    <3> HIDE DEF k
    <3> QED BY <1>1, <2>1 DEF RedeemsOK, RefreshOK, Burned, BurnedApart
  <2> HIDE DEF k
  <2> QED BY <1>2, <2>1, <2>2, DevicesGo DEF Devices!RefreshRotates
<1>3. ASSUME NEW s \in rows, issued < MaxTokens, Devices!Rotated(s, issued + 1, q.at + SessionTTL),
             issued' = issued + 1, Devices!Go(r, p)
      PROVE  DevicesInv'
  <2>1. /\ UNCHANGED now /\ UNCHANGED member /\ UNCHANGED links /\ UNCHANGED reached
        /\ UNCHANGED window /\ UNCHANGED madeBy /\ UNCHANGED changes
    BY DEF Devices!RefreshRotates
  <2>2. s \in Devices!SessionIds /\ sessions[s].token = q.token /\ q.token # 0 /\ ~sessions[s].revoked
    BY DEF Devices!Live
  <2>3. q.token \in Devices!Tokens /\ q.token <= issued /\ q.was = "current" /\ q.at <= now /\ q.at \in 0..MaxNow
        /\ q.token \notin q.seen /\ q.seen \subseteq Devices!Tokens
    BY <1>1, <2>2 DEF RefreshOK, RedeemsOK, RequestRecords
  <2>4. issued \in 0..MaxTokens /\ issued + 1 \in Devices!Tokens /\ issued + 1 \in 0..MaxTokens
        /\ q.at + SessionTTL \in 0..MaxNow + SessionTTL /\ s \in 0..MaxSessions /\ s # 0
    BY <1>3, <2>2, <2>3, DevicesTypes, DevicesBounds DEF Devices!Tokens, Devices!SessionIds
  <2>5. /\ sessions \in [Devices!SessionIds -> [token : 0..MaxTokens, expires : 0..MaxNow + SessionTTL, revoked : BOOLEAN]]
        /\ history \in [Devices!Tokens -> [session : 0..MaxSessions, expires : 0..MaxNow + SessionTTL]]
    BY DEF DevicesInv, Devices!TypeOK
  <2>6. /\ sessions'[s].token = issued + 1 /\ sessions'[s].revoked = sessions[s].revoked
        /\ \A o \in Devices!SessionIds \ {s} : sessions'[o] = sessions[o]
    BY <1>3, <2>2, <2>5 DEF Devices!Rotated
  <2>7. history'[q.token] = [session |-> s, expires |-> sessions[s].expires]
        /\ \A t \in Devices!Tokens \ {q.token} : history'[t] = history[t]
    BY <1>3, <2>2, <2>3, <2>5 DEF Devices!Rotated
  <2>8. sessions' \in [Devices!SessionIds -> [token : 0..MaxTokens, expires : 0..MaxNow + SessionTTL, revoked : BOOLEAN]]
    <3> DEFINE a == [sessions EXCEPT ![s].token = issued + 1]
    <3>1. a \in [Devices!SessionIds -> [token : 0..MaxTokens, expires : 0..MaxNow + SessionTTL, revoked : BOOLEAN]]
      BY <2>2, <2>4, <2>5
    <3>2. sessions' = [a EXCEPT ![s].expires = q.at + SessionTTL]
      BY <1>3 DEF Devices!Rotated
    <3> HIDE DEF a
    <3> QED BY <2>2, <2>4, <3>1, <3>2
  <2>9. history' \in [Devices!Tokens -> [session : 0..MaxSessions, expires : 0..MaxNow + SessionTTL]]
    BY <1>3, <2>2, <2>3, <2>4, <2>5 DEF Devices!Rotated
  <2>10. p \in RequestRecords /\ p.pc = "answer" /\ p.token = issued + 1 /\ p.at = q.at
    <3> DEFINE a == [q EXCEPT !.pc = "answer"]
               b == [a EXCEPT !.token = issued + 1]
    <3>1. a \in RequestRecords /\ a.pc = "answer" /\ a.at = q.at
      BY <1>1 DEF RequestRecords
    <3>2. b \in RequestRecords /\ b.pc = "answer" /\ b.at = q.at /\ b.token = issued + 1
      <4> HIDE DEF a, q
      <4> QED BY <2>4, <3>1 DEF RequestRecords
    <3>3. b = p
      OBVIOUS
    <3> QED BY <3>2, <3>3
  <2>11. Devices!TypeOK'
    <3>1. requests' \in [Sessions -> RequestRecords]
      BY <1>3, <2>10, RequestTyped DEF Devices!Go, DevicesInv, Devices!TypeOK
    <3> QED BY <1>3, <2>1, <2>4, <2>8, <2>9, <3>1 DEF DevicesInv, Devices!TypeOK, RequestRecords, Devices!Links,
                                                      Devices!SessionIds, Devices!Tokens
  <2>12. \A o \in Devices!SessionIds : sessions[o].token \in 0..MaxTokens /\ sessions[o].token <= issued
    BY <2>5 DEF DevicesInv, CredentialsApart
  <2>13. \A t \in Devices!Tokens : t \in Nat /\ (history[t].session # 0 =>
           /\ t <= issued /\ history[t].session \in Devices!SessionIds
           /\ sessions[history[t].session].token # 0)
    <3>1. ASSUME NEW t \in Devices!Tokens, history[t].session # 0
          PROVE  t \in Nat /\ history[t].session \in Devices!SessionIds
      <4>1. history[t].session \in 0..MaxSessions
        BY <2>5
      <4> QED BY <3>1, <4>1, DevicesBounds DEF Devices!Tokens, Devices!SessionIds
    <3> QED BY <3>1, DevicesBounds DEF DevicesInv, CredentialsApart, Devices!Tokens
  <2>14. \A o \in Devices!SessionIds : o # s => sessions[o].token # q.token
    BY <2>2 DEF DevicesInv, CredentialsApart
  <2>15. CredentialsApart'
    <3>1. (\A o \in Devices!SessionIds : sessions[o].token <= issued)'
      BY <1>3, <2>4, <2>6, <2>12
    <3>2. (\A a, o \in Devices!SessionIds : a # o /\ sessions[a].token # 0 => sessions[a].token # sessions[o].token)'
      BY <1>3, <2>4, <2>6, <2>12 DEF DevicesInv, CredentialsApart
    <3>3. (\A t \in Devices!Tokens : history[t].session # 0 =>
             /\ t <= issued
             /\ sessions[history[t].session].token # 0
             /\ \A o \in Devices!SessionIds : sessions[o].token # t)'
      <4> SUFFICES ASSUME NEW t \in Devices!Tokens, history'[t].session # 0
                   PROVE  /\ t <= issued' /\ sessions'[history'[t].session].token # 0
                          /\ \A o \in Devices!SessionIds : sessions'[o].token # t
        OBVIOUS
      <4>1. CASE t = q.token
        BY <1>3, <2>2, <2>3, <2>4, <2>6, <2>7, <2>13, <2>14, <4>1
      <4>2. CASE t # q.token
        <5>1. history'[t] = history[t]
          BY <2>7, <4>2
        <5> QED BY <1>3, <2>2, <2>4, <2>6, <2>13, <5>1 DEF DevicesInv, CredentialsApart
      <4> QED BY <4>1, <4>2
    <3>4. (\A t \in Devices!Tokens : history[t].session = 0 => history[t].expires = 0)'
      BY <2>4, <2>7 DEF DevicesInv, CredentialsApart
    <3> QED BY <3>1, <3>2, <3>3, <3>4 DEF CredentialsApart
  <2>16. reached' \subseteq 1..issued'
    BY <1>3, <2>1, <2>4, DevicesBounds DEF DevicesInv
  <2>17. LinksBurned'
    BY <2>1, <2>2, <2>4, <2>6 DEF DevicesInv, LinksBurned, Devices!LinkSpentOnce
  <2>18. DevicesStill
    <3> SUFFICES ASSUME NEW x \in RequestRecords, RedeemsOK(x), RefreshOK(x)
                 PROVE  RedeemsOK(x)' /\ RefreshOK(x)'
      BY DEF DevicesStill
    <3>1. RedeemsOK(x)'
      BY <2>1 DEF RedeemsOK, Burned
    <3>2. \A o \in Devices!SessionIds : sessions[o].token # 0 => sessions'[o].token # 0 /\ sessions'[o].revoked = sessions[o].revoked
      BY <2>4, <2>6
    <3>3. x.token <= issued => x.token <= issued'
      BY <1>3, <2>4, DevicesBounds DEF RequestRecords
    <3>4. \A n \in Devices!SessionIds : x.token <= issued /\ sessions[n].token # x.token => sessions'[n].token # x.token
      BY <1>3, <2>4, <2>6, DevicesBounds DEF RequestRecords
    <3>5. (\A o \in Devices!SessionIds : sessions[o].token # x.token) => x.token # q.token
      BY <2>2
    <3>6. x.token \in Devices!Tokens /\ x.token # q.token => history'[x.token] = history[x.token]
      BY <2>7
    <3>7. ASSUME x.token \in Devices!Tokens, history[x.token].expires > now
          PROVE  history[x.token].session \in Devices!SessionIds /\ sessions[history[x.token].session].token # 0
      <4>1. history[x.token].session # 0
        BY <3>7, DevicesTypes, DevicesBounds DEF DevicesInv, CredentialsApart
      <4> QED BY <2>13, <3>7, <4>1
    <3> QED BY <2>1, <3>1, <3>2, <3>3, <3>4, <3>5, <3>6, <3>7 DEF RefreshOK
  <2>19. RequestsOK'
    <3>1. PICK x : x = p
      OBVIOUS
    <3>2. RedeemsOK(x)' /\ RefreshOK(x)' /\ BurnedApart(r, x) /\ x \in RequestRecords
      <4>1. x \in RequestRecords /\ x.pc = "answer" /\ x.token = issued' /\ x.at <= now' /\ x.token \in Devices!Tokens
        BY <1>3, <2>1, <2>3, <2>4, <2>10, <3>1
      <4> HIDE DEF p
      <4> QED BY <2>4, <4>1, DevicesBounds DEF RedeemsOK, RefreshOK, Burned, BurnedApart, Devices!Tokens
    <3> HIDE DEF p
    <3> QED BY <1>3, <2>18, <3>1, <3>2, RequestGoes DEF Devices!Go, DevicesInv
  <2> QED BY <2>11, <2>15, <2>16, <2>17, <2>19 DEF DevicesInv
<1> QED BY <1>2, <1>3 DEF Devices!RefreshRotates

(* A revocation changes nothing but the mark of rows that exist.           *)
LEMMA RevokedKeeps ==
  ASSUME DevicesInv, NEW ids \in SUBSET Devices!SessionIds, \A s \in ids : sessions[s].token # 0,
         sessions' = Devices!Revoked(ids), UNCHANGED now, UNCHANGED member, UNCHANGED links,
         UNCHANGED history, UNCHANGED issued, UNCHANGED reached, UNCHANGED window,
         UNCHANGED madeBy, UNCHANGED changes
  PROVE  /\ requests' \in [Sessions -> RequestRecords] => Devices!TypeOK'
         /\ CredentialsApart' /\ LinksBurned' /\ DevicesStill
         /\ \A s \in ids : sessions'[s].revoked
         /\ reached' \subseteq 1..issued'
<1>1. sessions \in [Devices!SessionIds -> [token : 0..MaxTokens, expires : 0..MaxNow + SessionTTL, revoked : BOOLEAN]]
  BY DEF DevicesInv, Devices!TypeOK
<1>2. /\ sessions' \in [Devices!SessionIds -> [token : 0..MaxTokens, expires : 0..MaxNow + SessionTTL, revoked : BOOLEAN]]
      /\ \A s \in Devices!SessionIds : sessions'[s].token = sessions[s].token
      /\ \A s \in Devices!SessionIds : sessions[s].revoked => sessions'[s].revoked
      /\ \A s \in ids : sessions'[s].revoked
      /\ \A s \in Devices!SessionIds : s \notin ids => sessions'[s].revoked = sessions[s].revoked
  <2>1. ASSUME NEW s \in Devices!SessionIds
        PROVE  /\ sessions'[s] \in [token : 0..MaxTokens, expires : 0..MaxNow + SessionTTL, revoked : BOOLEAN]
               /\ sessions'[s].token = sessions[s].token
               /\ sessions'[s].revoked = (sessions[s].revoked \/ s \in ids)
    <3>1. sessions'[s] = [sessions[s] EXCEPT !.revoked = sessions[s].revoked \/ s \in ids]
      BY DEF Devices!Revoked
    <3>2. sessions[s] \in [token : 0..MaxTokens, expires : 0..MaxNow + SessionTTL, revoked : BOOLEAN]
      BY <1>1
    <3>3. (sessions[s].revoked \/ s \in ids) \in BOOLEAN
      OBVIOUS
    <3> QED BY <3>1, <3>2, <3>3, Zenon
  <2>2. sessions' = [s \in Devices!SessionIds |-> sessions'[s]]
    BY DEF Devices!Revoked
  <2> QED BY <1>1, <2>1, <2>2
<1>3. requests' \in [Sessions -> RequestRecords] => Devices!TypeOK'
  BY <1>2 DEF DevicesInv, Devices!TypeOK, RequestRecords, Devices!Links, Devices!SessionIds, Devices!Tokens
<1>4. \A t \in Devices!Tokens : history[t].session # 0 => history[t].session \in Devices!SessionIds
  <2>1. ASSUME NEW t \in Devices!Tokens, history[t].session # 0
        PROVE  history[t].session \in Devices!SessionIds
    <3>1. history[t].session \in 0..MaxSessions
      BY DEF DevicesInv, Devices!TypeOK
    <3> QED BY <2>1, <3>1, DevicesBounds DEF Devices!SessionIds
  <2> QED BY <2>1
<1>5. CredentialsApart'
  BY <1>2, <1>4 DEF DevicesInv, CredentialsApart
<1>6. LinksBurned'
  BY <1>2 DEF DevicesInv, LinksBurned, Devices!LinkSpentOnce
<1>7. DevicesStill
  <2> SUFFICES ASSUME NEW x \in RequestRecords, RedeemsOK(x), RefreshOK(x)
               PROVE  RedeemsOK(x)' /\ RefreshOK(x)'
    BY DEF DevicesStill
  <2>1. RedeemsOK(x)'
    BY DEF RedeemsOK, Burned
  <2>2. ASSUME x.token \in Devices!Tokens, history[x.token].expires > now
        PROVE  history[x.token].session \in Devices!SessionIds
    <3>1. history[x.token].session # 0
      BY <2>2, DevicesTypes, DevicesBounds DEF DevicesInv, CredentialsApart
    <3> QED BY <1>4, <2>2, <3>1
  <2> QED BY <1>2, <2>1, <2>2 DEF RefreshOK
<1> QED BY <1>2, <1>3, <1>5, <1>6, <1>7 DEF DevicesInv

LEMMA LineageKeeps ==
  ASSUME DevicesInv, NEW r \in Sessions, Devices!RevokeLineage(r)
  PROVE  DevicesInv'
<1> DEFINE q == requests[r]
           p == [q EXCEPT !.pc = "refused"]
<1>1. q \in RequestRecords /\ RedeemsOK(q) /\ RefreshOK(q) /\ q.pc = "reused"
  BY RequestTyped DEF DevicesInv, RequestsOK, Devices!RevokeLineage
<1>2. q.id \in Devices!SessionIds /\ sessions[q.id].token # 0 /\ q.was = "replaced" /\ q.token \in Devices!Tokens
      /\ q.token \in q.seen /\ (\A s \in Devices!SessionIds : sessions[s].token # q.token)
      /\ history[q.token].session \in {0, q.id} /\ q.token <= issued
  BY <1>1 DEF RefreshOK
<1>3. /\ sessions' = Devices!Revoked({q.id}) /\ UNCHANGED now /\ UNCHANGED member /\ UNCHANGED links
      /\ UNCHANGED history /\ UNCHANGED issued /\ UNCHANGED reached /\ UNCHANGED window
      /\ UNCHANGED madeBy /\ UNCHANGED changes /\ Devices!Go(r, p)
  BY DEF Devices!RevokeLineage
<1>4. /\ requests' \in [Sessions -> RequestRecords] => Devices!TypeOK'
      /\ CredentialsApart' /\ LinksBurned' /\ DevicesStill
      /\ sessions'[q.id].revoked
      /\ reached' \subseteq 1..issued'
  <2>1. {q.id} \in SUBSET Devices!SessionIds /\ \A s \in {q.id} : sessions[s].token # 0
    BY <1>2
  <2>2. PICK i : i = q.id
    OBVIOUS
  <2> HIDE DEF q
  <2> QED BY <1>3, <2>1, <2>2, RevokedKeeps
<1>5. p \in RequestRecords /\ p.pc = "refused" /\ p.was = q.was /\ p.at = q.at /\ p.token = q.token /\ p.seen = q.seen
  BY <1>1 DEF RequestRecords
<1>6. requests' \in [Sessions -> RequestRecords]
  BY <1>3, <1>5, RequestTyped DEF Devices!Go, DevicesInv, Devices!TypeOK
<1>7. RequestsOK'
  <2>1. PICK x : x = p
    OBVIOUS
  <2>2. \A s \in Devices!SessionIds : sessions'[s].token = sessions[s].token
    BY <1>3 DEF Devices!Revoked, DevicesInv, Devices!TypeOK
  <2>3. /\ x.pc = "refused" /\ x.was = "replaced" /\ x.at <= now' /\ x.token \in Devices!Tokens /\ x.token <= issued'
        /\ x.token \in x.seen /\ (\A s \in Devices!SessionIds : sessions'[s].token # x.token)
    BY <1>1, <1>2, <1>3, <1>5, <2>1, <2>2 DEF RedeemsOK
  <2>4. history'[x.token].expires > now' => sessions'[history'[x.token].session].revoked
    <3>1. history[q.token].expires > now => history[q.token].session # 0
      BY <1>2, DevicesTypes, DevicesBounds DEF DevicesInv, CredentialsApart
    <3> HIDE DEF p, q
    <3> QED BY <1>2, <1>3, <1>4, <1>5, <2>1, <3>1
  <2>5. RedeemsOK(x)' /\ RefreshOK(x)' /\ BurnedApart(r, x) /\ x \in RequestRecords
    <3> HIDE DEF p
    <3> QED BY <1>5, <2>1, <2>3, <2>4 DEF RedeemsOK, RefreshOK, Burned, BurnedApart
  <2> HIDE DEF p
  <2> QED BY <1>3, <1>4, <2>1, <2>5, RequestGoes DEF Devices!Go, DevicesInv
<1> QED BY <1>4, <1>6, <1>7 DEF DevicesInv

LEMMA RevokesKeep ==
  ASSUME DevicesInv, NEW ids \in SUBSET Devices!SessionIds, \A s \in ids : sessions[s].token # 0,
         sessions' = Devices!Revoked(ids), UNCHANGED now, UNCHANGED member, UNCHANGED links,
         UNCHANGED history, UNCHANGED issued, UNCHANGED reached, UNCHANGED window,
         UNCHANGED madeBy, UNCHANGED changes, UNCHANGED requests
  PROVE  DevicesInv'
<1>1. requests' \in [Sessions -> RequestRecords]
  BY DEF DevicesInv, Devices!TypeOK, RequestRecords
<1>2. /\ Devices!TypeOK' /\ CredentialsApart' /\ LinksBurned' /\ DevicesStill /\ reached' \subseteq 1..issued'
  BY <1>1, RevokedKeeps
<1> QED BY <1>2, RequestsStay DEF DevicesInv

LEMMA SignOutKeeps ==
  ASSUME DevicesInv, NEW t \in reached, Devices!SignOut(t)
  PROVE  DevicesInv'
<1>1. Devices!Live(t) \in SUBSET Devices!SessionIds /\ \A s \in Devices!Live(t) : sessions[s].token # 0
  BY DEF Devices!Live
<1> QED BY <1>1, RevokesKeep DEF Devices!SignOut

LEMMA RevokeDeviceKeeps ==
  ASSUME DevicesInv, NEW s \in Devices!SessionIds, Devices!RevokeDevice(s)
  PROVE  DevicesInv'
<1>1. {s} \in SUBSET Devices!SessionIds /\ \A o \in {s} : sessions[o].token # 0
  BY DEF Devices!RevokeDevice
<1> QED BY <1>1, RevokesKeep DEF Devices!RevokeDevice

LEMMA LinkExpireKeeps ==
  ASSUME DevicesInv, Devices!DeleteExpiredHistory
  PROVE  DevicesInv'
<1>1. /\ history' = [t \in Devices!Tokens |-> IF history[t].expires <= now THEN Devices!NoRow ELSE history[t]]
      /\ UNCHANGED now /\ UNCHANGED member /\ UNCHANGED links /\ UNCHANGED sessions /\ UNCHANGED issued
      /\ UNCHANGED reached /\ UNCHANGED window /\ UNCHANGED requests /\ UNCHANGED madeBy /\ UNCHANGED changes
  BY DEF Devices!DeleteExpiredHistory
<1>2. /\ history' \in [Devices!Tokens -> [session : 0..MaxSessions, expires : 0..MaxNow + SessionTTL]]
      /\ \A t \in Devices!Tokens : history'[t] = history[t] \/ (history'[t].session = 0 /\ history'[t].expires = 0)
  <2>1. Devices!NoRow \in [session : 0..MaxSessions, expires : 0..MaxNow + SessionTTL] /\ Devices!NoRow.session = 0 /\ Devices!NoRow.expires = 0
    BY DevicesBounds DEF Devices!NoRow
  <2> QED BY <1>1, <2>1 DEF DevicesInv, Devices!TypeOK
<1>3. Devices!TypeOK'
  BY <1>1, <1>2 DEF DevicesInv, Devices!TypeOK, Devices!Links, Devices!SessionIds, Devices!Tokens
<1>4. CredentialsApart'
  BY <1>1, <1>2 DEF DevicesInv, CredentialsApart
<1>5. LinksBurned'
  BY <1>1 DEF DevicesInv, LinksBurned, Devices!LinkSpentOnce
<1>6. DevicesStill
  <2> SUFFICES ASSUME NEW x \in RequestRecords, RedeemsOK(x), RefreshOK(x)
               PROVE  RedeemsOK(x)' /\ RefreshOK(x)'
    BY DEF DevicesStill
  <2>1. RedeemsOK(x)'
    BY <1>1 DEF RedeemsOK, Burned
  <2>2. ~(0 > now)
    BY DevicesTypes
  <2> QED BY <1>1, <1>2, <2>1, <2>2 DEF RefreshOK
<1>7. RequestsOK'
  BY <1>1, <1>6, RequestsStay DEF DevicesInv
<1> QED BY <1>1, <1>3, <1>4, <1>5, <1>7 DEF DevicesInv

LEMMA CrashKeeps ==
  ASSUME DevicesInv, Devices!Crash
  PROVE  DevicesInv'
<1>1. /\ requests' = [r \in Sessions |-> Devices!NoRequest]
      /\ UNCHANGED now /\ UNCHANGED member /\ UNCHANGED links /\ UNCHANGED sessions /\ UNCHANGED issued
      /\ UNCHANGED reached /\ UNCHANGED window /\ UNCHANGED history /\ UNCHANGED madeBy /\ UNCHANGED changes
  BY DEF Devices!Crash
<1>2. Devices!NoRequest \in RequestRecords
  BY DevicesBounds DEF Devices!NoRequest, RequestRecords
<1>3. Devices!TypeOK'
  BY <1>1, <1>2 DEF DevicesInv, Devices!TypeOK, RequestRecords, Devices!Links, Devices!SessionIds, Devices!Tokens
<1>4. CredentialsApart' /\ LinksBurned'
  BY <1>1 DEF DevicesInv, CredentialsApart, LinksBurned, Devices!LinkSpentOnce
<1>5. RequestsOK'
  BY <1>1, DevicesTypes DEF RequestsOK, RedeemsOK, RefreshOK, Burned, Devices!NoRequest
<1> QED BY <1>1, <1>3, <1>4, <1>5 DEF DevicesInv

LEMMA MembershipKeeps ==
  ASSUME DevicesInv, Devices!MembershipChanges
  PROVE  DevicesInv'
<1>1. /\ UNCHANGED now /\ UNCHANGED links /\ UNCHANGED sessions /\ UNCHANGED issued /\ UNCHANGED history
      /\ UNCHANGED reached /\ UNCHANGED window /\ UNCHANGED requests /\ UNCHANGED madeBy
      /\ member' = ~member /\ changes < MaxChanges /\ changes' = changes + 1
  BY DEF Devices!MembershipChanges
<1>2. Devices!TypeOK'
  <2>1. changes' \in 0..MaxChanges
    BY <1>1, DevicesBounds DEF DevicesInv, Devices!TypeOK
  <2>2. member' \in BOOLEAN
    BY <1>1
  <2> QED BY <1>1, <2>1, <2>2 DEF DevicesInv, Devices!TypeOK, RequestRecords, Devices!Links, Devices!SessionIds,
                                  Devices!Tokens
<1>3. CredentialsApart' /\ LinksBurned'
  BY <1>1 DEF DevicesInv, CredentialsApart, LinksBurned, Devices!LinkSpentOnce
<1>4. RequestsOK'
  BY <1>1, RequestsStay, RequestOnly DEF DevicesInv
<1> QED BY <1>1, <1>2, <1>3, <1>4 DEF DevicesInv

LEMMA TickKeeps ==
  ASSUME DevicesInv, Devices!Tick
  PROVE  DevicesInv'
<1>1. /\ UNCHANGED member /\ UNCHANGED links /\ UNCHANGED sessions /\ UNCHANGED issued /\ UNCHANGED history
      /\ UNCHANGED reached /\ UNCHANGED window /\ UNCHANGED requests /\ UNCHANGED madeBy /\ UNCHANGED changes
      /\ now < MaxNow /\ now' = now + 1 /\ now \in 0..MaxNow
  BY DevicesTypes DEF Devices!Tick
<1>2. now' \in 0..MaxNow
  BY <1>1, DevicesBounds
<1>3. Devices!TypeOK'
  BY <1>1, <1>2 DEF DevicesInv, Devices!TypeOK, RequestRecords, Devices!Links, Devices!SessionIds, Devices!Tokens
<1>4. CredentialsApart' /\ LinksBurned'
  BY <1>1 DEF DevicesInv, CredentialsApart, LinksBurned, Devices!LinkSpentOnce
<1>5. DevicesStill
  <2> SUFFICES ASSUME NEW x \in RequestRecords, RedeemsOK(x), RefreshOK(x)
               PROVE  RedeemsOK(x)' /\ RefreshOK(x)'
    BY DEF DevicesStill
  <2>1. RedeemsOK(x)'
    BY <1>1, DevicesBounds DEF RedeemsOK, Burned, RequestRecords
  <2>2. x.token \in Devices!Tokens => history[x.token].expires \in Nat
    <3>1. x.token \in Devices!Tokens => history[x.token] \in [session : 0..MaxSessions, expires : 0..MaxNow + SessionTTL]
      BY DEF DevicesInv, Devices!TypeOK
    <3> QED BY <3>1, DevicesBounds
  <2>3. x.token \in Devices!Tokens /\ history[x.token].expires > now' => history[x.token].expires > now
    BY <1>1, <2>2, DevicesBounds
  <2> QED BY <1>1, <2>1, <2>3 DEF RefreshOK
<1>6. RequestsOK'
  BY <1>1, <1>5, RequestsStay DEF DevicesInv
<1> QED BY <1>1, <1>3, <1>4, <1>6 DEF DevicesInv

LEMMA DevicesStep ==
  ASSUME DevicesInv, [Devices!Next]_DevicesVars
  PROVE  DevicesInv'
<1>1. CASE UNCHANGED DevicesVars
  <2>1. /\ UNCHANGED now /\ UNCHANGED links /\ UNCHANGED sessions /\ UNCHANGED issued /\ UNCHANGED history
        /\ UNCHANGED reached /\ UNCHANGED window /\ UNCHANGED requests /\ UNCHANGED madeBy
        /\ UNCHANGED member /\ UNCHANGED changes
    BY <1>1 DEF DevicesVars
  <2>2. Devices!TypeOK' /\ CredentialsApart' /\ LinksBurned'
    BY <2>1 DEF DevicesInv, Devices!TypeOK, Devices!Links, Devices!SessionIds, Devices!Tokens, CredentialsApart,
                LinksBurned, Devices!LinkSpentOnce
  <2>3. RequestsOK'
    BY <2>1, RequestsStay, RequestOnly DEF DevicesInv
  <2> QED BY <2>1, <2>2, <2>3 DEF DevicesInv
<1>2. ASSUME NEW l \in Devices!Links, Devices!RequestMagicLink(l) PROVE DevicesInv'
  BY <1>2, RequestLinkKeeps
<1>3. ASSUME NEW r \in Sessions, NEW l \in Devices!Links, Devices!RedeemMagicLink(r, l) PROVE DevicesInv'
  BY <1>3, RedeemBegins
<1>4. ASSUME NEW r \in Sessions, NEW t \in reached, Devices!RefreshSession(r, t) PROVE DevicesInv'
  BY <1>4, RefreshBegins
<1>5. ASSUME NEW r \in Sessions,
             \/ Devices!ConsumeMagicLink(r) \/ Devices!ResolveActiveUser(r) \/ Devices!CreateSession(r) \/ Devices!CheckCreated(r)
             \/ Devices!Answer(r) \/ Devices!RotationStarts(r) \/ Devices!RefreshRotates(r) \/ Devices!RefreshLooksBack(r)
             \/ Devices!RevokeLineage(r) \/ Devices!RefreshRefused(r)
      PROVE DevicesInv'
  BY <1>5, ConsumeKeeps, LinkResolveKeeps, CreateKeeps, CheckKeeps, AnswerKeeps, RotationStartKeeps,
     RotateKeeps, LookBackKeeps, LineageKeeps, RefusedKeeps
<1>6. ASSUME NEW t \in reached, Devices!SignOut(t) PROVE DevicesInv'
  BY <1>6, SignOutKeeps
<1>7. ASSUME NEW s \in Devices!SessionIds, Devices!RevokeDevice(s) PROVE DevicesInv'
  BY <1>7, RevokeDeviceKeeps
<1>8. CASE Devices!DeleteExpiredHistory \/ Devices!Crash \/ Devices!MembershipChanges \/ Devices!Tick
  BY <1>8, LinkExpireKeeps, CrashKeeps, MembershipKeeps, TickKeeps
<1> QED BY <1>1, <1>2, <1>3, <1>4, <1>5, <1>6, <1>7, <1>8 DEF Devices!Next

LEMMA DevicesSafe ==
  ASSUME DevicesInv
  PROVE  Devices!TypeOK /\ Devices!LinkSpentOnce /\ Devices!RaceIsNotReuse /\ Devices!ReuseEndsLineage
<1>1. Devices!RaceIsNotReuse /\ Devices!ReuseEndsLineage
  BY DEF DevicesInv, RequestsOK, RefreshOK, Devices!RaceIsNotReuse, Devices!ReuseEndsLineage
<1> QED BY <1>1 DEF DevicesInv, LinksBurned

(* A row the step leaves alone, or marks, or gives a credential never seen. *)
LEMMA DevicesFinal ==
  ASSUME DevicesInv,
         \A s \in Devices!SessionIds :
           \/ sessions'[s] = sessions[s]
           \/ ~sessions[s].revoked /\ sessions'[s].token \in {sessions[s].token, issued + 1}
  PROVE  Devices!RevokedIsFinal
<1>1. \A t \in Devices!Replaced : t \in Devices!Tokens /\ t <= issued /\ \A s \in Devices!SessionIds : sessions[s].token # t
  BY DEF Devices!Replaced, DevicesInv, CredentialsApart
<1>2. issued + 1 \notin Devices!Replaced
  BY <1>1, DevicesTypes, DevicesBounds DEF Devices!Tokens
<1> QED BY <1>1, <1>2 DEF Devices!RevokedIsFinal

LEMMA DevicesRevokeFinal ==
  ASSUME DevicesInv, NEW ids \in SUBSET Devices!SessionIds, sessions' = Devices!Revoked(ids)
  PROVE  Devices!RevokedIsFinal
<1>1. sessions \in [Devices!SessionIds -> [token : 0..MaxTokens, expires : 0..MaxNow + SessionTTL, revoked : BOOLEAN]]
  BY DEF DevicesInv, Devices!TypeOK
<1>2. ASSUME NEW s \in Devices!SessionIds
      PROVE  \/ sessions'[s] = sessions[s]
             \/ ~sessions[s].revoked /\ sessions'[s].token = sessions[s].token
  <2>1. sessions'[s] = [sessions[s] EXCEPT !.revoked = sessions[s].revoked \/ s \in ids]
    BY DEF Devices!Revoked
  <2>2. sessions[s] \in [token : 0..MaxTokens, expires : 0..MaxNow + SessionTTL, revoked : BOOLEAN]
    BY <1>1
  <2>3. CASE sessions[s].revoked
    <3>1. (sessions[s].revoked \/ s \in ids) = sessions[s].revoked
      BY <2>2, <2>3
    <3> QED BY <2>1, <2>2, <3>1
  <2>4. CASE ~sessions[s].revoked
    BY <2>1, <2>2, <2>4, Zenon
  <2> QED BY <2>3, <2>4
<1> QED BY <1>2, DevicesFinal

LEMMA DevicesEndsStay ==
  ASSUME DevicesInv, [Devices!Next]_DevicesVars
  PROVE  Devices!RevokedIsFinal
<1>1. CASE UNCHANGED sessions
  BY <1>1, DevicesFinal
<1>2. ASSUME NEW r \in Sessions, Devices!CreateSession(r)
      PROVE  Devices!RevokedIsFinal
  <2> DEFINE fresh == {s \in Devices!SessionIds : sessions[s].token = 0}
             s == CHOOSE x \in fresh : \A y \in fresh : x <= y
             n == [token |-> issued + 1, expires |-> requests[r].at + SessionTTL, revoked |-> FALSE]
  <2>1. sessions' = [sessions EXCEPT ![s] = n] /\ fresh # {}
    BY <1>2 DEF Devices!CreateSession, Devices!Inserted
  <2>2. s \in Devices!SessionIds /\ sessions[s].token = 0
    <3>1. fresh \in SUBSET Nat
      BY DevicesBounds DEF Devices!SessionIds
    <3>2. \E x \in fresh : \A y \in fresh : x <= y
      <4> HIDE DEF fresh
      <4> QED BY <2>1, <3>1, HasLeast
    <3>3. s \in fresh
      BY <3>2, Zenon
    <3> HIDE DEF s
    <3> QED BY <3>3
  <2>3. ~sessions[s].revoked
    BY <2>2 DEF DevicesInv, LinksBurned
  <2>4. n.token = issued + 1
    OBVIOUS
  <2> HIDE DEF s, fresh, n
  <2>5. \A o \in Devices!SessionIds : sessions'[o] = IF o = s THEN n ELSE sessions[o]
    BY <2>1, <2>2 DEF DevicesInv, Devices!TypeOK
  <2> QED BY <2>3, <2>4, <2>5, DevicesFinal
<1>3. ASSUME NEW r \in Sessions, Devices!RefreshRotates(r)
      PROVE  Devices!RevokedIsFinal
  <2>1. ASSUME NEW s \in Devices!Live(requests[r].token), Devices!Rotated(s, issued + 1, requests[r].at + SessionTTL)
        PROVE  Devices!RevokedIsFinal
    <3>1. s \in Devices!SessionIds /\ ~sessions[s].revoked
      BY DEF Devices!Live
    <3>2. \A o \in Devices!SessionIds : IF o = s THEN sessions'[o].token = issued + 1 ELSE sessions'[o] = sessions[o]
      BY <2>1, <3>1 DEF Devices!Rotated, DevicesInv, Devices!TypeOK
    <3> QED BY <3>1, <3>2, DevicesFinal
  <2> QED BY <1>1, <1>3, <2>1 DEF Devices!RefreshRotates
<1>4. ASSUME NEW r \in Sessions, Devices!RevokeLineage(r)
      PROVE  Devices!RevokedIsFinal
  <2>1. requests[r].id \in Devices!SessionIds
    BY <1>4 DEF DevicesInv, RequestsOK, RefreshOK, Devices!RevokeLineage
  <2>2. {requests[r].id} \in SUBSET Devices!SessionIds
    BY <2>1
  <2> QED BY <1>4, <2>2, DevicesRevokeFinal DEF Devices!RevokeLineage
<1>5. ASSUME NEW t \in reached, Devices!SignOut(t)
      PROVE  Devices!RevokedIsFinal
  <2>1. Devices!Live(t) \in SUBSET Devices!SessionIds
    BY DEF Devices!Live
  <2> QED BY <1>5, <2>1, DevicesRevokeFinal DEF Devices!SignOut
<1>6. ASSUME NEW s \in Devices!SessionIds, Devices!RevokeDevice(s)
      PROVE  Devices!RevokedIsFinal
  <2>1. {s} \in SUBSET Devices!SessionIds
    OBVIOUS
  <2> QED BY <1>6, <2>1, DevicesRevokeFinal DEF Devices!RevokeDevice
<1>7. CASE UNCHANGED DevicesVars
  BY <1>1, <1>7 DEF DevicesVars
<1>8. ASSUME NEW l \in Devices!Links, Devices!RequestMagicLink(l) PROVE UNCHANGED sessions
  BY <1>8 DEF Devices!RequestMagicLink
<1>9. ASSUME NEW r \in Sessions,
             \/ \E l \in Devices!Links : Devices!RedeemMagicLink(r, l)
             \/ \E t \in reached : Devices!RefreshSession(r, t)
             \/ Devices!ConsumeMagicLink(r) \/ Devices!ResolveActiveUser(r) \/ Devices!CheckCreated(r)
             \/ Devices!Answer(r) \/ Devices!RotationStarts(r) \/ Devices!RefreshLooksBack(r) \/ Devices!RefreshRefused(r)
      PROVE  UNCHANGED sessions
  BY <1>9 DEF Devices!RedeemMagicLink, Devices!RefreshSession, Devices!ConsumeMagicLink,
              Devices!ResolveActiveUser, Devices!CheckCreated,
     Devices!Answer, Devices!RotationStarts, Devices!RefreshLooksBack, Devices!RefreshRefused
<1>10. CASE Devices!DeleteExpiredHistory \/ Devices!Crash \/ Devices!MembershipChanges \/ Devices!Tick
  BY <1>1, <1>10 DEF Devices!DeleteExpiredHistory, Devices!Crash, Devices!MembershipChanges, Devices!Tick
<1> QED BY <1>1, <1>2, <1>3, <1>4, <1>5, <1>6, <1>7, <1>8, <1>9, <1>10 DEF Devices!Next

-----------------------------------------------------------------------------
(* Signing in through the provider.                                        *)

(* A code is put to the provider only once its transaction is consumed.    *)
CodesOnce == \A t \in AuthKit!Transactions : spent[t] <= 1 /\ (transactions[t].state # "consumed" => spent[t] = 0)

Known(p) == p \in Subjects /\ provider[p] # "none"
HandoffsKnown == \A h \in AuthKit!Handoffs : handoffs[h].state = "none" \/ Known(handoffs[h].upstream)

(* A linked session carries the provider's session it was made for, until  *)
(* it is revoked; its handoff is consumed and made no other one.           *)
LinkedKnown ==
  /\ \A s \in AuthKit!Linked :
       /\ linked[s].state # "active" => linked[s].upstream = Nobody
       /\ linked[s].state = "none" => madeFrom[s].handoff = 0
       /\ linked[s].upstream # Nobody => madeFrom[s].upstream = linked[s].upstream
       /\ linked[s].state # "none" => Known(madeFrom[s].upstream)
       /\ madeFrom[s].handoff # 0 => handoffs[madeFrom[s].handoff].state = "consumed"
  /\ \A s, o \in AuthKit!Linked : s # o /\ madeFrom[s].handoff # 0 => madeFrom[s].handoff # madeFrom[o].handoff

(* Where a handler is, and what it may rely on there.                      *)
HoldsSession(q) == q.pc \in {"events", "insert", "apply"}
HandlerOK(q) ==
  /\ q.pc = "consume" => q.id \in AuthKit!Transactions /\ transactions[q.id].state # "none"
  /\ q.pc = "code" => q.id \in AuthKit!Transactions /\ transactions[q.id].state = "consumed" /\ spent[q.id] = 0
  /\ q.pc = "admit" => Known(q.upstream)
  /\ q.pc = "select" => q.kind = "exchange" /\ q.id \in AuthKit!Handoffs /\ handoffs[q.id].state # "none"
  /\ q.pc \in {"events", "insert"} => q.kind = "exchange"
  /\ q.pc \in {"advisory", "events", "insert"} /\ q.kind = "exchange" => q.id \in AuthKit!Handoffs /\ Known(q.upstream)
  /\ q.pc = "apply" => q.kind = "webhook"
  /\ q.kind = "webhook" => q.upstream \in Subjects
  /\ q.pc = "insert" => ~events[q.upstream].stored
HandlersApart(p, q) ==
  /\ p.pc = "code" /\ q.pc = "code" => p.id # q.id
  /\ HoldsSession(p) /\ HoldsSession(q) => p.upstream # q.upstream
HandlersOK ==
  /\ \A r \in Sessions : HandlerOK(handlers[r])
  /\ \A r, o \in Sessions : r # o => HandlersApart(handlers[r], handlers[o])

ReconOK ==
  /\ \A s \in recon.snapshot : linked[s].state # "none" /\ Known(madeFrom[s].upstream)
  /\ AuthKit!ReconcileIsJust

AuthKitInv ==
  AuthKit!TypeOK /\ CodesOnce /\ HandoffsKnown /\ LinkedKnown /\ AuthKit!RevocationReachesAll /\ HandlersOK /\ ReconOK

HandlerRecords ==
  [kind : {"none", "callback", "exchange", "webhook"},
   pc : {"none", "consume", "code", "admit", "select", "advisory", "events", "insert", "apply"},
   at : 0..MaxClock, id : 0..MaxTransactions + MaxHandoffs, upstream : AuthKit!MaybeUpstream]

LEMMA AuthKitTypes ==
  ASSUME AuthKit!TypeOK
  PROVE  /\ clock \in 0..MaxClock
         /\ AuthKit!Transactions \subseteq Nat /\ AuthKit!Handoffs \subseteq Nat /\ AuthKit!Linked \subseteq Nat
         /\ AuthKit!Transactions \subseteq 0..MaxTransactions + MaxHandoffs
         /\ AuthKit!Handoffs \subseteq 0..MaxTransactions + MaxHandoffs
         /\ AuthKit!Handoffs = (0..MaxHandoffs) \ {0} /\ AuthKit!Handoffs \subseteq 0..MaxHandoffs
         /\ \A r \in Sessions : handlers[r] \in HandlerRecords
         /\ \A t \in AuthKit!Transactions : transactions[t] \in [state : {"none", "open", "consumed"},
                                        expires : 0..MaxClock + TransactionTTL]
         /\ \A h \in AuthKit!Handoffs : handoffs[h] \in [state : {"none", "open", "consumed"},
                                  upstream : AuthKit!MaybeUpstream, expires : 0..MaxClock + HandoffTTL]
         /\ \A s \in AuthKit!Linked : linked[s] \in [state : {"none", "active", "revoked"},
                                upstream : AuthKit!MaybeUpstream, expires : 0..MaxClock + LinkedTTL]
         /\ \A s \in AuthKit!Linked : madeFrom[s] \in [handoff : 0..MaxHandoffs, upstream : AuthKit!MaybeUpstream]
<1>1. clock \in 0..MaxClock
  BY DEF AuthKit!TypeOK
<1>2. AuthKit!Transactions \subseteq Nat /\ AuthKit!Handoffs \subseteq Nat /\ AuthKit!Linked \subseteq Nat
      /\ AuthKit!Transactions \subseteq 0..MaxTransactions + MaxHandoffs
      /\ AuthKit!Handoffs \subseteq 0..MaxTransactions + MaxHandoffs
      /\ AuthKit!Handoffs = (0..MaxHandoffs) \ {0} /\ AuthKit!Handoffs \subseteq 0..MaxHandoffs
  BY AuthKitBounds DEF AuthKit!Transactions, AuthKit!Handoffs, AuthKit!Linked
<1> QED BY <1>1, <1>2 DEF AuthKit!TypeOK, HandlerRecords

LEMMA LeastIn ==
  ASSUME NEW S \in SUBSET Nat, S # {}
  PROVE  AuthKit!Least(S) \in S
<1>1. \E x \in S : \A y \in S : x <= y
  BY HasLeast
<1> QED BY <1>1, Zenon DEF AuthKit!Least

LEMMA AuthKitInit == AuthKit!Init => AuthKitInv
<1> SUFFICES ASSUME AuthKit!Init PROVE AuthKitInv
  OBVIOUS
<1> USE AuthKitBounds DEF AuthKit!Init
<1>1. AuthKit!TypeOK
  BY DEF AuthKit!TypeOK, AuthKit!Idle, AuthKit!NotReconciling, AuthKit!Transactions, AuthKit!Handoffs,
         AuthKit!Linked, AuthKit!MaybeUpstream
<1>2. CodesOnce /\ HandoffsKnown
  BY DEF CodesOnce, HandoffsKnown
<1>3. LinkedKnown
  BY DEF LinkedKnown
<1>4. AuthKit!RevocationReachesAll
  BY DEF AuthKit!RevocationReachesAll
<1>5. HandlersOK
  BY DEF HandlersOK, HandlerOK, HandlersApart, HoldsSession, AuthKit!Idle
<1>6. ReconOK
  BY DEF ReconOK, AuthKit!ReconcileIsJust, AuthKit!NotReconciling
<1> QED BY <1>1, <1>2, <1>3, <1>4, <1>5, <1>6 DEF AuthKitInv

(* What the other handlers rely on, they still may.                        *)
HandlersStill ==
  \A q \in HandlerRecords : HandlerOK(q) /\ (\E o \in Sessions : handlers[o] = q) => HandlerOK(q)'
HandlersStillBut(r) ==
  \A q \in HandlerRecords :
    HandlerOK(q) /\ (\E o \in Sessions : o # r /\ handlers[o] = q) => HandlerOK(q)'

LEMMA HandlerGoes ==
  ASSUME AuthKit!TypeOK, HandlersOK, NEW r \in Sessions, NEW q \in HandlerRecords, HandlersStillBut(r), AuthKit!Go(r, q),
         HandlerOK(q)', \A o \in Sessions : o # r => HandlersApart(handlers[o], q)
  PROVE  HandlersOK'
<1>1. ASSUME NEW o \in Sessions
      PROVE  handlers'[o] = IF o = r THEN q ELSE handlers[o]
  BY DEF AuthKit!TypeOK, AuthKit!Go
<1>2. ASSUME NEW o \in Sessions
      PROVE  HandlerOK(handlers[o])'
  <2>1. PICK x : x = IF o = r THEN q ELSE handlers[o]
    OBVIOUS
  <2>2. HandlerOK(x)'
    <3>1. CASE o = r
      BY <2>1, <3>1
    <3>2. CASE o # r
      BY <2>1, <3>2, AuthKitTypes DEF HandlersOK, HandlersStillBut
    <3> QED BY <3>1, <3>2
  <2>3. handlers'[o] = x
    BY <1>1, <2>1
  <2> QED BY <2>2, <2>3 DEF HandlerOK, Known
<1>3. ASSUME NEW a \in Sessions, NEW o \in Sessions, a # o
      PROVE  HandlersApart(handlers[a], handlers[o])'
  <2>1. PICK x : x = handlers'[a]
    OBVIOUS
  <2>2. PICK y : y = handlers'[o]
    OBVIOUS
  <2>3. HandlersApart(x, y)
    BY <1>1, <1>3, <2>1, <2>2 DEF HandlersOK, HandlersApart
  <2> QED BY <2>1, <2>2, <2>3 DEF HandlersApart, HoldsSession
<1> QED BY <1>2, <1>3 DEF HandlersOK

LEMMA HandlersStay ==
  ASSUME AuthKit!TypeOK, HandlersOK, HandlersStill, UNCHANGED handlers
  PROVE  HandlersOK'
<1>1. ASSUME NEW o \in Sessions
      PROVE  HandlerOK(handlers[o])'
  <2>1. PICK x : x = handlers[o]
    OBVIOUS
  <2>2. HandlerOK(x)'
    BY <2>1, AuthKitTypes DEF HandlersOK, HandlersStill
  <2> QED BY <2>1, <2>2 DEF HandlerOK, Known
<1> QED BY <1>1 DEF HandlersOK, HandlersApart, HoldsSession

LEMMA IdleOK ==
  /\ AuthKit!Idle \in HandlerRecords /\ HandlerOK(AuthKit!Idle) /\ HandlerOK(AuthKit!Idle)'
  /\ \A q : HandlersApart(q, AuthKit!Idle)
<1>1. PICK x : x = AuthKit!Idle
  OBVIOUS
<1>2. x \in HandlerRecords /\ x.pc = "none" /\ x.kind = "none"
  BY <1>1, AuthKitBounds DEF AuthKit!Idle, HandlerRecords, AuthKit!MaybeUpstream
<1>3. HandlerOK(x) /\ HandlerOK(x)'
  BY <1>2 DEF HandlerOK
<1>4. \A q : HandlersApart(q, x)
  BY <1>2 DEF HandlersApart, HoldsSession
<1> QED BY <1>1, <1>2, <1>3, <1>4 DEF HandlerOK, Known, AuthKit!Idle

LEMMA HandlerEnds ==
  ASSUME AuthKit!TypeOK, HandlersOK, NEW r \in Sessions, HandlersStillBut(r), AuthKit!Ends(r)
  PROVE  HandlersOK'
BY IdleOK, HandlerGoes DEF AuthKit!Ends

LEMMA HandlersTyped ==
  ASSUME AuthKit!TypeOK, NEW r \in Sessions, NEW q \in HandlerRecords, AuthKit!Go(r, q)
  PROVE  handlers' \in [Sessions -> HandlerRecords]
BY AuthKitTypes DEF AuthKit!TypeOK, AuthKit!Go

(* A step of handler r that touches nothing else.                          *)
LEMMA HandlerOnly ==
  ASSUME AuthKitInv, NEW r \in Sessions, NEW q \in HandlerRecords, AuthKit!Go(r, q), HandlerOK(q),
         \A o \in Sessions : o # r => HandlersApart(handlers[o], q),
         UNCHANGED clock, UNCHANGED admitting, UNCHANGED transactions, UNCHANGED handoffs,
         UNCHANGED linked, UNCHANGED events, UNCHANGED provider, UNCHANGED recon,
         UNCHANGED spent, UNCHANGED madeFrom
  PROVE  AuthKitInv'
<1>1. AuthKit!TypeOK'
  BY HandlersTyped DEF AuthKitInv, AuthKit!TypeOK, HandlerRecords, AuthKit!Transactions, AuthKit!Handoffs,
                       AuthKit!Linked, AuthKit!MaybeUpstream
<1>2. CodesOnce' /\ HandoffsKnown' /\ LinkedKnown'
  BY DEF AuthKitInv, CodesOnce, HandoffsKnown, LinkedKnown, Known
<1>3. AuthKit!RevocationReachesAll'
  BY DEF AuthKitInv, AuthKit!RevocationReachesAll, AuthKit!ActiveLinks
<1>4. ReconOK'
  BY DEF AuthKitInv, ReconOK, AuthKit!ReconcileIsJust, Known
<1>5. HandlersStillBut(r) /\ HandlerOK(q)'
  BY DEF HandlersStillBut, HandlerOK, Known
<1>6. HandlersOK'
  BY <1>5, HandlerGoes DEF AuthKitInv
<1> QED BY <1>1, <1>2, <1>3, <1>4, <1>6 DEF AuthKitInv

LEMMA CallbackKeeps ==
  ASSUME AuthKitInv, NEW r \in Sessions, NEW t \in AuthKit!Transactions, AuthKit!CallbackArrives(r, t)
  PROVE  AuthKitInv'
<1> DEFINE q == [kind |-> "callback", pc |-> "consume", at |-> clock, id |-> t, upstream |-> Nobody]
<1>1. q \in HandlerRecords
  BY AuthKitTypes DEF HandlerRecords, AuthKit!MaybeUpstream, AuthKitInv
<1>2. HandlerOK(q) /\ (\A o \in Sessions : o # r => HandlersApart(handlers[o], q)) /\ AuthKit!Go(r, q)
  BY DEF HandlerOK, HandlersApart, HoldsSession, AuthKit!CallbackArrives, AuthKit!Begin
<1> HIDE DEF q
<1> QED BY <1>1, <1>2, HandlerOnly DEF AuthKit!CallbackArrives

LEMMA ExchangeKeeps ==
  ASSUME AuthKitInv, NEW r \in Sessions, NEW h \in AuthKit!Handoffs, AuthKit!ExchangeArrives(r, h)
  PROVE  AuthKitInv'
<1> DEFINE q == [kind |-> "exchange", pc |-> "select", at |-> clock, id |-> h, upstream |-> Nobody]
<1>1. q \in HandlerRecords
  BY AuthKitTypes DEF HandlerRecords, AuthKit!MaybeUpstream, AuthKitInv
<1>2. HandlerOK(q) /\ (\A o \in Sessions : o # r => HandlersApart(handlers[o], q)) /\ AuthKit!Go(r, q)
  BY DEF HandlerOK, HandlersApart, HoldsSession, AuthKit!ExchangeArrives, AuthKit!Begin
<1> HIDE DEF q
<1> QED BY <1>1, <1>2, HandlerOnly DEF AuthKit!ExchangeArrives

LEMMA WebhookKeeps ==
  ASSUME AuthKitInv, NEW r \in Sessions, NEW p \in Subjects, AuthKit!WebhookArrives(r, p)
  PROVE  AuthKitInv'
<1> DEFINE q == [kind |-> "webhook", pc |-> "advisory", at |-> clock, id |-> 0, upstream |-> p]
<1>1. q \in HandlerRecords
  <2>1. 0 \in 0..MaxTransactions + MaxHandoffs
    BY AuthKitBounds
  <2> QED BY <2>1, AuthKitTypes DEF HandlerRecords, AuthKit!MaybeUpstream, AuthKitInv
<1>2. HandlerOK(q) /\ (\A o \in Sessions : o # r => HandlersApart(handlers[o], q)) /\ AuthKit!Go(r, q)
  BY DEF HandlerOK, HandlersApart, HoldsSession, AuthKit!WebhookArrives, AuthKit!Begin
<1> HIDE DEF q
<1> QED BY <1>1, <1>2, HandlerOnly DEF AuthKit!WebhookArrives

LEMMA HandlerAt ==
  ASSUME AuthKitInv, NEW r \in Sessions
  PROVE  handlers[r] \in HandlerRecords /\ HandlerOK(handlers[r])
         /\ \A o \in Sessions : o # r => HandlersApart(handlers[o], handlers[r])
BY AuthKitTypes DEF AuthKitInv, HandlersOK

LEMMA HandlerStops ==
  ASSUME AuthKitInv, NEW r \in Sessions, AuthKit!Ends(r),
         UNCHANGED clock, UNCHANGED admitting, UNCHANGED transactions, UNCHANGED handoffs,
         UNCHANGED linked, UNCHANGED events, UNCHANGED provider, UNCHANGED recon,
         UNCHANGED spent, UNCHANGED madeFrom
  PROVE  AuthKitInv'
BY IdleOK, HandlerOnly DEF AuthKit!Ends

LEMMA SelectKeeps ==
  ASSUME AuthKitInv, NEW r \in Sessions, AuthKit!SelectHandoff(r)
  PROVE  AuthKitInv'
<1> DEFINE q == handlers[r]
           p == handoffs[q.id].upstream
           n == [q EXCEPT !.pc = "advisory", !.upstream = p]
<1>1. /\ q \in HandlerRecords /\ q.kind = "exchange" /\ q.id \in AuthKit!Handoffs /\ handoffs[q.id].state # "none"
      /\ Known(p)
  BY HandlerAt DEF HandlerOK, AuthKit!SelectHandoff, AuthKitInv, HandoffsKnown
<1>2. CASE AuthKit!Ends(r)
  BY <1>2, HandlerStops DEF AuthKit!SelectHandoff
<1>3. CASE AuthKit!Go(r, n)
  <2> DEFINE a == [q EXCEPT !.pc = "advisory"]
             b == [a EXCEPT !.upstream = p]
  <2>1. a \in HandlerRecords /\ a.pc = "advisory" /\ a.kind = "exchange" /\ a.id = q.id
    BY <1>1 DEF HandlerRecords
  <2>2. b \in HandlerRecords /\ b.pc = "advisory" /\ b.kind = "exchange" /\ b.id = q.id /\ b.upstream = p
    <3>1. p \in AuthKit!MaybeUpstream
      BY <1>1 DEF Known, AuthKit!MaybeUpstream
    <3> HIDE DEF a, p, q
    <3> QED BY <2>1, <3>1 DEF HandlerRecords
  <2>3. n = b
    OBVIOUS
  <2> HIDE DEF a, b, n
  <2>4. HandlerOK(n) /\ \A o \in Sessions : o # r => HandlersApart(handlers[o], n)
    BY <1>1, <2>2, <2>3 DEF HandlerOK, HandlersApart, HoldsSession
  <2> QED BY <1>3, <2>2, <2>3, <2>4, HandlerOnly DEF AuthKit!SelectHandoff
<1> QED BY <1>2, <1>3 DEF AuthKit!SelectHandoff

LEMMA ExchangeLockKeeps ==
  ASSUME AuthKitInv, NEW r \in Sessions, AuthKit!ExchangeLocksSession(r)
  PROVE  AuthKitInv'
<1> DEFINE q == handlers[r]
           n == [q EXCEPT !.pc = "events"]
<1>1. /\ q \in HandlerRecords /\ q.kind = "exchange" /\ q.id \in AuthKit!Handoffs /\ Known(q.upstream)
      /\ \A o \in Sessions : HoldsSession(handlers[o]) => handlers[o].upstream # q.upstream
  BY HandlerAt DEF HandlerOK, AuthKit!ExchangeLocksSession, AuthKit!LockWorkOSSession, HoldsSession
<1>2. n \in HandlerRecords /\ n.pc = "events" /\ n.kind = "exchange" /\ n.id = q.id /\ n.upstream = q.upstream
  BY <1>1 DEF HandlerRecords
<1>3. AuthKit!Go(r, n)
  BY DEF AuthKit!ExchangeLocksSession
<1> HIDE DEF n
<1>4. HandlerOK(n) /\ \A o \in Sessions : o # r => HandlersApart(handlers[o], n)
  BY <1>1, <1>2 DEF HandlerOK, HandlersApart
<1> QED BY <1>2, <1>3, <1>4, HandlerOnly DEF AuthKit!ExchangeLocksSession

LEMMA WebhookLockKeeps ==
  ASSUME AuthKitInv, NEW r \in Sessions, AuthKit!WebhookLocksSession(r)
  PROVE  AuthKitInv'
<1> DEFINE q == handlers[r]
           n == [q EXCEPT !.pc = "apply"]
<1>1. /\ q \in HandlerRecords /\ q.kind = "webhook" /\ q.upstream \in Subjects
      /\ \A o \in Sessions : HoldsSession(handlers[o]) => handlers[o].upstream # q.upstream
  BY HandlerAt DEF HandlerOK, AuthKit!WebhookLocksSession, AuthKit!LockWorkOSSession, HoldsSession
<1>2. n \in HandlerRecords /\ n.pc = "apply" /\ n.kind = "webhook" /\ n.upstream = q.upstream
  BY <1>1 DEF HandlerRecords
<1>3. AuthKit!Go(r, n)
  BY DEF AuthKit!WebhookLocksSession
<1> HIDE DEF n
<1>4. HandlerOK(n) /\ \A o \in Sessions : o # r => HandlersApart(handlers[o], n)
  BY <1>1, <1>2 DEF HandlerOK, HandlersApart
<1> QED BY <1>2, <1>3, <1>4, HandlerOnly DEF AuthKit!WebhookLocksSession

LEMMA CheckRevocationKeeps ==
  ASSUME AuthKitInv, NEW r \in Sessions, AuthKit!CheckRevocation(r)
  PROVE  AuthKitInv'
<1> DEFINE q == handlers[r]
           n == [q EXCEPT !.pc = "insert"]
<1>1. /\ q \in HandlerRecords /\ q.kind = "exchange" /\ q.id \in AuthKit!Handoffs /\ Known(q.upstream)
      /\ q.pc = "events"
      /\ \A o \in Sessions : o # r => HandlersApart(handlers[o], q)
  BY HandlerAt DEF HandlerOK, AuthKit!CheckRevocation
<1>2. CASE events[q.upstream].stored
  BY <1>2, HandlerStops DEF AuthKit!CheckRevocation
<1>3. CASE ~events[q.upstream].stored
  <2>1. n \in HandlerRecords /\ n.pc = "insert" /\ n.kind = "exchange" /\ n.id = q.id /\ n.upstream = q.upstream
    BY <1>1 DEF HandlerRecords
  <2>2. AuthKit!Go(r, n)
    BY <1>3 DEF AuthKit!CheckRevocation
  <2> HIDE DEF n
  <2>3. HandlerOK(n) /\ \A o \in Sessions : o # r => HandlersApart(handlers[o], n)
    BY <1>1, <1>3, <2>1 DEF HandlerOK, HandlersApart, HoldsSession
  <2> QED BY <2>1, <2>2, <2>3, HandlerOnly DEF AuthKit!CheckRevocation
<1> QED BY <1>2, <1>3

LEMMA BeginKeeps ==
  ASSUME AuthKitInv, AuthKit!BeginDesktopAuthorization
  PROVE  AuthKitInv'
<1> DEFINE t == AuthKit!Least(AuthKit!Fresh(transactions))
<1>1. t \in AuthKit!Transactions /\ transactions[t].state = "none"
  <2>1. AuthKit!Fresh(transactions) \in SUBSET Nat /\ AuthKit!Fresh(transactions) # {}
    BY AuthKitTypes DEF AuthKitInv, AuthKit!TypeOK, AuthKit!Fresh, AuthKit!BeginDesktopAuthorization
  <2>2. t \in AuthKit!Fresh(transactions)
    BY <2>1, LeastIn
  <2> QED BY <2>2 DEF AuthKit!Fresh, AuthKitInv, AuthKit!TypeOK
<1> HIDE DEF t
<1>2. /\ transactions' = [transactions EXCEPT ![t] = [state |-> "open", expires |-> clock + TransactionTTL]]
      /\ UNCHANGED clock /\ UNCHANGED admitting /\ UNCHANGED handoffs /\ UNCHANGED linked
      /\ UNCHANGED events /\ UNCHANGED provider /\ UNCHANGED handlers /\ UNCHANGED recon
      /\ UNCHANGED spent /\ UNCHANGED madeFrom
  BY DEF AuthKit!BeginDesktopAuthorization, t
<1>3. transactions' \in [AuthKit!Transactions -> [state : {"none", "open", "consumed"}, expires : 0..MaxClock + TransactionTTL]]
  <2>1. clock + TransactionTTL \in 0..MaxClock + TransactionTTL
    BY AuthKitTypes, AuthKitBounds DEF AuthKitInv
  <2> QED BY <1>1, <1>2, <2>1 DEF AuthKitInv, AuthKit!TypeOK
<1>4. AuthKit!TypeOK'
  BY <1>2, <1>3 DEF AuthKitInv, AuthKit!TypeOK, AuthKit!Transactions, AuthKit!Handoffs, AuthKit!Linked,
                    AuthKit!MaybeUpstream
<1>5. \A u \in AuthKit!Transactions : transactions'[u] = IF u = t THEN [state |-> "open", expires |-> clock + TransactionTTL]
                                                                  ELSE transactions[u]
  BY <1>2 DEF AuthKitInv, AuthKit!TypeOK
<1>6. CodesOnce'
  BY <1>1, <1>2, <1>5 DEF AuthKitInv, CodesOnce
<1>7. HandoffsKnown' /\ LinkedKnown'
  BY <1>2 DEF AuthKitInv, HandoffsKnown, LinkedKnown, Known
<1>8. AuthKit!RevocationReachesAll' /\ ReconOK'
  BY <1>2 DEF AuthKitInv, AuthKit!RevocationReachesAll, AuthKit!ActiveLinks, ReconOK, AuthKit!ReconcileIsJust, Known
<1>9. HandlersStill
  BY <1>1, <1>2, <1>5 DEF HandlersStill, HandlerOK, Known
<1>10. HandlersOK'
  BY <1>2, <1>9, HandlersStay DEF AuthKitInv
<1> QED BY <1>4, <1>6, <1>7, <1>8, <1>10 DEF AuthKitInv

LEMMA ConsumeKeepsCode ==
  ASSUME AuthKitInv, NEW r \in Sessions, AuthKit!ConsumeTransaction(r)
  PROVE  AuthKitInv'
<1> DEFINE q == handlers[r]
           t == q.id
           n == [q EXCEPT !.pc = "code"]
<1>1. q \in HandlerRecords /\ q.pc = "consume" /\ t \in AuthKit!Transactions
  BY HandlerAt DEF HandlerOK, AuthKit!ConsumeTransaction
<1>2. CASE ~(transactions[t].state = "open" /\ transactions[t].expires > q.at)
  BY <1>2, HandlerStops DEF AuthKit!ConsumeTransaction
<1>3. CASE transactions[t].state = "open" /\ transactions[t].expires > q.at
  <2>1. /\ transactions' = [transactions EXCEPT ![t].state = "consumed"]
        /\ UNCHANGED clock /\ UNCHANGED admitting /\ UNCHANGED handoffs /\ UNCHANGED linked
        /\ UNCHANGED events /\ UNCHANGED provider /\ UNCHANGED recon
        /\ UNCHANGED spent /\ UNCHANGED madeFrom
        /\ AuthKit!Go(r, n) \/ AuthKit!Ends(r)
    BY <1>3 DEF AuthKit!ConsumeTransaction
  <2>2. transactions' \in [AuthKit!Transactions -> [state : {"none", "open", "consumed"}, expires : 0..MaxClock + TransactionTTL]]
        /\ \A u \in AuthKit!Transactions : transactions'[u].state = IF u = t THEN "consumed" ELSE transactions[u].state
    <3>1. transactions \in [AuthKit!Transactions -> [state : {"none", "open", "consumed"}, expires : 0..MaxClock + TransactionTTL]]
      BY DEF AuthKitInv, AuthKit!TypeOK
    <3> HIDE DEF q, t
    <3> QED BY <1>1, <2>1, <3>1
  <2>3. n \in HandlerRecords /\ n.pc = "code" /\ n.id = t /\ n.kind = q.kind /\ n.upstream = q.upstream
    BY <1>1 DEF HandlerRecords
  <2>4. AuthKit!TypeOK'
    <3>1. handlers' \in [Sessions -> HandlerRecords]
      BY <2>1, <2>3, HandlersTyped, IdleOK DEF AuthKit!Ends, AuthKitInv
    <3> QED BY <2>1, <2>2, <3>1 DEF AuthKitInv, AuthKit!TypeOK, HandlerRecords, AuthKit!Transactions,
                                    AuthKit!Handoffs, AuthKit!Linked, AuthKit!MaybeUpstream
  <2>5. CodesOnce'
    BY <2>1, <2>2 DEF AuthKitInv, CodesOnce
  <2>6. HandoffsKnown' /\ LinkedKnown'
    BY <2>1 DEF AuthKitInv, HandoffsKnown, LinkedKnown, Known
  <2>7. AuthKit!RevocationReachesAll' /\ ReconOK'
    BY <2>1 DEF AuthKitInv, AuthKit!RevocationReachesAll, AuthKit!ActiveLinks, ReconOK, AuthKit!ReconcileIsJust,
                Known
  <2>8. HandlersStillBut(r)
    BY <2>1, <2>2 DEF HandlersStillBut, HandlerOK, Known
  <2>9. HandlersOK'
    <3>1. CASE AuthKit!Ends(r)
      BY <2>8, <3>1, HandlerEnds DEF AuthKitInv
    <3>2. CASE AuthKit!Go(r, n)
      <4>1. PICK x : x = n
        OBVIOUS
      <4>2. x \in HandlerRecords /\ x.pc = "code" /\ x.id = t /\ (x.kind = "webhook" => x.upstream \in Subjects)
        <5>1. q.kind = "webhook" => q.upstream \in Subjects
          BY HandlerAt DEF HandlerOK
        <5> QED BY <2>3, <4>1, <5>1
      <4>3. HandlerOK(x)'
        BY <1>1, <1>3, <2>1, <2>2, <4>2 DEF HandlerOK, AuthKitInv, CodesOnce
      <4>4. \A o \in Sessions : o # r => HandlersApart(handlers[o], x)
        BY <1>3, <4>2, HandlerAt DEF HandlersApart, HoldsSession, HandlerOK
      <4> HIDE DEF n
      <4> QED BY <2>8, <3>2, <4>1, <4>2, <4>3, <4>4, HandlerGoes DEF AuthKitInv
    <3> QED BY <2>1, <3>1, <3>2
  <2> QED BY <2>4, <2>5, <2>6, <2>7, <2>9 DEF AuthKitInv
<1> QED BY <1>2, <1>3

(* What a step may do to the provider's sessions: none is forgotten, none that was ended returns. *)
LEMMA KnownStays ==
  ASSUME \A p \in Subjects : provider[p] # "none" => provider'[p] # "none", NEW x, Known(x)
  PROVE  Known(x)'
BY DEF Known

LEMMA ProviderKeeps ==
  ASSUME AuthKitInv, UNCHANGED transactions, UNCHANGED handoffs, UNCHANGED linked,
         UNCHANGED recon, UNCHANGED madeFrom,
         \A p \in Subjects : /\ provider[p] # "none" => provider'[p] # "none"
                             /\ provider[p] = "revoked" => provider'[p] = "revoked"
  PROVE  HandoffsKnown' /\ LinkedKnown' /\ ReconOK'
<1>1. \A p \in Subjects : provider[p] # "none" => provider'[p] # "none"
  OBVIOUS
<1>2. HandoffsKnown'
  BY <1>1 DEF AuthKitInv, HandoffsKnown, Known
<1>3. LinkedKnown'
  BY <1>1 DEF AuthKitInv, LinkedKnown, Known
<1>4. ReconOK'
  BY <1>1 DEF AuthKitInv, ReconOK, AuthKit!ReconcileIsJust, Known
<1> QED BY <1>2, <1>3, <1>4

LEMMA AuthenticateKeeps ==
  ASSUME AuthKitInv, NEW r \in Sessions, AuthKit!AuthenticateCode(r)
  PROVE  AuthKitInv'
<1> DEFINE q == handlers[r]
           t == q.id
<1>1. /\ q \in HandlerRecords /\ q.pc = "code" /\ t \in AuthKit!Transactions /\ transactions[t].state = "consumed"
      /\ spent[t] = 0 /\ (q.kind = "webhook" => q.upstream \in Subjects)
  BY HandlerAt DEF HandlerOK, AuthKit!AuthenticateCode
<1>2. /\ UNCHANGED clock /\ UNCHANGED admitting /\ UNCHANGED handoffs /\ UNCHANGED linked
      /\ UNCHANGED events /\ UNCHANGED transactions /\ UNCHANGED recon /\ UNCHANGED madeFrom
      /\ spent' = [spent EXCEPT ![t] = IF @ < 2 THEN @ + 1 ELSE @]
  BY DEF AuthKit!AuthenticateCode
<1>3. spent \in [AuthKit!Transactions -> 0..2]
  BY DEF AuthKitInv, AuthKit!TypeOK
<1>4. spent' \in [AuthKit!Transactions -> 0..2] /\ \A u \in AuthKit!Transactions : spent'[u] = IF u = t THEN 1 ELSE spent[u]
  <2> HIDE DEF q, t
  <2> QED BY <1>1, <1>2, <1>3
<1>5. CodesOnce'
  BY <1>1, <1>2, <1>4 DEF AuthKitInv, CodesOnce
<1>6. AuthKit!RevocationReachesAll'
  BY <1>2 DEF AuthKitInv, AuthKit!RevocationReachesAll, AuthKit!ActiveLinks
<1>7. \A o \in Sessions : o # r /\ handlers[o].pc = "code" => handlers[o].id # t
  BY <1>1, HandlerAt DEF HandlersApart
<1>8. CASE AuthKit!Ends(r) /\ UNCHANGED provider
  <2>1. AuthKit!TypeOK'
    <3>1. handlers' \in [Sessions -> HandlerRecords]
      BY <1>8, HandlersTyped, IdleOK DEF AuthKit!Ends, AuthKitInv
    <3> QED BY <1>2, <1>4, <1>8, <3>1 DEF AuthKitInv, AuthKit!TypeOK, HandlerRecords, AuthKit!Transactions,
                                          AuthKit!Handoffs, AuthKit!Linked, AuthKit!MaybeUpstream
  <2>2. HandlersStillBut(r)
    BY <1>2, <1>4, <1>7, <1>8 DEF HandlersStillBut, HandlerOK, Known
  <2>3. HandlersOK'
    BY <1>8, <2>2, HandlerEnds DEF AuthKitInv
  <2> QED BY <1>2, <1>5, <1>6, <1>8, <2>1, <2>3, ProviderKeeps DEF AuthKitInv
<1>9. ASSUME NEW p \in Subjects, provider[p] # "revoked", provider' = [provider EXCEPT ![p] = "active"],
             AuthKit!Go(r, [q EXCEPT !.pc = "admit", !.upstream = p, !.at = clock])
      PROVE  AuthKitInv'
  <2> DEFINE n == [q EXCEPT !.pc = "admit", !.upstream = p, !.at = clock]
  <2>1. n \in HandlerRecords /\ n.pc = "admit" /\ n.upstream = p
    <3> DEFINE a == [q EXCEPT !.pc = "admit"]
               b == [a EXCEPT !.upstream = p]
               c == [b EXCEPT !.at = clock]
    <3>1. a \in HandlerRecords /\ a.pc = "admit"
      BY <1>1 DEF HandlerRecords
    <3>2. b \in HandlerRecords /\ b.pc = "admit" /\ b.upstream = p
      <4>1. p \in AuthKit!MaybeUpstream
        BY DEF AuthKit!MaybeUpstream
      <4> HIDE DEF a
      <4> QED BY <3>1, <4>1 DEF HandlerRecords
    <3>3. c \in HandlerRecords /\ c.pc = "admit" /\ c.upstream = p
      <4>1. clock \in 0..MaxClock
        BY AuthKitTypes DEF AuthKitInv
      <4> HIDE DEF b
      <4> QED BY <3>2, <4>1 DEF HandlerRecords
    <3>4. n = c
      OBVIOUS
    <3> QED BY <3>3, <3>4
  <2>2. provider' \in [Subjects -> {"none", "active", "revoked"}]
        /\ \A u \in Subjects : provider'[u] = IF u = p THEN "active" ELSE provider[u]
    BY <1>9 DEF AuthKitInv, AuthKit!TypeOK
  <2>3. AuthKit!TypeOK'
    <3>1. handlers' \in [Sessions -> HandlerRecords]
      BY <1>9, <2>1, HandlersTyped DEF AuthKitInv
    <3> QED BY <1>2, <1>4, <2>2, <3>1 DEF AuthKitInv, AuthKit!TypeOK, HandlerRecords, AuthKit!Transactions,
                                          AuthKit!Handoffs, AuthKit!Linked, AuthKit!MaybeUpstream
  <2>4. HandoffsKnown' /\ LinkedKnown' /\ ReconOK'
    BY <1>2, <1>9, <2>2, ProviderKeeps
  <2>5. \A x : Known(x) => Known(x)'
    BY <2>2 DEF Known
  <2>6. HandlersStillBut(r)
    <3> SUFFICES ASSUME NEW x \in HandlerRecords, HandlerOK(x), NEW o \in Sessions, o # r, handlers[o] = x
                 PROVE  HandlerOK(x)'
      BY DEF HandlersStillBut
    <3>1. x.pc = "code" => x.id # t
      BY <1>7
    <3>2. Known(x.upstream) => provider'[x.upstream] # "none"
      BY <2>2 DEF Known
    <3> QED BY <1>2, <1>4, <3>1, <3>2 DEF HandlerOK, Known
  <2>7. HandlersOK'
    <3>1. PICK x : x = n
      OBVIOUS
    <3>2. x \in HandlerRecords /\ x.pc = "admit" /\ x.upstream = p /\ provider'[p] # "none"
      BY <2>1, <2>2, <3>1
    <3>3. HandlerOK(x)' /\ \A o \in Sessions : o # r => HandlersApart(handlers[o], x)
      BY <3>2 DEF HandlerOK, Known, HandlersApart, HoldsSession
    <3> HIDE DEF n
    <3> QED BY <1>9, <2>6, <3>1, <3>2, <3>3, HandlerGoes DEF AuthKitInv, n
  <2> QED BY <1>5, <1>6, <2>3, <2>4, <2>7 DEF AuthKitInv
<1> QED BY <1>8, <1>9, ZenonT(40) DEF AuthKit!AuthenticateCode

LEMMA AdmitKeeps ==
  ASSUME AuthKitInv, NEW r \in Sessions, AuthKit!AdmitIdentity(r)
  PROVE  AuthKitInv'
<1> DEFINE q == handlers[r]
           h == AuthKit!Least(AuthKit!Fresh(handoffs))
           n == [state |-> "open", upstream |-> q.upstream, expires |-> q.at + HandoffTTL]
<1>1. q \in HandlerRecords /\ Known(q.upstream) /\ AuthKit!Ends(r)
  BY HandlerAt DEF HandlerOK, AuthKit!AdmitIdentity
<1>2. CASE UNCHANGED handoffs
  BY <1>1, <1>2, HandlerStops DEF AuthKit!AdmitIdentity
<1>3. CASE AuthKit!Fresh(handoffs) # {} /\ handoffs' = [handoffs EXCEPT ![h] = n]
  <2>1. h \in AuthKit!Handoffs /\ handoffs[h].state = "none"
    <3>1. AuthKit!Fresh(handoffs) \in SUBSET Nat
      BY AuthKitTypes DEF AuthKitInv, AuthKit!TypeOK, AuthKit!Fresh
    <3>2. h \in AuthKit!Fresh(handoffs)
      BY <1>3, <3>1, LeastIn
    <3> QED BY <3>2 DEF AuthKit!Fresh, AuthKitInv, AuthKit!TypeOK
  <2>2. n \in [state : {"none", "open", "consumed"}, upstream : AuthKit!MaybeUpstream, expires : 0..MaxClock + HandoffTTL]
    <3>1. q.at + HandoffTTL \in 0..MaxClock + HandoffTTL /\ q.upstream \in AuthKit!MaybeUpstream
      BY <1>1, AuthKitBounds DEF HandlerRecords
    <3> QED BY <3>1
  <2>3. n.state = "open" /\ n.upstream = q.upstream
    OBVIOUS
  <2> HIDE DEF h, n
  <2>4. handoffs' \in [AuthKit!Handoffs -> [state : {"none", "open", "consumed"}, upstream : AuthKit!MaybeUpstream, expires : 0..MaxClock + HandoffTTL]]
        /\ \A k \in AuthKit!Handoffs : handoffs'[k] = IF k = h THEN n ELSE handoffs[k]
    BY <1>3, <2>1, <2>2 DEF AuthKitInv, AuthKit!TypeOK
  <2>5. /\ UNCHANGED clock /\ UNCHANGED admitting /\ UNCHANGED transactions /\ UNCHANGED linked
        /\ UNCHANGED events /\ UNCHANGED provider /\ UNCHANGED recon /\ UNCHANGED spent /\ UNCHANGED madeFrom
    BY DEF AuthKit!AdmitIdentity
  <2>6. AuthKit!TypeOK'
    <3>1. handlers' \in [Sessions -> HandlerRecords]
      BY <1>1, HandlersTyped, IdleOK DEF AuthKit!Ends, AuthKitInv
    <3> QED BY <2>4, <2>5, <3>1 DEF AuthKitInv, AuthKit!TypeOK, HandlerRecords, AuthKit!Transactions,
                                    AuthKit!Handoffs, AuthKit!Linked, AuthKit!MaybeUpstream
  <2>7. CodesOnce' /\ AuthKit!RevocationReachesAll' /\ ReconOK'
    BY <2>5 DEF AuthKitInv, CodesOnce, AuthKit!RevocationReachesAll, AuthKit!ActiveLinks, ReconOK,
                AuthKit!ReconcileIsJust, Known
  <2>8. HandoffsKnown'
    BY <1>1, <2>3, <2>4, <2>5 DEF AuthKitInv, HandoffsKnown, Known
  <2>9. LinkedKnown'
    <3>1. \A s \in AuthKit!Linked : madeFrom[s].handoff # 0 => madeFrom[s].handoff \in AuthKit!Handoffs
      BY AuthKitTypes DEF AuthKitInv
    <3>2. \A k \in AuthKit!Handoffs : handoffs[k].state = "consumed" => handoffs'[k].state = "consumed"
      BY <2>1, <2>4
    <3> QED BY <2>5, <3>1, <3>2 DEF AuthKitInv, LinkedKnown, Known
  <2>10. HandlersStillBut(r)
    BY <2>1, <2>3, <2>4, <2>5 DEF HandlersStillBut, HandlerOK, Known
  <2>11. HandlersOK'
    BY <1>1, <2>10, HandlerEnds DEF AuthKitInv
  <2> QED BY <2>6, <2>7, <2>8, <2>9, <2>11 DEF AuthKitInv
<1> QED BY <1>2, <1>3 DEF AuthKit!AdmitIdentity

LEMMA InsertKeeps ==
  ASSUME AuthKitInv, NEW r \in Sessions, AuthKit!InsertSession(r)
  PROVE  AuthKitInv'
<1> DEFINE q == handlers[r]
           s == AuthKit!Least(AuthKit!Fresh(linked))
           n == [state |-> "active", upstream |-> q.upstream, expires |-> q.at + LinkedTTL]
           m == [handoff |-> q.id, upstream |-> q.upstream]
<1>1. /\ q \in HandlerRecords /\ q.id \in AuthKit!Handoffs /\ Known(q.upstream) /\ ~events[q.upstream].stored
      /\ AuthKit!Ends(r) /\ q.pc = "insert"
  BY HandlerAt DEF HandlerOK, AuthKit!InsertSession
<1>2. CASE handoffs[q.id].state # "open"
  BY <1>1, <1>2, HandlerStops DEF AuthKit!InsertSession
<1>3. CASE handoffs[q.id].state = "open"
  <2>1. s \in AuthKit!Linked /\ linked[s].state = "none"
    <3>1. AuthKit!Fresh(linked) \in SUBSET Nat /\ AuthKit!Fresh(linked) # {}
      BY AuthKitTypes DEF AuthKitInv, AuthKit!TypeOK, AuthKit!Fresh, AuthKit!InsertSession
    <3>2. s \in AuthKit!Fresh(linked)
      BY <3>1, LeastIn
    <3> QED BY <3>2 DEF AuthKit!Fresh, AuthKitInv, AuthKit!TypeOK
  <2>2. /\ n \in [state : {"none", "active", "revoked"}, upstream : AuthKit!MaybeUpstream, expires : 0..MaxClock + LinkedTTL]
        /\ m \in [handoff : 0..MaxHandoffs, upstream : AuthKit!MaybeUpstream]
    <3>1. q.at + LinkedTTL \in 0..MaxClock + LinkedTTL /\ q.upstream \in AuthKit!MaybeUpstream
      BY <1>1, AuthKitBounds DEF HandlerRecords
    <3>2. q.id \in 0..MaxHandoffs
      BY <1>1, AuthKitTypes DEF AuthKitInv
    <3> QED BY <3>1, <3>2
  <2>3. /\ n.state = "active" /\ n.upstream = q.upstream /\ m.handoff = q.id /\ m.upstream = q.upstream
        /\ q.id # 0
    BY <1>1, AuthKitTypes DEF AuthKitInv
  <2>4. /\ UNCHANGED clock /\ UNCHANGED admitting /\ UNCHANGED transactions
        /\ UNCHANGED events /\ UNCHANGED provider /\ UNCHANGED recon /\ UNCHANGED spent
        /\ handoffs' = [handoffs EXCEPT ![q.id].state = "consumed"]
        /\ linked' = [linked EXCEPT ![s] = n]
        /\ madeFrom' = [madeFrom EXCEPT ![s] = m]
    BY <1>3 DEF AuthKit!InsertSession
  <2> HIDE DEF s, n, m
  <2>5. handoffs' \in [AuthKit!Handoffs -> [state : {"none", "open", "consumed"}, upstream : AuthKit!MaybeUpstream, expires : 0..MaxClock + HandoffTTL]]
        /\ \A k \in AuthKit!Handoffs : /\ handoffs'[k].upstream = handoffs[k].upstream
                                       /\ handoffs'[k].state = IF k = q.id THEN "consumed" ELSE handoffs[k].state
    <3>1. handoffs \in [AuthKit!Handoffs -> [state : {"none", "open", "consumed"}, upstream : AuthKit!MaybeUpstream, expires : 0..MaxClock + HandoffTTL]]
      BY DEF AuthKitInv, AuthKit!TypeOK
    <3> HIDE DEF q
    <3> QED BY <1>1, <2>4, <3>1
  <2>6. linked' \in [AuthKit!Linked -> [state : {"none", "active", "revoked"}, upstream : AuthKit!MaybeUpstream, expires : 0..MaxClock + LinkedTTL]]
        /\ \A o \in AuthKit!Linked : linked'[o] = IF o = s THEN n ELSE linked[o]
    BY <2>1, <2>2, <2>4 DEF AuthKitInv, AuthKit!TypeOK
  <2>7. madeFrom' \in [AuthKit!Linked -> [handoff : 0..MaxHandoffs, upstream : AuthKit!MaybeUpstream]]
        /\ \A o \in AuthKit!Linked : madeFrom'[o] = IF o = s THEN m ELSE madeFrom[o]
    BY <2>1, <2>2, <2>4 DEF AuthKitInv, AuthKit!TypeOK
  <2>8. AuthKit!TypeOK'
    <3>1. handlers' \in [Sessions -> HandlerRecords]
      BY <1>1, HandlersTyped, IdleOK DEF AuthKit!Ends, AuthKitInv
    <3> QED BY <2>4, <2>5, <2>6, <2>7, <3>1 DEF AuthKitInv, AuthKit!TypeOK, HandlerRecords,
                                                AuthKit!Transactions, AuthKit!Handoffs, AuthKit!Linked,
                                                AuthKit!MaybeUpstream
  <2>9. CodesOnce'
    BY <2>4 DEF AuthKitInv, CodesOnce
  <2>10. HandoffsKnown'
    BY <1>3, <2>4, <2>5 DEF AuthKitInv, HandoffsKnown, Known
  <2>11. \A o \in AuthKit!Linked : madeFrom[o].handoff # q.id
    BY <1>3, <2>3 DEF AuthKitInv, LinkedKnown
  <2>12. LinkedKnown'
    <3>1. \A o \in AuthKit!Linked : madeFrom[o].handoff # 0 => madeFrom[o].handoff \in AuthKit!Handoffs
      BY AuthKitTypes DEF AuthKitInv
    <3>2. \A o \in AuthKit!Linked : o # s => linked'[o] = linked[o] /\ madeFrom'[o] = madeFrom[o]
      BY <2>6, <2>7
    <3>3. linked'[s] = n /\ madeFrom'[s] = m
      BY <2>1, <2>6, <2>7
    <3>4. (\A o \in AuthKit!Linked :
             /\ linked[o].state # "active" => linked[o].upstream = Nobody
             /\ linked[o].state = "none" => madeFrom[o].handoff = 0
             /\ linked[o].upstream # Nobody => madeFrom[o].upstream = linked[o].upstream
             /\ linked[o].state # "none" => Known(madeFrom[o].upstream)
             /\ madeFrom[o].handoff # 0 => handoffs[madeFrom[o].handoff].state = "consumed")'
      BY <1>1, <2>3, <2>4, <2>5, <3>1, <3>2, <3>3 DEF AuthKitInv, LinkedKnown, Known
    <3>5. (\A a, o \in AuthKit!Linked : a # o /\ madeFrom[a].handoff # 0 => madeFrom[a].handoff # madeFrom[o].handoff)'
      BY <2>3, <2>11, <3>2, <3>3 DEF AuthKitInv, LinkedKnown
    <3> QED BY <3>4, <3>5 DEF LinkedKnown
  <2>13. AuthKit!RevocationReachesAll'
    BY <1>1, <2>3, <2>4, <2>6 DEF AuthKitInv, AuthKit!RevocationReachesAll, AuthKit!ActiveLinks
  <2>14. ReconOK'
    <3>1. \A o \in recon.snapshot : o \in AuthKit!Linked /\ o # s
      BY <2>1 DEF AuthKitInv, AuthKit!TypeOK, ReconOK
    <3>2. \A o \in recon.snapshot : linked'[o] = linked[o] /\ madeFrom'[o] = madeFrom[o]
      BY <2>6, <2>7, <3>1
    <3> QED BY <2>4, <3>2 DEF AuthKitInv, ReconOK, AuthKit!ReconcileIsJust, Known
  <2>15. HandlersStillBut(r)
    BY <1>3, <2>4, <2>5 DEF HandlersStillBut, HandlerOK, Known
  <2>16. HandlersOK'
    BY <1>1, <2>15, HandlerEnds DEF AuthKitInv
  <2> QED BY <2>8, <2>9, <2>10, <2>12, <2>13, <2>14, <2>16 DEF AuthKitInv
<1> QED BY <1>2, <1>3

(* A revocation: the rows it takes lose the provider's session, the others are as they were. *)
LEMMA RevokeTakes ==
  ASSUME AuthKitInv, NEW ids \in SUBSET AuthKit!Linked, AuthKit!Revoke(ids)
  PROVE  /\ linked' \in [AuthKit!Linked -> [state : {"none", "active", "revoked"}, upstream : AuthKit!MaybeUpstream,
                                    expires : 0..MaxClock + LinkedTTL]]
         /\ \A s \in AuthKit!Linked : IF s \in ids THEN linked'[s].state = "revoked" /\ linked'[s].upstream = Nobody
                                                   ELSE linked'[s] = linked[s]
<1> DEFINE T == [state : {"none", "active", "revoked"}, upstream : AuthKit!MaybeUpstream, expires : 0..MaxClock + LinkedTTL]
<1>1. linked \in [AuthKit!Linked -> T]
  BY DEF AuthKitInv, AuthKit!TypeOK
<1>2. linked' = [s \in AuthKit!Linked |-> IF s \in ids
                                          THEN [linked[s] EXCEPT !.state = "revoked", !.upstream = Nobody]
                                          ELSE linked[s]]
  BY DEF AuthKit!Revoke
<1>3. ASSUME NEW s \in AuthKit!Linked
      PROVE  /\ linked'[s] \in T
             /\ IF s \in ids THEN linked'[s].state = "revoked" /\ linked'[s].upstream = Nobody
                             ELSE linked'[s] = linked[s]
  <2>1. CASE s \notin ids
    BY <1>1, <1>2, <2>1
  <2>2. CASE s \in ids
    <3> DEFINE a == [linked[s] EXCEPT !.state = "revoked"]
               b == [a EXCEPT !.upstream = Nobody]
    <3>1. a \in T /\ a.state = "revoked"
      BY <1>1
    <3>2. b \in T /\ b.state = "revoked" /\ b.upstream = Nobody
      <4>1. Nobody \in AuthKit!MaybeUpstream
        BY DEF AuthKit!MaybeUpstream
      <4> HIDE DEF a
      <4> QED BY <3>1, <4>1
    <3>3. linked'[s] = b
      BY <1>2, <2>2
    <3> HIDE DEF b
    <3> QED BY <2>2, <3>2, <3>3
  <2> QED BY <2>1, <2>2
<1>4. linked' \in [AuthKit!Linked -> T]
  <2>1. linked' = [s \in AuthKit!Linked |-> linked'[s]]
    BY <1>2
  <2> HIDE DEF T
  <2> QED BY <1>3, <2>1
<1> QED BY <1>3, <1>4

LEMMA RevokeKnown ==
  ASSUME AuthKitInv, NEW ids \in SUBSET AuthKit!Linked, AuthKit!Revoke(ids), \A s \in ids : linked[s].state # "none",
         UNCHANGED madeFrom, UNCHANGED provider,
         \A h \in AuthKit!Handoffs : handoffs[h].state = "consumed" => handoffs'[h].state = "consumed"
  PROVE  /\ LinkedKnown'
         /\ \A s \in AuthKit!Linked : linked[s].state # "none" => linked'[s].state # "none"
         /\ \A s \in AuthKit!ActiveLinks' : s \in AuthKit!ActiveLinks /\ s \notin ids /\ linked'[s] = linked[s]
<1>1. \A s \in AuthKit!Linked : IF s \in ids THEN linked'[s].state = "revoked" /\ linked'[s].upstream = Nobody
                                             ELSE linked'[s] = linked[s]
  BY RevokeTakes
<1>2. \A s \in AuthKit!Linked : madeFrom[s].handoff # 0 => madeFrom[s].handoff \in AuthKit!Handoffs
  BY AuthKitTypes DEF AuthKitInv
<1>3. LinkedKnown'
  BY <1>1, <1>2 DEF AuthKitInv, LinkedKnown, Known
<1>4. \A s \in AuthKit!ActiveLinks' : s \in AuthKit!ActiveLinks /\ s \notin ids /\ linked'[s] = linked[s]
  BY <1>1 DEF AuthKit!ActiveLinks
<1> QED BY <1>1, <1>3, <1>4

LEMMA ApplyKeeps ==
  ASSUME AuthKitInv, NEW r \in Sessions, AuthKit!ApplySessionRevoked(r)
  PROVE  AuthKitInv'
<1> DEFINE q == handlers[r]
           p == q.upstream
           ids == {s \in AuthKit!ActiveLinks : linked[s].upstream = p}
<1>1. q \in HandlerRecords /\ p \in Subjects /\ q.pc = "apply" /\ AuthKit!Ends(r)
      /\ \A o \in Sessions : o # r => HandlersApart(handlers[o], q)
  BY HandlerAt DEF HandlerOK, AuthKit!ApplySessionRevoked
<1>2. CASE events[p].stored
  BY <1>1, <1>2, HandlerStops DEF AuthKit!ApplySessionRevoked
<1>3. CASE ~events[p].stored
  <2>1. /\ events' = [events EXCEPT ![p] = [stored |-> TRUE, at |-> q.at]]
        /\ AuthKit!Revoke(ids)
        /\ UNCHANGED clock /\ UNCHANGED admitting /\ UNCHANGED transactions /\ UNCHANGED handoffs
        /\ UNCHANGED provider /\ UNCHANGED recon /\ UNCHANGED spent /\ UNCHANGED madeFrom
    BY <1>3 DEF AuthKit!ApplySessionRevoked
  <2>2. ids \in SUBSET AuthKit!Linked /\ \A s \in ids : linked[s].state # "none"
    BY DEF AuthKit!ActiveLinks
  <2>3. \A s \in AuthKit!ActiveLinks : linked[s].upstream = p => s \in ids
    OBVIOUS
  <2> HIDE DEF ids
  <2>4. /\ linked' \in [AuthKit!Linked -> [state : {"none", "active", "revoked"}, upstream : AuthKit!MaybeUpstream,
                                   expires : 0..MaxClock + LinkedTTL]]
        /\ LinkedKnown'
        /\ \A s \in AuthKit!Linked : linked[s].state # "none" => linked'[s].state # "none"
        /\ \A s \in AuthKit!ActiveLinks' : s \in AuthKit!ActiveLinks /\ s \notin ids /\ linked'[s] = linked[s]
    BY <2>1, <2>2, RevokeTakes, RevokeKnown
  <2>5. events' \in [Subjects -> [stored : BOOLEAN, at : 0..MaxClock]]
        /\ \A u \in Subjects : u # p => events'[u] = events[u]
    <3>1. q.at \in 0..MaxClock
      BY <1>1 DEF HandlerRecords
    <3> HIDE DEF q, p
    <3> QED BY <1>1, <2>1, <3>1 DEF AuthKitInv, AuthKit!TypeOK
  <2>6. AuthKit!TypeOK'
    <3>1. handlers' \in [Sessions -> HandlerRecords]
      BY <1>1, HandlersTyped, IdleOK DEF AuthKit!Ends, AuthKitInv
    <3> QED BY <2>1, <2>4, <2>5, <3>1 DEF AuthKitInv, AuthKit!TypeOK, HandlerRecords, AuthKit!Transactions,
                                          AuthKit!Handoffs, AuthKit!Linked, AuthKit!MaybeUpstream
  <2>7. CodesOnce' /\ HandoffsKnown'
    BY <2>1 DEF AuthKitInv, CodesOnce, HandoffsKnown, Known
  <2>8. AuthKit!RevocationReachesAll'
    <3> SUFFICES ASSUME NEW u \in Subjects, events'[u].stored, NEW s \in AuthKit!ActiveLinks', linked'[s].upstream = u
                 PROVE  FALSE
      BY DEF AuthKit!RevocationReachesAll
    <3>1. s \in AuthKit!ActiveLinks /\ s \notin ids /\ linked[s].upstream = u
      BY <2>4
    <3>2. u # p
      BY <2>3, <3>1
    <3> QED BY <2>5, <3>1, <3>2 DEF AuthKitInv, AuthKit!RevocationReachesAll
  <2>9. ReconOK'
    BY <2>1, <2>4 DEF AuthKitInv, AuthKit!TypeOK, ReconOK, AuthKit!ReconcileIsJust, Known
  <2>10. HandlersStillBut(r)
    <3> SUFFICES ASSUME NEW x \in HandlerRecords, HandlerOK(x), NEW o \in Sessions, o # r, handlers[o] = x
                 PROVE  HandlerOK(x)'
      BY DEF HandlersStillBut
    <3>1. x.pc = "insert" => x.upstream # p /\ x.upstream \in Subjects
      BY <1>1 DEF HandlersApart, HoldsSession, HandlerOK, Known
    <3> QED BY <2>1, <2>5, <3>1 DEF HandlerOK, Known
  <2>11. HandlersOK'
    BY <1>1, <2>10, HandlerEnds DEF AuthKitInv
  <2> QED BY <2>4, <2>6, <2>7, <2>8, <2>9, <2>11 DEF AuthKitInv
<1> QED BY <1>2, <1>3

LEMMA ProviderRevokesKeeps ==
  ASSUME AuthKitInv, NEW p \in Subjects, AuthKit!ProviderRevokes(p)
  PROVE  AuthKitInv'
<1>1. /\ provider[p] = "active" /\ provider' = [provider EXCEPT ![p] = "revoked"]
      /\ UNCHANGED clock /\ UNCHANGED admitting /\ UNCHANGED transactions /\ UNCHANGED handoffs
      /\ UNCHANGED linked /\ UNCHANGED events /\ UNCHANGED handlers /\ UNCHANGED recon
      /\ UNCHANGED spent /\ UNCHANGED madeFrom
  BY DEF AuthKit!ProviderRevokes
<1>2. provider' \in [Subjects -> {"none", "active", "revoked"}]
      /\ \A u \in Subjects : provider'[u] = IF u = p THEN "revoked" ELSE provider[u]
  BY <1>1 DEF AuthKitInv, AuthKit!TypeOK
<1>3. AuthKit!TypeOK'
  BY <1>1, <1>2 DEF AuthKitInv, AuthKit!TypeOK, AuthKit!Transactions, AuthKit!Handoffs, AuthKit!Linked,
                    AuthKit!MaybeUpstream
<1>4. HandoffsKnown' /\ LinkedKnown' /\ ReconOK'
  BY <1>1, <1>2, ProviderKeeps
<1>5. CodesOnce' /\ AuthKit!RevocationReachesAll'
  BY <1>1 DEF AuthKitInv, CodesOnce, AuthKit!RevocationReachesAll, AuthKit!ActiveLinks
<1>6. HandlersStill
  BY <1>1, <1>2 DEF HandlersStill, HandlerOK, Known
<1>7. HandlersOK'
  BY <1>1, <1>6, HandlersStay DEF AuthKitInv
<1> QED BY <1>3, <1>4, <1>5, <1>7 DEF AuthKitInv

(* The reconciliation's own steps.                                         *)
LEMMA ReconKeeps ==
  ASSUME AuthKitInv, UNCHANGED clock, UNCHANGED admitting, UNCHANGED transactions,
         UNCHANGED handoffs, UNCHANGED linked, UNCHANGED events, UNCHANGED provider,
         UNCHANGED handlers, UNCHANGED spent, UNCHANGED madeFrom,
         recon' \in [pc : {"idle", "list", "revoke"}, snapshot : SUBSET AuthKit!Linked, active : SUBSET Subjects],
         \A s \in recon'.snapshot : linked[s].state # "none" /\ Known(madeFrom[s].upstream),
         AuthKit!ReconcileIsJust'
  PROVE  AuthKitInv'
<1>1. AuthKit!TypeOK'
  BY DEF AuthKitInv, AuthKit!TypeOK, AuthKit!Transactions, AuthKit!Handoffs, AuthKit!Linked, AuthKit!MaybeUpstream
<1>2. CodesOnce' /\ HandoffsKnown' /\ LinkedKnown' /\ AuthKit!RevocationReachesAll'
  BY DEF AuthKitInv, CodesOnce, HandoffsKnown, LinkedKnown, Known, AuthKit!RevocationReachesAll, AuthKit!ActiveLinks
<1>3. ReconOK'
  BY DEF ReconOK, Known
<1>4. HandlersStill
  BY DEF HandlersStill, HandlerOK, Known
<1>5. HandlersOK'
  BY <1>4, HandlersStay DEF AuthKitInv
<1> QED BY <1>1, <1>2, <1>3, <1>5 DEF AuthKitInv

LEMMA NotReconcilingOK ==
  /\ AuthKit!NotReconciling \in [pc : {"idle", "list", "revoke"}, snapshot : SUBSET AuthKit!Linked, active : SUBSET Subjects]
  /\ AuthKit!NotReconciling.pc = "idle" /\ AuthKit!NotReconciling.snapshot = {}
BY DEF AuthKit!NotReconciling

LEMMA SnapshotKeeps ==
  ASSUME AuthKitInv, AuthKit!ReconcileSnapshot
  PROVE  AuthKitInv'
<1> DEFINE S == {s \in AuthKit!ActiveLinks : linked[s].expires > clock}
           a == [AuthKit!NotReconciling EXCEPT !.pc = "list"]
           n == [a EXCEPT !.snapshot = S]
<1>1. S \subseteq AuthKit!Linked /\ \A s \in S : linked[s].state # "none"
  BY DEF AuthKit!ActiveLinks
<1>2. recon' = n
  BY DEF AuthKit!ReconcileSnapshot
<1> HIDE DEF S
<1>3. a \in [pc : {"idle", "list", "revoke"}, snapshot : SUBSET AuthKit!Linked, active : SUBSET Subjects] /\ a.pc = "list"
  BY NotReconcilingOK
<1>4. n \in [pc : {"idle", "list", "revoke"}, snapshot : SUBSET AuthKit!Linked, active : SUBSET Subjects]
      /\ n.pc = "list" /\ n.snapshot = S
  <2> HIDE DEF a
  <2> QED BY <1>1, <1>3
<1> HIDE DEF n
<1>5. AuthKit!ReconcileIsJust'
  BY <1>2, <1>4 DEF AuthKit!ReconcileIsJust
<1>6. \A s \in S : Known(madeFrom[s].upstream)
  BY <1>1 DEF AuthKitInv, LinkedKnown
<1> QED BY <1>1, <1>2, <1>4, <1>5, <1>6, ReconKeeps DEF AuthKit!ReconcileSnapshot

LEMMA ListsKeeps ==
  ASSUME AuthKitInv, AuthKit!ReconcileLists
  PROVE  AuthKitInv'
<1> DEFINE A == {p \in Subjects : provider[p] = "active"}
           a == [recon EXCEPT !.pc = "revoke"]
           n == [a EXCEPT !.active = A]
<1>1. CASE recon' = AuthKit!NotReconciling
  <2>1. AuthKit!ReconcileIsJust'
    BY <1>1, NotReconcilingOK DEF AuthKit!ReconcileIsJust
  <2> QED BY <1>1, <2>1, NotReconcilingOK, ReconKeeps DEF AuthKit!ReconcileLists
<1>2. CASE recon' = n
  <2>1. recon \in [pc : {"idle", "list", "revoke"}, snapshot : SUBSET AuthKit!Linked, active : SUBSET Subjects]
    BY DEF AuthKitInv, AuthKit!TypeOK
  <2>2. a \in [pc : {"idle", "list", "revoke"}, snapshot : SUBSET AuthKit!Linked, active : SUBSET Subjects]
        /\ a.snapshot = recon.snapshot /\ a.pc = "revoke"
    BY <2>1
  <2>3. n \in [pc : {"idle", "list", "revoke"}, snapshot : SUBSET AuthKit!Linked, active : SUBSET Subjects]
        /\ n.snapshot = recon.snapshot /\ n.active = A
    <3>1. A \in SUBSET Subjects
      OBVIOUS
    <3> HIDE DEF a, A
    <3> QED BY <2>2, <3>1
  <2>4. \A s \in recon.snapshot : linked[s].state # "none" /\ Known(madeFrom[s].upstream)
    BY DEF AuthKitInv, ReconOK
  <2>5. \A p \in Subjects : provider[p] \in {"none", "active", "revoked"}
    BY DEF AuthKitInv, AuthKit!TypeOK
  <2> HIDE DEF n
  <2>6. AuthKit!ReconcileIsJust'
    BY <1>2, <2>3, <2>4, <2>5 DEF AuthKit!ReconcileIsJust, AuthKit!ReconcileLists, Known
  <2> QED BY <1>2, <2>3, <2>4, <2>6, ReconKeeps DEF AuthKit!ReconcileLists
<1> QED BY <1>1, <1>2 DEF AuthKit!ReconcileLists

(* A step that only writes linked sessions, and perhaps ends the pass.     *)
LEMMA LinkedKeeps ==
  ASSUME AuthKitInv, NEW ids \in SUBSET AuthKit!Linked, AuthKit!Revoke(ids), \A s \in ids : linked[s].state # "none",
         UNCHANGED clock, UNCHANGED admitting, UNCHANGED transactions, UNCHANGED handoffs,
         UNCHANGED events, UNCHANGED provider, UNCHANGED handlers, UNCHANGED spent, UNCHANGED madeFrom,
         recon' = recon \/ recon' = AuthKit!NotReconciling
  PROVE  AuthKitInv'
<1>1. /\ linked' \in [AuthKit!Linked -> [state : {"none", "active", "revoked"}, upstream : AuthKit!MaybeUpstream,
                                 expires : 0..MaxClock + LinkedTTL]]
      /\ LinkedKnown'
      /\ \A s \in AuthKit!Linked : linked[s].state # "none" => linked'[s].state # "none"
      /\ \A s \in AuthKit!ActiveLinks' : s \in AuthKit!ActiveLinks /\ linked'[s] = linked[s]
  BY RevokeTakes, RevokeKnown
<1>2. recon' \in [pc : {"idle", "list", "revoke"}, snapshot : SUBSET AuthKit!Linked, active : SUBSET Subjects]
  BY NotReconcilingOK DEF AuthKitInv, AuthKit!TypeOK
<1>3. AuthKit!TypeOK'
  BY <1>1, <1>2 DEF AuthKitInv, AuthKit!TypeOK, AuthKit!Transactions, AuthKit!Handoffs, AuthKit!Linked,
                    AuthKit!MaybeUpstream
<1>4. CodesOnce' /\ HandoffsKnown'
  BY DEF AuthKitInv, CodesOnce, HandoffsKnown, Known
<1>5. AuthKit!RevocationReachesAll'
  BY <1>1 DEF AuthKitInv, AuthKit!RevocationReachesAll
<1>6. ReconOK'
  BY <1>1, NotReconcilingOK DEF AuthKitInv, AuthKit!TypeOK, ReconOK, AuthKit!ReconcileIsJust, Known
<1>7. HandlersStill
  BY DEF HandlersStill, HandlerOK, Known
<1>8. HandlersOK'
  BY <1>7, HandlersStay DEF AuthKitInv
<1> QED BY <1>1, <1>3, <1>4, <1>5, <1>6, <1>8 DEF AuthKitInv

LEMMA ReconcileRevokesKeeps ==
  ASSUME AuthKitInv, AuthKit!ReconcileRevokes
  PROVE  AuthKitInv'
<1> DEFINE ids == {s \in recon.snapshot \cap AuthKit!ActiveLinks : linked[s].upstream \notin recon.active}
<1>1. ids \in SUBSET AuthKit!Linked /\ \A s \in ids : linked[s].state # "none"
  BY DEF AuthKit!ActiveLinks
<1>2. AuthKit!Revoke(ids)
  BY DEF AuthKit!ReconcileRevokes
<1> HIDE DEF ids
<1> QED BY <1>1, <1>2, LinkedKeeps DEF AuthKit!ReconcileRevokes

LEMMA SignOutLinkedKeeps ==
  ASSUME AuthKitInv, NEW s \in AuthKit!Linked, AuthKit!SignOutLinked(s)
  PROVE  AuthKitInv'
<1>1. {s} \in SUBSET AuthKit!Linked /\ \A o \in {s} : linked[o].state # "none"
  BY DEF AuthKit!SignOutLinked
<1> QED BY <1>1, LinkedKeeps DEF AuthKit!SignOutLinked

LEMMA RefreshLinkedKeeps ==
  ASSUME AuthKitInv, NEW s \in AuthKit!Linked, AuthKit!RefreshLinked(s)
  PROVE  AuthKitInv'
<1>1. /\ linked' = [linked EXCEPT ![s].expires = clock + LinkedTTL]
      /\ UNCHANGED clock /\ UNCHANGED admitting /\ UNCHANGED transactions /\ UNCHANGED handoffs
      /\ UNCHANGED events /\ UNCHANGED provider /\ UNCHANGED handlers /\ UNCHANGED recon
      /\ UNCHANGED spent /\ UNCHANGED madeFrom
  BY DEF AuthKit!RefreshLinked
<1>2. linked' \in [AuthKit!Linked -> [state : {"none", "active", "revoked"}, upstream : AuthKit!MaybeUpstream,
                              expires : 0..MaxClock + LinkedTTL]]
      /\ \A o \in AuthKit!Linked : linked'[o].state = linked[o].state /\ linked'[o].upstream = linked[o].upstream
  <2>1. clock + LinkedTTL \in 0..MaxClock + LinkedTTL
    BY AuthKitTypes, AuthKitBounds DEF AuthKitInv
  <2>2. linked \in [AuthKit!Linked -> [state : {"none", "active", "revoked"}, upstream : AuthKit!MaybeUpstream,
                               expires : 0..MaxClock + LinkedTTL]]
    BY DEF AuthKitInv, AuthKit!TypeOK
  <2> QED BY <1>1, <2>1, <2>2
<1>3. AuthKit!TypeOK'
  BY <1>1, <1>2 DEF AuthKitInv, AuthKit!TypeOK, AuthKit!Transactions, AuthKit!Handoffs, AuthKit!Linked,
                    AuthKit!MaybeUpstream
<1>4. CodesOnce' /\ HandoffsKnown'
  BY <1>1 DEF AuthKitInv, CodesOnce, HandoffsKnown, Known
<1>5. LinkedKnown' /\ AuthKit!RevocationReachesAll' /\ ReconOK'
  BY <1>1, <1>2 DEF AuthKitInv, AuthKit!TypeOK, LinkedKnown, AuthKit!RevocationReachesAll, AuthKit!ActiveLinks,
                    ReconOK, AuthKit!ReconcileIsJust, Known
<1>6. HandlersStill
  BY <1>1 DEF HandlersStill, HandlerOK, Known
<1>7. HandlersOK'
  BY <1>1, <1>6, HandlersStay DEF AuthKitInv
<1> QED BY <1>3, <1>4, <1>5, <1>7 DEF AuthKitInv

(* A sweep: transactions and handoffs may only be used up, events only forgotten. *)
Swept(before, after) ==
  /\ after.state = before.state \/ (before.state # "none" /\ after.state = "consumed")

LEMMA SweepKeeps ==
  ASSUME AuthKitInv, NEW ids \in SUBSET AuthKit!Linked, AuthKit!Revoke(ids), \A s \in ids : linked[s].state # "none",
         transactions' \in [AuthKit!Transactions -> [state : {"none", "open", "consumed"}, expires : 0..MaxClock + TransactionTTL]],
         handoffs' \in [AuthKit!Handoffs -> [state : {"none", "open", "consumed"}, upstream : AuthKit!MaybeUpstream, expires : 0..MaxClock + HandoffTTL]],
         events' \in [Subjects -> [stored : BOOLEAN, at : 0..MaxClock]],
         \A t \in AuthKit!Transactions : Swept(transactions[t], transactions'[t]),
         \A h \in AuthKit!Handoffs : Swept(handoffs[h], handoffs'[h]) /\ handoffs'[h].upstream = handoffs[h].upstream,
         \A p \in Subjects : events'[p].stored => events[p].stored,
         UNCHANGED clock, admitting' \in BOOLEAN, UNCHANGED provider, UNCHANGED handlers,
         UNCHANGED recon, UNCHANGED spent, UNCHANGED madeFrom
  PROVE  AuthKitInv'
<1>1. /\ linked' \in [AuthKit!Linked -> [state : {"none", "active", "revoked"}, upstream : AuthKit!MaybeUpstream,
                                 expires : 0..MaxClock + LinkedTTL]]
      /\ LinkedKnown'
      /\ \A s \in AuthKit!Linked : linked[s].state # "none" => linked'[s].state # "none"
      /\ \A s \in AuthKit!ActiveLinks' : s \in AuthKit!ActiveLinks /\ linked'[s] = linked[s]
  <2>1. \A h \in AuthKit!Handoffs : handoffs[h].state = "consumed" => handoffs'[h].state = "consumed"
    BY DEF Swept
  <2> QED BY <2>1, RevokeTakes, RevokeKnown
<1>2. AuthKit!TypeOK'
  BY <1>1 DEF AuthKitInv, AuthKit!TypeOK, AuthKit!Transactions, AuthKit!Handoffs, AuthKit!Linked,
              AuthKit!MaybeUpstream
<1>3. CodesOnce'
  BY DEF AuthKitInv, CodesOnce, Swept
<1>4. HandoffsKnown'
  BY DEF AuthKitInv, HandoffsKnown, Known, Swept
<1>5. AuthKit!RevocationReachesAll'
  BY <1>1 DEF AuthKitInv, AuthKit!RevocationReachesAll
<1>6. ReconOK'
  BY <1>1 DEF AuthKitInv, AuthKit!TypeOK, ReconOK, AuthKit!ReconcileIsJust, Known
<1>7. HandlersStill
  <2> SUFFICES ASSUME NEW x \in HandlerRecords, HandlerOK(x)
               PROVE  HandlerOK(x)'
    BY DEF HandlersStill
  <2>1. x.pc = "insert" => Known(x.upstream)
    BY DEF HandlerOK
  <2> QED BY <2>1 DEF HandlerOK, Known, Swept
<1>8. HandlersOK'
  BY <1>7, HandlersStay DEF AuthKitInv
<1> QED BY <1>1, <1>2, <1>3, <1>4, <1>5, <1>6, <1>8 DEF AuthKitInv

LEMMA DeleteKeeps ==
  ASSUME AuthKitInv, AuthKit!DeleteExpiredAuthKitState
  PROVE  AuthKitInv'
<1> DEFINE over(row) == row.state # "none" /\ row.expires <= clock
           ids == {s \in AuthKit!Linked : linked[s].upstream # Nobody
                                  /\ (linked[s].state = "revoked" \/ linked[s].expires <= clock)}
<1>1. /\ transactions' = [t \in AuthKit!Transactions |-> IF over(transactions[t])
                            THEN [transactions[t] EXCEPT !.state = "consumed"] ELSE transactions[t]]
      /\ handoffs' = [h \in AuthKit!Handoffs |-> IF over(handoffs[h])
                        THEN [handoffs[h] EXCEPT !.state = "consumed"] ELSE handoffs[h]]
      /\ events' = [p \in Subjects |-> IF events[p].at + EventTTL <= clock
                      THEN [stored |-> FALSE, at |-> 0] ELSE events[p]]
      /\ AuthKit!Revoke(ids)
      /\ UNCHANGED clock /\ UNCHANGED admitting /\ UNCHANGED provider /\ UNCHANGED handlers
      /\ UNCHANGED recon /\ UNCHANGED spent /\ UNCHANGED madeFrom
  BY DEF AuthKit!DeleteExpiredAuthKitState
<1>2. ids \in SUBSET AuthKit!Linked /\ \A s \in ids : linked[s].state # "none"
  BY DEF AuthKitInv, LinkedKnown
<1>3. /\ transactions' \in [AuthKit!Transactions -> [state : {"none", "open", "consumed"}, expires : 0..MaxClock + TransactionTTL]]
      /\ \A t \in AuthKit!Transactions : Swept(transactions[t], transactions'[t])
  <2>1. transactions \in [AuthKit!Transactions -> [state : {"none", "open", "consumed"}, expires : 0..MaxClock + TransactionTTL]]
    BY DEF AuthKitInv, AuthKit!TypeOK
  <2> QED BY <1>1, <2>1 DEF Swept
<1>4. /\ handoffs' \in [AuthKit!Handoffs -> [state : {"none", "open", "consumed"}, upstream : AuthKit!MaybeUpstream, expires : 0..MaxClock + HandoffTTL]]
      /\ \A h \in AuthKit!Handoffs : Swept(handoffs[h], handoffs'[h]) /\ handoffs'[h].upstream = handoffs[h].upstream
  <2>1. handoffs \in [AuthKit!Handoffs -> [state : {"none", "open", "consumed"}, upstream : AuthKit!MaybeUpstream, expires : 0..MaxClock + HandoffTTL]]
    BY DEF AuthKitInv, AuthKit!TypeOK
  <2> QED BY <1>1, <2>1 DEF Swept
<1>5. /\ events' \in [Subjects -> [stored : BOOLEAN, at : 0..MaxClock]]
      /\ \A p \in Subjects : events'[p].stored => events[p].stored
  <2>1. events \in [Subjects -> [stored : BOOLEAN, at : 0..MaxClock]] /\ 0 \in 0..MaxClock
    BY AuthKitBounds DEF AuthKitInv, AuthKit!TypeOK
  <2> QED BY <1>1, <2>1
<1> HIDE DEF ids
<1> QED BY <1>1, <1>2, <1>3, <1>4, <1>5, SweepKeeps DEF AuthKitInv, AuthKit!TypeOK

LEMMA GateKeeps ==
  ASSUME AuthKitInv, AuthKit!Gate
  PROVE  AuthKitInv'
<1>1. AuthKit!Revoke({})
  <2>1. linked = [s \in AuthKit!Linked |-> linked[s]]
    BY DEF AuthKitInv, AuthKit!TypeOK
  <2> QED BY <2>1 DEF AuthKit!Gate, AuthKit!Revoke
<1>2. \A t \in AuthKit!Transactions : Swept(transactions[t], transactions[t])
  BY DEF Swept
<1>3. \A h \in AuthKit!Handoffs : Swept(handoffs[h], handoffs[h])
  BY DEF Swept
<1>4. {} \in SUBSET AuthKit!Linked
  OBVIOUS
<1> QED BY <1>1, <1>2, <1>3, <1>4, SweepKeeps DEF AuthKitInv, AuthKit!TypeOK, AuthKit!Gate

LEMMA RollbackKeeps ==
  ASSUME AuthKitInv, AuthKit!PrepareAuthKitRollback
  PROVE  AuthKitInv'
<1> DEFINE ids == {s \in AuthKit!Linked : linked[s].upstream # Nobody}
<1>1. /\ transactions' = [t \in AuthKit!Transactions |-> [transactions[t] EXCEPT !.state =
                            IF transactions[t].state = "none" THEN transactions[t].state ELSE "consumed"]]
      /\ handoffs' = [h \in AuthKit!Handoffs |-> [handoffs[h] EXCEPT !.state =
                        IF handoffs[h].state = "none" THEN handoffs[h].state ELSE "consumed"]]
      /\ events' = [p \in Subjects |-> [stored |-> FALSE, at |-> 0]]
      /\ AuthKit!Revoke(ids) /\ admitting' = TRUE
      /\ UNCHANGED clock /\ UNCHANGED provider /\ UNCHANGED handlers
      /\ UNCHANGED recon /\ UNCHANGED spent /\ UNCHANGED madeFrom
  BY DEF AuthKit!PrepareAuthKitRollback
<1>2. ids \in SUBSET AuthKit!Linked /\ \A s \in ids : linked[s].state # "none"
  BY DEF AuthKitInv, LinkedKnown
<1>3. /\ transactions' \in [AuthKit!Transactions -> [state : {"none", "open", "consumed"}, expires : 0..MaxClock + TransactionTTL]]
      /\ \A t \in AuthKit!Transactions : Swept(transactions[t], transactions'[t])
  <2>1. transactions \in [AuthKit!Transactions -> [state : {"none", "open", "consumed"}, expires : 0..MaxClock + TransactionTTL]]
    BY DEF AuthKitInv, AuthKit!TypeOK
  <2> QED BY <1>1, <2>1 DEF Swept
<1>4. /\ handoffs' \in [AuthKit!Handoffs -> [state : {"none", "open", "consumed"}, upstream : AuthKit!MaybeUpstream, expires : 0..MaxClock + HandoffTTL]]
      /\ \A h \in AuthKit!Handoffs : Swept(handoffs[h], handoffs'[h]) /\ handoffs'[h].upstream = handoffs[h].upstream
  <2>1. handoffs \in [AuthKit!Handoffs -> [state : {"none", "open", "consumed"}, upstream : AuthKit!MaybeUpstream, expires : 0..MaxClock + HandoffTTL]]
    BY DEF AuthKitInv, AuthKit!TypeOK
  <2> QED BY <1>1, <2>1 DEF Swept
<1>5. /\ events' \in [Subjects -> [stored : BOOLEAN, at : 0..MaxClock]]
      /\ \A p \in Subjects : events'[p].stored => events[p].stored
  <2>1. 0 \in 0..MaxClock
    BY AuthKitBounds
  <2> QED BY <1>1, <2>1
<1> HIDE DEF ids
<1> QED BY <1>1, <1>2, <1>3, <1>4, <1>5, SweepKeeps

LEMMA AuthKitCrashKeeps ==
  ASSUME AuthKitInv, AuthKit!Crash
  PROVE  AuthKitInv'
<1>1. /\ handlers' = [r \in Sessions |-> AuthKit!Idle] /\ recon' = AuthKit!NotReconciling
      /\ UNCHANGED clock /\ UNCHANGED admitting /\ UNCHANGED transactions /\ UNCHANGED handoffs
      /\ UNCHANGED linked /\ UNCHANGED events /\ UNCHANGED provider /\ UNCHANGED spent /\ UNCHANGED madeFrom
  BY DEF AuthKit!Crash
<1>2. AuthKit!TypeOK'
  BY <1>1, IdleOK, NotReconcilingOK DEF AuthKitInv, AuthKit!TypeOK, HandlerRecords, AuthKit!Transactions,
                                        AuthKit!Handoffs, AuthKit!Linked, AuthKit!MaybeUpstream
<1>3. CodesOnce' /\ HandoffsKnown' /\ LinkedKnown' /\ AuthKit!RevocationReachesAll'
  BY <1>1 DEF AuthKitInv, CodesOnce, HandoffsKnown, LinkedKnown, Known, AuthKit!RevocationReachesAll,
              AuthKit!ActiveLinks
<1>4. ReconOK'
  BY <1>1, NotReconcilingOK DEF ReconOK, AuthKit!ReconcileIsJust
<1>5. HandlersOK'
  BY <1>1 DEF HandlersOK, HandlerOK, HandlersApart, HoldsSession, AuthKit!Idle
<1> QED BY <1>2, <1>3, <1>4, <1>5 DEF AuthKitInv

LEMMA AuthKitTickKeeps ==
  ASSUME AuthKitInv, UNCHANGED handlers, UNCHANGED recon, UNCHANGED admitting,
         UNCHANGED transactions, UNCHANGED handoffs, UNCHANGED linked, UNCHANGED events,
         UNCHANGED provider, UNCHANGED spent, UNCHANGED madeFrom, clock' \in 0..MaxClock
  PROVE  AuthKitInv'
<1>1. AuthKit!TypeOK'
  BY DEF AuthKitInv, AuthKit!TypeOK, AuthKit!Transactions, AuthKit!Handoffs, AuthKit!Linked, AuthKit!MaybeUpstream
<1>2. CodesOnce' /\ HandoffsKnown' /\ LinkedKnown' /\ AuthKit!RevocationReachesAll'
  BY DEF AuthKitInv, CodesOnce, HandoffsKnown, LinkedKnown, Known, AuthKit!RevocationReachesAll, AuthKit!ActiveLinks
<1>3. ReconOK'
  BY DEF AuthKitInv, ReconOK, AuthKit!ReconcileIsJust, Known
<1>4. HandlersStill
  BY DEF HandlersStill, HandlerOK, Known
<1>5. HandlersOK'
  BY <1>4, HandlersStay DEF AuthKitInv
<1> QED BY <1>1, <1>2, <1>3, <1>5 DEF AuthKitInv

LEMMA AuthKitStep ==
  ASSUME AuthKitInv, [AuthKit!Next]_AuthKitVars
  PROVE  AuthKitInv'
<1>1. CASE UNCHANGED AuthKitVars
  <2>1. clock' \in 0..MaxClock
    BY <1>1, AuthKitTypes DEF AuthKitVars, AuthKitInv
  <2> QED BY <1>1, <2>1, AuthKitTickKeeps DEF AuthKitVars
<1>2. CASE AuthKit!Tick
  <2>1. clock' \in 0..MaxClock
    BY <1>2, AuthKitTypes, AuthKitBounds DEF AuthKit!Tick, AuthKitInv
  <2> QED BY <1>2, <2>1, AuthKitTickKeeps DEF AuthKit!Tick
<1>3. ASSUME NEW r \in Sessions,
             \/ \E t \in AuthKit!Transactions : AuthKit!CallbackArrives(r, t)
             \/ \E h \in AuthKit!Handoffs : AuthKit!ExchangeArrives(r, h)
             \/ \E p \in Subjects : AuthKit!WebhookArrives(r, p)
      PROVE  AuthKitInv'
  BY <1>3, CallbackKeeps, ExchangeKeeps, WebhookKeeps
<1>4. ASSUME NEW r \in Sessions,
             \/ AuthKit!ConsumeTransaction(r) \/ AuthKit!AuthenticateCode(r) \/ AuthKit!AdmitIdentity(r) \/ AuthKit!SelectHandoff(r)
             \/ AuthKit!ExchangeLocksSession(r) \/ AuthKit!CheckRevocation(r) \/ AuthKit!InsertSession(r)
             \/ AuthKit!WebhookLocksSession(r) \/ AuthKit!ApplySessionRevoked(r)
      PROVE  AuthKitInv'
  BY <1>4, ConsumeKeepsCode, AuthenticateKeeps, AdmitKeeps, SelectKeeps, ExchangeLockKeeps,
     CheckRevocationKeeps, InsertKeeps, WebhookLockKeeps, ApplyKeeps
<1>5. ASSUME NEW p \in Subjects, AuthKit!ProviderRevokes(p) PROVE AuthKitInv'
  BY <1>5, ProviderRevokesKeeps
<1>6. CASE AuthKit!BeginDesktopAuthorization \/ AuthKit!ReconcileSnapshot \/ AuthKit!ReconcileLists \/ AuthKit!ReconcileRevokes
  BY <1>6, BeginKeeps, SnapshotKeeps, ListsKeeps, ReconcileRevokesKeeps
<1>7. ASSUME NEW s \in AuthKit!Linked, AuthKit!RefreshLinked(s) \/ AuthKit!SignOutLinked(s) PROVE AuthKitInv'
  BY <1>7, RefreshLinkedKeeps, SignOutLinkedKeeps
<1>8. CASE AuthKit!DeleteExpiredAuthKitState \/ AuthKit!Gate \/ AuthKit!PrepareAuthKitRollback \/ AuthKit!Crash
  BY <1>8, DeleteKeeps, GateKeeps, RollbackKeeps, AuthKitCrashKeeps
<1> QED BY <1>1, <1>2, <1>3, <1>4, <1>5, <1>6, <1>7, <1>8 DEF AuthKit!Next

LEMMA AuthKitSafe ==
  ASSUME AuthKitInv
  PROVE  AuthKit!TypeOK /\ AuthKit!OneUse /\ AuthKit!RevocationReachesAll /\ AuthKit!ReconcileIsJust
BY DEF AuthKitInv, CodesOnce, LinkedKnown, AuthKit!OneUse, ReconOK

LEMMA AuthKitRevokesFinal ==
  ASSUME AuthKitInv, NEW ids \in SUBSET AuthKit!Linked, AuthKit!Revoke(ids)
  PROVE  AuthKit!RevokedStaysSo
BY RevokeTakes DEF AuthKitInv, LinkedKnown, AuthKit!RevokedStaysSo

LEMMA AuthKitEndsStay ==
  ASSUME AuthKitInv, [AuthKit!Next]_AuthKitVars
  PROVE  AuthKit!RevokedStaysSo
<1>1. \A s \in AuthKit!Linked : linked[s].state = "revoked" => linked[s].upstream = Nobody
  BY DEF AuthKitInv, LinkedKnown
<1>2. CASE UNCHANGED linked
  BY <1>1, <1>2 DEF AuthKit!RevokedStaysSo
<1>3. ASSUME NEW r \in Sessions, AuthKit!InsertSession(r)
      PROVE  AuthKit!RevokedStaysSo
  <2> DEFINE s == AuthKit!Least(AuthKit!Fresh(linked))
  <2>1. s \in AuthKit!Linked /\ linked[s].state = "none"
    <3>1. AuthKit!Fresh(linked) \in SUBSET Nat /\ AuthKit!Fresh(linked) # {}
      BY <1>3, AuthKitTypes DEF AuthKitInv, AuthKit!TypeOK, AuthKit!Fresh, AuthKit!InsertSession
    <3>2. s \in AuthKit!Fresh(linked)
      BY <3>1, LeastIn
    <3> QED BY <3>2 DEF AuthKit!Fresh, AuthKitInv, AuthKit!TypeOK
  <2>2. UNCHANGED linked \/ \A o \in AuthKit!Linked : o # s => linked'[o] = linked[o]
    BY <1>3 DEF AuthKit!InsertSession, AuthKitInv, AuthKit!TypeOK
  <2> HIDE DEF s
  <2> QED BY <1>1, <2>1, <2>2 DEF AuthKit!RevokedStaysSo
<1>4. ASSUME NEW r \in Sessions, AuthKit!ApplySessionRevoked(r)
      PROVE  AuthKit!RevokedStaysSo
  <2> DEFINE ids == {s \in AuthKit!ActiveLinks : linked[s].upstream = handlers[r].upstream}
  <2>1. ids \in SUBSET AuthKit!Linked
    BY DEF AuthKit!ActiveLinks
  <2>2. UNCHANGED linked \/ AuthKit!Revoke(ids)
    BY <1>4 DEF AuthKit!ApplySessionRevoked
  <2> HIDE DEF ids
  <2> QED BY <1>2, <2>1, <2>2, AuthKitRevokesFinal
<1>5. CASE AuthKit!ReconcileRevokes
  <2> DEFINE ids == {s \in recon.snapshot \cap AuthKit!ActiveLinks : linked[s].upstream \notin recon.active}
  <2>1. ids \in SUBSET AuthKit!Linked
    BY DEF AuthKit!ActiveLinks
  <2>2. AuthKit!Revoke(ids)
    BY <1>5 DEF AuthKit!ReconcileRevokes
  <2> HIDE DEF ids
  <2> QED BY <2>1, <2>2, AuthKitRevokesFinal
<1>6. ASSUME NEW s \in AuthKit!Linked, AuthKit!RefreshLinked(s)
      PROVE  AuthKit!RevokedStaysSo
  <2>1. \A o \in AuthKit!Linked : linked'[o].state = linked[o].state /\ linked'[o].upstream = linked[o].upstream
    BY <1>6 DEF AuthKit!RefreshLinked, AuthKitInv, AuthKit!TypeOK
  <2> QED BY <1>1, <2>1 DEF AuthKit!RevokedStaysSo
<1>7. ASSUME NEW s \in AuthKit!Linked, AuthKit!SignOutLinked(s)
      PROVE  AuthKit!RevokedStaysSo
  <2>1. {s} \in SUBSET AuthKit!Linked
    OBVIOUS
  <2> QED BY <1>7, <2>1, AuthKitRevokesFinal DEF AuthKit!SignOutLinked
<1>8. CASE AuthKit!DeleteExpiredAuthKitState
  <2> DEFINE ids == {s \in AuthKit!Linked : linked[s].upstream # Nobody
                                    /\ (linked[s].state = "revoked" \/ linked[s].expires <= clock)}
  <2>1. ids \in SUBSET AuthKit!Linked /\ AuthKit!Revoke(ids)
    BY <1>8 DEF AuthKit!DeleteExpiredAuthKitState
  <2> HIDE DEF ids
  <2> QED BY <2>1, AuthKitRevokesFinal
<1>9. CASE AuthKit!PrepareAuthKitRollback
  <2> DEFINE ids == {s \in AuthKit!Linked : linked[s].upstream # Nobody}
  <2>1. ids \in SUBSET AuthKit!Linked /\ AuthKit!Revoke(ids)
    BY <1>9, SMTT(30) DEF AuthKit!PrepareAuthKitRollback
  <2> HIDE DEF ids
  <2> QED BY <2>1, AuthKitRevokesFinal
<1>10. ASSUME NEW r \in Sessions,
              \/ \E t \in AuthKit!Transactions : AuthKit!CallbackArrives(r, t)
              \/ \E h \in AuthKit!Handoffs : AuthKit!ExchangeArrives(r, h)
              \/ \E p \in Subjects : AuthKit!WebhookArrives(r, p)
              \/ AuthKit!ConsumeTransaction(r) \/ AuthKit!AuthenticateCode(r) \/ AuthKit!AdmitIdentity(r) \/ AuthKit!SelectHandoff(r)
              \/ AuthKit!ExchangeLocksSession(r) \/ AuthKit!CheckRevocation(r) \/ AuthKit!WebhookLocksSession(r)
       PROVE  UNCHANGED linked
  BY <1>10, ZenonT(40) DEF AuthKit!CallbackArrives, AuthKit!ExchangeArrives, AuthKit!WebhookArrives,
               AuthKit!ConsumeTransaction, AuthKit!AuthenticateCode,
     AuthKit!AdmitIdentity, AuthKit!SelectHandoff, AuthKit!ExchangeLocksSession, AuthKit!CheckRevocation, AuthKit!WebhookLocksSession
<1>11. ASSUME NEW p \in Subjects, AuthKit!ProviderRevokes(p) PROVE UNCHANGED linked
  BY <1>11 DEF AuthKit!ProviderRevokes
<1>12. CASE AuthKit!BeginDesktopAuthorization \/ AuthKit!ReconcileSnapshot \/ AuthKit!ReconcileLists \/ AuthKit!Gate \/ AuthKit!Crash \/ AuthKit!Tick \/ UNCHANGED AuthKitVars
  BY <1>2, <1>12 DEF AuthKit!BeginDesktopAuthorization, AuthKit!ReconcileSnapshot, AuthKit!ReconcileLists,
                     AuthKit!Gate, AuthKit!Crash, AuthKit!Tick, AuthKitVars
<1> QED BY <1>2, <1>3, <1>4, <1>5, <1>6, <1>7, <1>8, <1>9, <1>10, <1>11, <1>12 DEF AuthKit!Next

(* The counts of the part's own module are the counts everyone takes.      *)
LEMMA AdmittingSize == \A S : Admitting!Cardinality(S) = Cardinality(S)
BY DEF Admitting!Cardinality, Cardinality

(* A subject is one user's and a user has one subject.                     *)
OneSubjectEach ==
  \A u, w \in Subjects : u # w /\ bindings[u] # Nobody => bindings[u] # bindings[w]

(* What a transaction may rely on where it is, because of the locks it     *)
(* holds: the invitation it activates, its member's standing, the username *)
(* it inserted, the workspace, the invitations it is about to expire.      *)
Activates(t) == t.kind \in {"redeem", "admit"}
Standing(t) == t.was = "active" <=> roster[t.who].status = "active"
TxOK(t) ==
  /\ t.pc \in {"user", "insert", "roster"} => Activates(t)
  /\ t.pc = "owner" => ~Activates(t)
  /\ Activates(t) => t.who \in Guests
  /\ t.kind = "admit" => t.subject \in Subjects
  /\ Activates(t) /\ t.pc \in {"user", "insert", "roster", "workspace", "commit"}
       => t.inv \in Admitting!Invitations /\ <<"invitation", t.inv>> \in t.held
  /\ Activates(t) /\ t.pc \in {"invitation", "locate", "user"} => t.name = 0
  /\ Activates(t) /\ t.pc = "insert" => t.name \in Admitting!Names
  /\ Activates(t) /\ t.pc \in {"roster", "workspace", "commit"} /\ t.name # 0
       => t.name \in Admitting!FreeNames /\ <<"name", t.name>> \in t.held
  /\ Activates(t) /\ t.pc \in {"workspace", "commit"} => <<"member", t.who>> \in t.held /\ Standing(t)
  /\ t.pc \in {"expire", "commit"} => <<"workspace", 0>> \in t.held
  /\ t.kind = "invite" =>
       /\ t.who \in Guests
       /\ t.pc \in {"owner", "workspace"} => t.held = {}
       /\ t.pc = "expire" => t.held \subseteq {<<"workspace", 0>>}
       /\ t.pc = "commit" => Admitting!IsOwner(t.by) /\ \A i \in Admitting!Invitations : <<"invitation", i>> \in t.held => Admitting!Pending(i)
  /\ t.kind \in {"agent", "disable"} => t.who = Agent
  /\ t.kind \in {"promote", "demote"} => t.who \in Admitting!Humans

Transactions ==
  /\ \A s \in Sessions : TxOK(sessions_[s])
  /\ \A s, o \in Sessions : s # o => sessions_[s].held \cap sessions_[o].held = {}

AdmissionInv ==
  /\ Admitting!TypeOK /\ Transactions /\ OneSubjectEach
  /\ \A i \in Admitting!Invitations : invitations[i].status # "none" => invitations[i].email \in Guests
  /\ Admitting!CapacityHeld /\ Admitting!KeepsAnOwner /\ Admitting!ActsAsOwner /\ Admitting!ActivatedOnce

TxRecords ==
  [kind : {"none", "redeem", "admit", "invite", "revoke", "agent", "disable", "promote", "demote"},
   pc : {"none", "invitation", "user", "insert", "roster", "workspace", "commit", "locate",
         "owner", "expire", "write", "target"},
   who : Admitting!Principals \cup {Nobody}, by : Admitting!Humans \cup {Nobody}, inv : 0..MaxInvitations,
   at : 0..MaxDays, name : {0} \cup Admitting!Names, was : {"none", "active", "revoked", "owner", "member"},
   subject : Subjects \cup {Nobody}, held : SUBSET Admitting!Locks, tries : 0..MaxRetries]
MemberRecords == [status : {"none", "active", "revoked"}, role : {"owner", "member"}]
InvitationRecords == [email : Admitting!Humans \cup {Nobody}, expires : 0..MaxDays + 1,
                      status : {"none", "pending", "accepted", "revoked", "expired"}]

LEMMA AdmissionTypes ==
  ASSUME Admitting!TypeOK
  PROVE  /\ day \in 0..MaxDays /\ aborts \in 0..MaxAborts /\ begun \in 0..MaxBegun
         /\ sessions_ \in [Sessions -> TxRecords]
         /\ roster \in [Admitting!Principals -> MemberRecords]
         /\ usernames \in [Guests -> {0} \cup Admitting!Names]
         /\ invitations \in [Admitting!Invitations -> InvitationRecords]
         /\ bindings \in [Subjects -> Admitting!Humans \cup {Nobody}]
         /\ acts \subseteq [what : {"invite", "agent", "disable"}, asOwner : BOOLEAN]
         /\ activatedBy \in [Admitting!Invitations -> 0..2]
BY DEF Admitting!TypeOK, TxRecords, MemberRecords, InvitationRecords

LEMMA NoTxOK == Admitting!NoTx \in TxRecords /\ TxOK(Admitting!NoTx) /\ TxOK(Admitting!NoTx)' /\ Admitting!NoTx.held = {}
<1>1. Admitting!NoTx \in TxRecords
  BY AdmissionBounds DEF Admitting!NoTx, TxRecords
<1> QED BY <1>1 DEF Admitting!NoTx, TxOK, Activates

(* A principal counts once.                                                *)
LEMMA PrincipalsFinite ==
  /\ IsFiniteSet(Admitting!Humans) /\ IsFiniteSet(Admitting!Principals)
  /\ \A S \in SUBSET Admitting!Principals : IsFiniteSet(S) /\ Cardinality(S) \in Nat
<1>1. IsFiniteSet(Admitting!Humans)
  BY AdmissionBounds, FS_Union DEF Admitting!Humans
<1>2. IsFiniteSet(Admitting!Principals)
  BY <1>1, FS_AddElement DEF Admitting!Principals
<1> QED BY <1>1, <1>2, FS_Subset, FS_CardinalityType

LEMMA AdmissionInit == Admitting!Init => AdmissionInv
<1> SUFFICES ASSUME Admitting!Init PROVE AdmissionInv
  OBVIOUS
<1> USE AdmissionBounds DEF Admitting!Init
<1>1. Admitting!TypeOK
  <2>1. \A s \in Sessions : Admitting!NoTx \in TxRecords
    BY NoTxOK
  <2>2. sessions_ \in [Sessions -> TxRecords]
    BY <2>1
  <2>3. roster \in [Admitting!Principals -> MemberRecords]
    BY DEF MemberRecords
  <2>4. invitations \in [Admitting!Invitations -> InvitationRecords]
    BY DEF InvitationRecords
  <2> QED BY <2>2, <2>3, <2>4 DEF Admitting!TypeOK, TxRecords, MemberRecords, InvitationRecords
<1>2. Transactions
  BY NoTxOK DEF Transactions
<1>3. OneSubjectEach /\ Admitting!ActsAsOwner /\ Admitting!ActivatedOnce
  BY DEF OneSubjectEach, Admitting!ActsAsOwner, Admitting!ActivatedOnce
<1>4. Admitting!CapacityHeld
  <2>1. {u \in Admitting!Principals : roster[u].status = "active"} = Owners
    BY DEF Admitting!Principals, Admitting!Humans
  <2> QED BY <2>1, AdmittingSize DEF Admitting!CapacityHeld, Admitting!countActiveMembers
<1>5. Admitting!KeepsAnOwner
  BY DEF Admitting!KeepsAnOwner, Admitting!IsOwner, Admitting!Humans, Admitting!Principals
<1> QED BY <1>1, <1>2, <1>3, <1>4, <1>5 DEF AdmissionInv

-----------------------------------------------------------------------------
(* A step of one transaction leaves what the others rely on.               *)

Steady(t) ==
  /\ Activates(t) /\ t.pc \in {"workspace", "commit"} => roster'[t.who].status = roster[t.who].status
  /\ Activates(t) /\ t.pc \in {"roster", "workspace", "commit"} /\ t.name # 0 => t.name \in Admitting!FreeNames'
  /\ t.kind = "invite" /\ t.pc = "commit" =>
       /\ Admitting!IsOwner(t.by)'
       /\ \A i \in Admitting!Invitations : <<"invitation", i>> \in t.held => Admitting!Pending(i)'

LEMMA TxStays ==
  ASSUME NEW t, TxOK(t), Steady(t)
  PROVE  TxOK(t)'
BY DEF TxOK, Steady, Activates, Standing

LEMMA SetKeeps ==
  ASSUME AdmissionInv, NEW s \in Sessions, NEW x \in TxRecords,
         sessions_' = [sessions_ EXCEPT ![s] = x],
         TxOK(x)',
         \A o \in Sessions \ {s} : Steady(sessions_[o]),
         \A o \in Sessions \ {s} : x.held \cap sessions_[o].held = {}
  PROVE  Transactions' /\ sessions_' \in [Sessions -> TxRecords]
<1>1. sessions_ \in [Sessions -> TxRecords] /\ Transactions
  BY AdmissionTypes DEF AdmissionInv
<1>2. \A o \in Sessions \ {s} : sessions_'[o] = sessions_[o]
  BY <1>1
<1>3. sessions_'[s] = x
  BY <1>1
<1>4. ASSUME NEW o \in Sessions PROVE TxOK(sessions_[o])' 
  <2>1. CASE o = s
    <3>1. PICK y : y = sessions_'[o]
      OBVIOUS
    <3>2. TxOK(y)'
      BY <3>1, <2>1, <1>3
    <3> QED BY <3>1, <3>2
  <2>2. CASE o # s
    <3>1. PICK y : y = sessions_[o]
      OBVIOUS
    <3>2. TxOK(y) /\ Steady(y)
      BY <3>1, <2>2, <1>1 DEF Transactions
    <3>3. TxOK(y)'
      BY <3>2, TxStays
    <3>4. y = sessions_'[o]
      BY <3>1, <1>2, <2>2
    <3> QED BY <3>3, <3>4
  <2> QED BY <2>1, <2>2
<1>5. \A a, b \in Sessions : a # b => sessions_'[a].held \cap sessions_'[b].held = {}
  BY <1>1, <1>2, <1>3 DEF Transactions
<1> QED BY <1>1, <1>4, <1>5 DEF Transactions

(* A statement that only takes locks or reads.                             *)
LEMMA OnlyLocks ==
  ASSUME AdmissionInv, NEW s \in Sessions, NEW x \in TxRecords,
         sessions_' = [sessions_ EXCEPT ![s] = x],
         TxOK(x), \A o \in Sessions \ {s} : x.held \cap sessions_[o].held = {},
         UNCHANGED roster, UNCHANGED usernames, UNCHANGED invitations, UNCHANGED bindings,
         UNCHANGED acts, UNCHANGED activatedBy,
         day' \in 0..MaxDays, aborts' \in 0..MaxAborts, begun' \in 0..MaxBegun
  PROVE  AdmissionInv'
<1>1. TxOK(x)'
  BY DEF TxOK, Activates, Standing, Admitting!IsOwner, Admitting!Pending, Admitting!FreeNames
<1>2. ASSUME NEW o \in Sessions \ {s} PROVE Steady(sessions_[o])
  <2>1. PICK y : y = sessions_[o]
    OBVIOUS
  <2>2. TxOK(y)
    BY <2>1 DEF AdmissionInv, Transactions
  <2>3. Steady(y)
    BY <2>2 DEF TxOK, Steady, Activates, Admitting!IsOwner, Admitting!Pending, Admitting!FreeNames
  <2> QED BY <2>1, <2>3
<1>3. Transactions' /\ sessions_' \in [Sessions -> TxRecords]
  BY <1>1, <1>2, SetKeeps
<1>4. Admitting!TypeOK'
  BY <1>3 DEF AdmissionInv, Admitting!TypeOK, TxRecords
<1>5. OneSubjectEach' /\ Admitting!CapacityHeld' /\ Admitting!KeepsAnOwner' /\ Admitting!ActsAsOwner' /\ Admitting!ActivatedOnce'
      /\ \A i \in Admitting!Invitations : invitations'[i].status # "none" => invitations'[i].email \in Guests
  BY AdmittingSize DEF AdmissionInv, OneSubjectEach, Admitting!CapacityHeld, Admitting!countActiveMembers,
                       Admitting!KeepsAnOwner, Admitting!IsOwner,
         Admitting!ActsAsOwner, Admitting!ActivatedOnce
<1> QED BY <1>3, <1>4, <1>5 DEF AdmissionInv

LEMMA BeginTxKeeps ==
  ASSUME AdmissionInv, NEW s \in Sessions, NEW transaction \in TxRecords, Admitting!Begin(s, transaction), transaction.held = {},
         TxOK(transaction)
  PROVE  AdmissionInv'
<1>1. day \in 0..MaxDays /\ aborts \in 0..MaxAborts /\ begun \in 0..MaxBegun
  BY AdmissionTypes DEF AdmissionInv
<1> DEFINE x == [transaction EXCEPT !.at = day]
<1>2. x \in TxRecords /\ x.held = {}
  BY <1>1 DEF TxRecords
<1>4. TxOK(x)
  BY DEF TxRecords, TxOK, Activates, Standing
<1>3. begun' \in 0..MaxBegun /\ sessions_' = [sessions_ EXCEPT ![s] = x]
      /\ UNCHANGED roster /\ UNCHANGED usernames /\ UNCHANGED invitations /\ UNCHANGED bindings
      /\ UNCHANGED acts /\ UNCHANGED activatedBy /\ UNCHANGED day /\ UNCHANGED aborts
  BY <1>1, AdmissionBounds DEF Admitting!Begin, Admitting!Set, Admitting!Data
<1> HIDE DEF x
<1> QED BY <1>1, <1>2, <1>3, <1>4, OnlyLocks

(* The requests that begin.                                                *)
LEMMA RequestsBegin ==
  ASSUME AdmissionInv, NEW s \in Sessions,
         \/ \E i \in Admitting!Invitations : Admitting!RedeemMagicLink(s, i)
         \/ \E u \in Subjects, e \in Guests : Admitting!AdmitIdentity(s, u, e)
         \/ \E e \in Guests, by \in Owners : Admitting!AsksAsOwner(s, "invite", e, by) \/ Admitting!AsksAsOwner(s, "revoke", e, by)
         \/ \E by \in Owners : Admitting!AsksAsOwner(s, "agent", Agent, by) \/ Admitting!AsksAsOwner(s, "disable", Agent, by)
         \/ \E u \in Admitting!Humans : Admitting!ChangeOwnerRole(s, "promote", u) \/ Admitting!ChangeOwnerRole(s, "demote", u)
  PROVE  AdmissionInv'
<1> USE AdmissionBounds
<1>1. ASSUME NEW i \in Admitting!Invitations, Admitting!RedeemMagicLink(s, i) PROVE AdmissionInv'
  <2>1. PICK e : e = invitations[i].email
    OBVIOUS
  <2>2. e \in Guests
    BY <1>1, <2>1 DEF Admitting!RedeemMagicLink, AdmissionInv
  <2> DEFINE transaction == [Admitting!NoTx EXCEPT !.kind = "redeem", !.pc = "invitation", !.who = e]
  <2>4. Admitting!Begin(s, transaction)
    BY <1>1, <2>1 DEF Admitting!RedeemMagicLink
  <2>5. transaction = [kind |-> "redeem", pc |-> "invitation", who |-> e, by |-> Nobody, inv |-> 0, at |-> 0,
              name |-> 0, was |-> "none", subject |-> Nobody, held |-> {}, tries |-> 0]
    <3> DEFINE n1 == [Admitting!NoTx EXCEPT !.kind = "redeem"]
    <3>1. n1 = [kind |-> "redeem", pc |-> "none", who |-> Nobody, by |-> Nobody, inv |-> 0, at |-> 0,
                 name |-> 0, was |-> "none", subject |-> Nobody, held |-> {}, tries |-> 0]
      BY DEF Admitting!NoTx
    <3> HIDE DEF n1
    <3> DEFINE n2 == [n1 EXCEPT !.pc = "invitation"]
    <3>2. n2 = [kind |-> "redeem", pc |-> "invitation", who |-> Nobody, by |-> Nobody, inv |-> 0, at |-> 0,
                 name |-> 0, was |-> "none", subject |-> Nobody, held |-> {}, tries |-> 0]
      BY <3>1 DEF Admitting!NoTx
    <3> HIDE DEF n2
    <3>3. transaction = [n2 EXCEPT !.who = e]
      BY DEF n1, n2
    <3> HIDE DEF transaction
    <3> QED BY <3>2, <3>3
  <2> HIDE DEF transaction
  <2>6. transaction \in TxRecords
    BY <2>5, <2>2 DEF TxRecords, Admitting!Principals, Admitting!Humans
  <2>3. transaction.held = {} /\ TxOK(transaction)
    BY <2>5, <2>2 DEF TxOK, Activates, Admitting!Principals, Admitting!Humans
  <2> QED BY <2>3, <2>4, <2>6, BeginTxKeeps
<1>2. ASSUME NEW u \in Subjects, NEW e \in Guests, Admitting!AdmitIdentity(s, u, e) PROVE AdmissionInv'
  <2> DEFINE transaction == [Admitting!NoTx EXCEPT !.kind = "admit", !.pc = "locate", !.who = e, !.subject = u]
  <2>4. Admitting!Begin(s, transaction)
    BY <1>2 DEF Admitting!AdmitIdentity
  <2>5. transaction = [kind |-> "admit", pc |-> "locate", who |-> e, by |-> Nobody, inv |-> 0, at |-> 0,
              name |-> 0, was |-> "none", subject |-> u, held |-> {}, tries |-> 0]
    <3> DEFINE n1 == [Admitting!NoTx EXCEPT !.kind = "admit"]
    <3>1. n1 = [kind |-> "admit", pc |-> "none", who |-> Nobody, by |-> Nobody, inv |-> 0, at |-> 0,
                 name |-> 0, was |-> "none", subject |-> Nobody, held |-> {}, tries |-> 0]
      BY DEF Admitting!NoTx
    <3> HIDE DEF n1
    <3> DEFINE n2 == [n1 EXCEPT !.pc = "locate"]
    <3>2. n2 = [kind |-> "admit", pc |-> "locate", who |-> Nobody, by |-> Nobody, inv |-> 0, at |-> 0,
                 name |-> 0, was |-> "none", subject |-> Nobody, held |-> {}, tries |-> 0]
      BY <3>1 DEF Admitting!NoTx
    <3> HIDE DEF n2
    <3> DEFINE n3 == [n2 EXCEPT !.who = e]
    <3>3. n3 = [kind |-> "admit", pc |-> "locate", who |-> e, by |-> Nobody, inv |-> 0, at |-> 0,
                 name |-> 0, was |-> "none", subject |-> Nobody, held |-> {}, tries |-> 0]
      BY <3>2 DEF Admitting!NoTx
    <3> HIDE DEF n3
    <3>4. transaction = [n3 EXCEPT !.subject = u]
      BY DEF n1, n2, n3
    <3> HIDE DEF transaction
    <3> QED BY <3>3, <3>4
  <2> HIDE DEF transaction
  <2>6. transaction \in TxRecords
    BY <2>5 DEF TxRecords, Admitting!Principals, Admitting!Humans
  <2>3. transaction.held = {} /\ TxOK(transaction)
    BY <2>5 DEF TxOK, Activates, Admitting!Principals, Admitting!Humans
  <2> QED BY <2>3, <2>4, <2>6, BeginTxKeeps
<1>3. ASSUME NEW k \in {"invite", "revoke", "agent", "disable"}, NEW u \in Admitting!Principals, NEW by \in Owners,
             Admitting!AsksAsOwner(s, k, u, by), k = "invite" => u \in Guests,
             k \in {"agent", "disable"} => u = Agent
      PROVE  AdmissionInv'
  <2> DEFINE transaction == [Admitting!NoTx EXCEPT !.kind = k, !.pc = "owner", !.who = u, !.by = by]
  <2>4. Admitting!Begin(s, transaction)
    BY <1>3, ZenonT(40) DEF Admitting!AsksAsOwner
  <2>5. transaction = [kind |-> k, pc |-> "owner", who |-> u, by |-> by, inv |-> 0, at |-> 0,
              name |-> 0, was |-> "none", subject |-> Nobody, held |-> {}, tries |-> 0]
    <3> DEFINE n1 == [Admitting!NoTx EXCEPT !.kind = k]
    <3>1. n1 = [kind |-> k, pc |-> "none", who |-> Nobody, by |-> Nobody, inv |-> 0, at |-> 0,
                 name |-> 0, was |-> "none", subject |-> Nobody, held |-> {}, tries |-> 0]
      BY DEF Admitting!NoTx
    <3> HIDE DEF n1
    <3> DEFINE n2 == [n1 EXCEPT !.pc = "owner"]
    <3>2. n2 = [kind |-> k, pc |-> "owner", who |-> Nobody, by |-> Nobody, inv |-> 0, at |-> 0,
                 name |-> 0, was |-> "none", subject |-> Nobody, held |-> {}, tries |-> 0]
      BY <3>1 DEF Admitting!NoTx
    <3> HIDE DEF n2
    <3> DEFINE n3 == [n2 EXCEPT !.who = u]
    <3>3. n3 = [kind |-> k, pc |-> "owner", who |-> u, by |-> Nobody, inv |-> 0, at |-> 0,
                 name |-> 0, was |-> "none", subject |-> Nobody, held |-> {}, tries |-> 0]
      BY <3>2 DEF Admitting!NoTx
    <3> HIDE DEF n3
    <3>4. transaction = [n3 EXCEPT !.by = by]
      BY DEF n1, n2, n3
    <3> HIDE DEF transaction
    <3> QED BY <3>3, <3>4
  <2> HIDE DEF transaction
  <2>6. transaction \in TxRecords
    BY <2>5, <1>3 DEF TxRecords, Admitting!Humans
  <2>3. transaction.held = {} /\ TxOK(transaction)
    BY <2>5, <1>3 DEF TxOK, Activates, Admitting!Humans
  <2> QED BY <2>3, <2>4, <2>6, BeginTxKeeps, SMTT(30)
<1>4. ASSUME NEW k \in {"promote", "demote"}, NEW u \in Admitting!Humans, Admitting!ChangeOwnerRole(s, k, u) PROVE AdmissionInv'
  <2> DEFINE transaction == [Admitting!NoTx EXCEPT !.kind = k, !.pc = "target", !.who = u]
  <2>4. Admitting!Begin(s, transaction)
    BY <1>4 DEF Admitting!ChangeOwnerRole
  <2>5. transaction = [kind |-> k, pc |-> "target", who |-> u, by |-> Nobody, inv |-> 0, at |-> 0,
              name |-> 0, was |-> "none", subject |-> Nobody, held |-> {}, tries |-> 0]
    <3> DEFINE n1 == [Admitting!NoTx EXCEPT !.kind = k]
    <3>1. n1 = [kind |-> k, pc |-> "none", who |-> Nobody, by |-> Nobody, inv |-> 0, at |-> 0,
                 name |-> 0, was |-> "none", subject |-> Nobody, held |-> {}, tries |-> 0]
      BY DEF Admitting!NoTx
    <3> HIDE DEF n1
    <3> DEFINE n2 == [n1 EXCEPT !.pc = "target"]
    <3>2. n2 = [kind |-> k, pc |-> "target", who |-> Nobody, by |-> Nobody, inv |-> 0, at |-> 0,
                 name |-> 0, was |-> "none", subject |-> Nobody, held |-> {}, tries |-> 0]
      BY <3>1 DEF Admitting!NoTx
    <3> HIDE DEF n2
    <3>3. transaction = [n2 EXCEPT !.who = u]
      BY DEF n1, n2
    <3> HIDE DEF transaction
    <3> QED BY <3>2, <3>3
  <2> HIDE DEF transaction
  <2>6. transaction \in TxRecords
    BY <2>5 DEF TxRecords, Admitting!Principals
  <2>3. transaction.held = {} /\ TxOK(transaction)
    BY <2>5 DEF TxOK, Activates, Admitting!Principals
  <2> QED BY <2>3, <2>4, <2>6, BeginTxKeeps, SMTT(30)
<1>5. Guests \subseteq Admitting!Principals /\ Agent \in Admitting!Principals
  BY DEF Admitting!Principals, Admitting!Humans
<1> QED BY <1>1, <1>2, <1>3, <1>4, <1>5

-----------------------------------------------------------------------------
(* The statements of a transaction that take locks.                        *)

Pcs == {"none", "invitation", "user", "insert", "roster", "workspace", "commit", "locate",
        "owner", "expire", "write", "target"}

(* One field of a transaction changes, the others stay.                    *)
LEMMA PcMoves ==
  ASSUME NEW t \in TxRecords, NEW p \in Pcs, NEW x, x = [t EXCEPT !.pc = p]
  PROVE  /\ x \in TxRecords /\ x.pc = p
         /\ x.kind = t.kind /\ x.who = t.who /\ x.by = t.by /\ x.inv = t.inv /\ x.at = t.at
         /\ x.name = t.name /\ x.was = t.was /\ x.subject = t.subject /\ x.held = t.held
BY DEF TxRecords, Pcs

LEMMA HeldMoves ==
  ASSUME NEW t \in TxRecords, NEW h \in SUBSET Admitting!Locks, NEW x, x = [t EXCEPT !.held = h]
  PROVE  /\ x \in TxRecords /\ x.held = h
         /\ x.kind = t.kind /\ x.pc = t.pc /\ x.who = t.who /\ x.by = t.by /\ x.inv = t.inv
         /\ x.at = t.at /\ x.name = t.name /\ x.was = t.was /\ x.subject = t.subject
BY DEF TxRecords

LEMMA InvMoves ==
  ASSUME NEW t \in TxRecords, NEW i \in Admitting!Invitations, NEW x, x = [t EXCEPT !.inv = i]
  PROVE  /\ x \in TxRecords /\ x.inv = i
         /\ x.kind = t.kind /\ x.pc = t.pc /\ x.who = t.who /\ x.by = t.by /\ x.at = t.at
         /\ x.name = t.name /\ x.was = t.was /\ x.subject = t.subject /\ x.held = t.held
BY AdmissionBounds DEF TxRecords, Admitting!Invitations

LEMMA NameMoves ==
  ASSUME NEW t \in TxRecords, NEW n \in {0} \cup Admitting!Names, NEW x, x = [t EXCEPT !.name = n]
  PROVE  /\ x \in TxRecords /\ x.name = n
         /\ x.kind = t.kind /\ x.pc = t.pc /\ x.who = t.who /\ x.by = t.by /\ x.inv = t.inv
         /\ x.at = t.at /\ x.was = t.was /\ x.subject = t.subject /\ x.held = t.held
BY DEF TxRecords

LEMMA WasMoves ==
  ASSUME NEW t \in TxRecords, NEW w \in {"none", "active", "revoked", "owner", "member"}, NEW x, x = [t EXCEPT !.was = w]
  PROVE  /\ x \in TxRecords /\ x.was = w
         /\ x.kind = t.kind /\ x.pc = t.pc /\ x.who = t.who /\ x.by = t.by /\ x.inv = t.inv
         /\ x.at = t.at /\ x.name = t.name /\ x.subject = t.subject /\ x.held = t.held
BY DEF TxRecords

LEMMA LockSets ==
  /\ \A i \in Admitting!Invitations : {<<"invitation", i>>} \subseteq Admitting!Locks
  /\ \A u \in Admitting!Principals : {<<"member", u>>} \subseteq Admitting!Locks
  /\ \A u \in Admitting!Humans : {<<"user", u>>, <<"member", u>>} \subseteq Admitting!Locks
  /\ \A n \in Admitting!Names : {<<"name", n>>} \subseteq Admitting!Locks
  /\ {<<"workspace", 0>>} \subseteq Admitting!Locks
  /\ Admitting!AudienceMemberships \subseteq Admitting!Locks
BY DEF Admitting!Locks, Admitting!AudienceMemberships, Admitting!Principals

LEMMA TxOf ==
  ASSUME AdmissionInv, NEW s \in Sessions
  PROVE  /\ sessions_[s] \in TxRecords /\ TxOK(sessions_[s])
         /\ \A o \in Sessions \ {s} : sessions_[s].held \cap sessions_[o].held = {}
         /\ sessions_[s].held \subseteq Admitting!Locks
BY AdmissionTypes DEF AdmissionInv, Transactions, TxRecords

LEMMA EndsKeeps ==
  ASSUME AdmissionInv, NEW s \in Sessions, Admitting!Ends(s), Admitting!OnlySession
  PROVE  AdmissionInv'
<1>1. sessions_' = [sessions_ EXCEPT ![s] = Admitting!NoTx] /\ day' = day /\ aborts' = aborts /\ begun' = begun
      /\ UNCHANGED roster /\ UNCHANGED usernames /\ UNCHANGED invitations /\ UNCHANGED bindings
      /\ UNCHANGED acts /\ UNCHANGED activatedBy
  BY DEF Admitting!Ends, Admitting!Set, Admitting!OnlySession, Admitting!Data, Admitting!NothingElse
<1>2. day \in 0..MaxDays /\ aborts \in 0..MaxAborts /\ begun \in 0..MaxBegun
  BY AdmissionTypes DEF AdmissionInv
<1> QED BY <1>1, <1>2, NoTxOK, OnlyLocks

LEMMA MovesKeeps ==
  ASSUME AdmissionInv, NEW s \in Sessions, NEW x \in TxRecords, Admitting!Set(s, x), Admitting!OnlySession,
         TxOK(x), NEW L, x.held = sessions_[s].held \cup L, Admitting!Free(s, L)
  PROVE  AdmissionInv'
<1>1. sessions_' = [sessions_ EXCEPT ![s] = x] /\ day' = day /\ aborts' = aborts /\ begun' = begun
      /\ UNCHANGED roster /\ UNCHANGED usernames /\ UNCHANGED invitations /\ UNCHANGED bindings
      /\ UNCHANGED acts /\ UNCHANGED activatedBy
  BY DEF Admitting!Set, Admitting!OnlySession, Admitting!Data, Admitting!NothingElse
<1>2. day \in 0..MaxDays /\ aborts \in 0..MaxAborts /\ begun \in 0..MaxBegun
  BY AdmissionTypes DEF AdmissionInv
<1>3. \A o \in Sessions \ {s} : x.held \cap sessions_[o].held = {}
  BY TxOf DEF Admitting!Free
<1> QED BY <1>1, <1>2, <1>3, OnlyLocks

LEMMA LockInvitationKeeps ==
  ASSUME AdmissionInv, NEW s \in Sessions, Admitting!LockInvitation(s)
  PROVE  AdmissionInv'
<1> PICK t : t = sessions_[s]
  OBVIOUS
<1>1. t \in TxRecords /\ TxOK(t) /\ t.held \subseteq Admitting!Locks
  BY TxOf
<1>2. t.kind = "redeem" /\ t.pc = "invitation" /\ Admitting!OnlySession
  BY DEF Admitting!LockInvitation
<1>3. PICK i \in Admitting!Invitations :
        /\ Admitting!Free(s, {<<"invitation", i>>})
        /\ \/ Admitting!Ends(s)
           \/ Admitting!Set(s, [t EXCEPT !.pc = "user", !.inv = i, !.held = t.held \cup {<<"invitation", i>>}])
  BY DEF Admitting!LockInvitation
<1> DEFINE a == [t EXCEPT !.pc = "user"]
           b == [a EXCEPT !.inv = i]
           h == t.held \cup {<<"invitation", i>>}
           c == [b EXCEPT !.held = h]
<1>4. h \in SUBSET Admitting!Locks /\ <<"invitation", i>> \in h
  BY <1>1, LockSets
<1>5. c = [t EXCEPT !.pc = "user", !.inv = i, !.held = t.held \cup {<<"invitation", i>>}]
  OBVIOUS
<1> HIDE DEF h
<1>6. a \in TxRecords /\ a.kind = t.kind /\ a.pc = "user" /\ a.who = t.who /\ a.name = t.name
      /\ a.subject = t.subject
  <2>1. "user" \in Pcs
    BY DEF Pcs
  <2> QED BY <1>1, <2>1, PcMoves
<1> HIDE DEF a
<1>7. b \in TxRecords /\ b.kind = t.kind /\ b.pc = "user" /\ b.who = t.who /\ b.name = t.name
      /\ b.subject = t.subject /\ b.inv = i
  BY <1>6, InvMoves
<1> HIDE DEF b
<1>8. c \in TxRecords /\ c.kind = t.kind /\ c.pc = "user" /\ c.who = t.who /\ c.name = t.name
      /\ c.subject = t.subject /\ c.inv = i /\ c.held = h
  BY <1>7, <1>4, HeldMoves
<1> HIDE DEF c
<1>9. TxOK(c)
  BY <1>1, <1>2, <1>4, <1>8 DEF TxOK, Activates
<1>10. CASE Admitting!Ends(s)
  BY <1>2, <1>10, EndsKeeps
<1>11. CASE Admitting!Set(s, c)
  BY <1>2, <1>3, <1>8, <1>9, <1>11, MovesKeeps DEF h
<1> QED BY <1>3, <1>5, <1>10, <1>11

Stepped(t, p, h) == [[t EXCEPT !.pc = p] EXCEPT !.held = h]

LEMMA StepMoves ==
  ASSUME NEW t \in TxRecords, NEW p \in Pcs, NEW h, h \subseteq Admitting!Locks
  PROVE  /\ Stepped(t, p, h) \in TxRecords /\ Stepped(t, p, h).pc = p /\ Stepped(t, p, h).held = h
         /\ Stepped(t, p, h).kind = t.kind /\ Stepped(t, p, h).who = t.who /\ Stepped(t, p, h).by = t.by
         /\ Stepped(t, p, h).inv = t.inv /\ Stepped(t, p, h).at = t.at /\ Stepped(t, p, h).name = t.name
         /\ Stepped(t, p, h).was = t.was /\ Stepped(t, p, h).subject = t.subject
<1> DEFINE a == [t EXCEPT !.pc = p]
           x == [a EXCEPT !.held = h]
<1>1. x = Stepped(t, p, h)
  BY DEF Stepped
<1>2. a \in TxRecords /\ a.pc = p /\ a.kind = t.kind /\ a.who = t.who /\ a.by = t.by /\ a.inv = t.inv
      /\ a.at = t.at /\ a.name = t.name /\ a.was = t.was /\ a.subject = t.subject
  BY PcMoves
<1> HIDE DEF a
<1>3. x \in TxRecords /\ x.held = h /\ x.pc = a.pc /\ x.kind = a.kind /\ x.who = a.who /\ x.by = a.by
      /\ x.inv = a.inv /\ x.at = a.at /\ x.name = a.name /\ x.was = a.was /\ x.subject = a.subject
  BY <1>2 DEF TxRecords
<1> HIDE DEF x
<1> QED BY <1>1, <1>2, <1>3

LEMMA FindOrNameUserKeeps ==
  ASSUME AdmissionInv, NEW s \in Sessions, Admitting!FindOrNameUser(s)
  PROVE  AdmissionInv'
<1> PICK t : t = sessions_[s]
  OBVIOUS
<1>1. t \in TxRecords /\ TxOK(t) /\ t.held \subseteq Admitting!Locks
  BY TxOf
<1>2. t.pc = "user" /\ Admitting!OnlySession /\ Admitting!Free(s, {})
  BY DEF Admitting!FindOrNameUser, Admitting!Free
<1>3. CASE Admitting!Set(s, [t EXCEPT !.pc = "roster"])
  <2> DEFINE x == [t EXCEPT !.pc = "roster"]
  <2>1. Admitting!Set(s, x)
    BY <1>3
  <2>2. x \in TxRecords /\ x.kind = t.kind /\ x.pc = "roster" /\ x.who = t.who /\ x.name = t.name
        /\ x.subject = t.subject /\ x.inv = t.inv /\ x.held = t.held
    <3>1. "roster" \in Pcs
      BY DEF Pcs
    <3> QED BY <1>1, <3>1, PcMoves
  <2> HIDE DEF x
  <2>3. TxOK(x)
    BY <1>1, <1>2, <2>2 DEF TxOK, Activates
  <2> QED BY <1>2, <2>1, <2>2, <2>3, MovesKeeps
<1>4. ASSUME NEW n \in Admitting!FreeNames, Admitting!Set(s, [t EXCEPT !.pc = "insert", !.name = n]) PROVE AdmissionInv'
  <2> DEFINE a == [t EXCEPT !.pc = "insert"]
             x == [a EXCEPT !.name = n]
  <2>1. Admitting!Set(s, x)
    BY <1>4
  <2>2. a \in TxRecords /\ a.kind = t.kind /\ a.pc = "insert" /\ a.who = t.who
        /\ a.subject = t.subject /\ a.inv = t.inv /\ a.held = t.held
    <3>1. "insert" \in Pcs
      BY DEF Pcs
    <3> QED BY <1>1, <3>1, PcMoves
  <2> HIDE DEF a
  <2>3. n \in Admitting!Names
    BY DEF Admitting!FreeNames
  <2>4. x \in TxRecords /\ x.kind = t.kind /\ x.pc = "insert" /\ x.who = t.who /\ x.name = n
        /\ x.subject = t.subject /\ x.inv = t.inv /\ x.held = t.held
    <3>1. n \in {0} \cup Admitting!Names
      BY <2>3
    <3> QED BY <2>2, <3>1, NameMoves
  <2> HIDE DEF x
  <2>5. TxOK(x)
    BY <1>1, <1>2, <2>3, <2>4 DEF TxOK, Activates
  <2> QED BY <1>2, <2>1, <2>4, <2>5, MovesKeeps
<1> QED BY <1>3, <1>4 DEF Admitting!FindOrNameUser

LEMMA InsertUserKeeps ==
  ASSUME AdmissionInv, NEW s \in Sessions, Admitting!InsertUser(s)
  PROVE  AdmissionInv'
<1> PICK t : t = sessions_[s]
  OBVIOUS
<1>1. t \in TxRecords /\ TxOK(t) /\ t.held \subseteq Admitting!Locks
  BY TxOf
<1>2. t.pc = "insert" /\ Admitting!OnlySession /\ Admitting!Free(s, {<<"name", t.name>>}) /\ Admitting!Free(s, {})
  BY DEF Admitting!InsertUser, Admitting!Free
<1>3. CASE t.name \in Admitting!FreeNames /\ Admitting!Steps(s, "roster", {<<"name", t.name>>})
  <2> DEFINE L == {<<"name", t.name>>}
             x == Stepped(t, "roster", t.held \cup L)
  <2>1. Admitting!Set(s, x)
    BY <1>3 DEF Admitting!Steps, Stepped
  <2>2. L \in SUBSET Admitting!Locks /\ "roster" \in Pcs /\ <<"name", t.name>> \in L
    BY <1>3, LockSets DEF Admitting!FreeNames, Pcs
  <2>3. Admitting!Free(s, L)
    BY <1>2
  <2> HIDE DEF L
  <2>4. x \in TxRecords /\ x.kind = t.kind /\ x.pc = "roster" /\ x.who = t.who /\ x.name = t.name
        /\ x.subject = t.subject /\ x.inv = t.inv /\ x.held = t.held \cup L
    BY <1>1, <2>2, StepMoves
  <2> HIDE DEF x
  <2>5. TxOK(x)
    BY <1>1, <1>2, <1>3, <2>2, <2>4 DEF TxOK, Activates
  <2> QED BY <1>2, <2>1, <2>3, <2>4, <2>5, MovesKeeps
<1>4. CASE Admitting!Ends(s)
  BY <1>2, <1>4, EndsKeeps
<1>5. CASE Admitting!Set(s, [t EXCEPT !.pc = "user", !.name = 0])
  <2> DEFINE a == [t EXCEPT !.pc = "user"]
             x == [a EXCEPT !.name = 0]
  <2>1. Admitting!Set(s, x)
    BY <1>5
  <2>2. a \in TxRecords /\ a.kind = t.kind /\ a.pc = "user" /\ a.who = t.who
        /\ a.subject = t.subject /\ a.inv = t.inv /\ a.held = t.held
    <3>1. "user" \in Pcs
      BY DEF Pcs
    <3> QED BY <1>1, <3>1, PcMoves
  <2> HIDE DEF a
  <2>4. x \in TxRecords /\ x.kind = t.kind /\ x.pc = "user" /\ x.who = t.who /\ x.name = 0
        /\ x.subject = t.subject /\ x.inv = t.inv /\ x.held = t.held
    <3>1. 0 \in {0} \cup Admitting!Names
      OBVIOUS
    <3> QED BY <2>2, <3>1, NameMoves
  <2> HIDE DEF x
  <2>5. TxOK(x)
    BY <1>1, <1>2, <2>4 DEF TxOK, Activates
  <2> QED BY <1>2, <2>1, <2>4, <2>5, MovesKeeps
<1> QED BY <1>3, <1>4, <1>5 DEF Admitting!InsertUser

LEMMA LockAudienceKeeps ==
  ASSUME AdmissionInv, NEW s \in Sessions, Admitting!LockAudience(s)
  PROVE  AdmissionInv'
<1> PICK t : t = sessions_[s]
  OBVIOUS
<1> PICK L : L = Admitting!AudienceMemberships \cup {<<"member", t.who>>}
  OBVIOUS
<1>1. t \in TxRecords /\ TxOK(t) /\ t.held \subseteq Admitting!Locks
  BY TxOf
<1>2. t.pc = "roster" /\ Admitting!OnlySession /\ Admitting!Free(s, L)
      /\ Admitting!Set(s, [t EXCEPT !.pc = "workspace", !.held = t.held \cup L, !.was = roster[t.who].status])
  BY DEF Admitting!LockAudience
<1>3. t.who \in Guests /\ t.who \in Admitting!Principals /\ "workspace" \in Pcs /\ <<"member", t.who>> \in L
  BY <1>1, <1>2 DEF TxOK, Admitting!Principals, Admitting!Humans, Pcs
<1>4. L \in SUBSET Admitting!Locks
  BY <1>3, LockSets
<1>5. roster[t.who].status \in {"none", "active", "revoked", "owner", "member"}
  BY <1>3, AdmissionTypes DEF AdmissionInv, MemberRecords
<1> PICK w \in {"none", "active", "revoked", "owner", "member"} : w = roster[t.who].status
  BY <1>5
<1> DEFINE a == Stepped(t, "workspace", t.held \cup L)
           x == [a EXCEPT !.was = w]
<1>6. Admitting!Set(s, x)
  BY <1>2 DEF Stepped
<1>7. a \in TxRecords /\ a.kind = t.kind /\ a.pc = "workspace" /\ a.who = t.who /\ a.name = t.name
      /\ a.subject = t.subject /\ a.inv = t.inv /\ a.held = t.held \cup L
  BY <1>1, <1>3, <1>4, StepMoves
<1> HIDE DEF a
<1>8. x \in TxRecords /\ x.kind = t.kind /\ x.pc = "workspace" /\ x.who = t.who /\ x.name = t.name
      /\ x.subject = t.subject /\ x.inv = t.inv /\ x.held = t.held \cup L /\ x.was = w
  BY <1>7, WasMoves
<1> HIDE DEF x
<1>9. TxOK(x)
  BY <1>1, <1>2, <1>3, <1>8 DEF TxOK, Activates, Standing
<1> QED BY <1>2, <1>6, <1>8, <1>9, MovesKeeps

LEMMA LockWorkspaceKeeps ==
  ASSUME AdmissionInv, NEW s \in Sessions, Admitting!LockWorkspace(s)
  PROVE  AdmissionInv'
<1> PICK t : t = sessions_[s]
  OBVIOUS
<1> PICK L : L = {<<"workspace", 0>>}
  OBVIOUS
<1> PICK p : p = IF t.kind = "invite" THEN "expire" ELSE "commit"
  OBVIOUS
<1>1. t \in TxRecords /\ TxOK(t) /\ t.held \subseteq Admitting!Locks
  BY TxOf
<1> DEFINE x == Stepped(t, p, t.held \cup L)
<1>2. t.pc = "workspace" /\ Admitting!OnlySession /\ Admitting!Free(s, L) /\ Admitting!Set(s, x)
  BY DEF Admitting!LockWorkspace, Admitting!Steps, Stepped
<1>3. L \in SUBSET Admitting!Locks /\ p \in Pcs /\ <<"workspace", 0>> \in L
  BY LockSets DEF Pcs
<1>4. x \in TxRecords /\ x.kind = t.kind /\ x.pc = p /\ x.who = t.who /\ x.name = t.name
      /\ x.subject = t.subject /\ x.inv = t.inv /\ x.held = t.held \cup L /\ x.was = t.was
  BY <1>1, <1>3, StepMoves
<1> HIDE DEF x
<1>5. TxOK(x)
  BY <1>1, <1>2, <1>3, <1>4 DEF TxOK, Activates, Standing
<1> QED BY <1>2, <1>4, <1>5, MovesKeeps

LEMMA AdmissionOwnerKeeps ==
  ASSUME AdmissionInv, NEW s \in Sessions, Admitting!RequireOwner(s)
  PROVE  AdmissionInv'
<1> PICK t : t = sessions_[s]
  OBVIOUS
<1> PICK p : p = CASE t.kind = "revoke" -> "write" [] t.kind = "disable" -> "target" [] OTHER -> "workspace"
  OBVIOUS
<1>1. t \in TxRecords /\ TxOK(t) /\ t.held \subseteq Admitting!Locks
  BY TxOf
<1> DEFINE x == [t EXCEPT !.pc = p]
<1>2. t.pc = "owner" /\ Admitting!OnlySession /\ Admitting!Free(s, {}) /\ (Admitting!Ends(s) \/ Admitting!Set(s, x))
  BY DEF Admitting!RequireOwner, Admitting!Free
<1>3. p \in Pcs /\ p \in {"write", "target", "workspace"}
  BY DEF Pcs
<1>4. x \in TxRecords /\ x.kind = t.kind /\ x.pc = p /\ x.who = t.who /\ x.name = t.name
      /\ x.subject = t.subject /\ x.inv = t.inv /\ x.held = t.held /\ x.was = t.was
  BY <1>1, <1>3, PcMoves
<1> HIDE DEF x
<1>5. TxOK(x)
  BY <1>1, <1>2, <1>3, <1>4 DEF TxOK, Activates
<1> QED BY <1>2, <1>4, <1>5, MovesKeeps, EndsKeeps

LEMMA LockTargetKeeps ==
  ASSUME AdmissionInv, NEW s \in Sessions, Admitting!LockTarget(s)
  PROVE  AdmissionInv'
<1> PICK t : t = sessions_[s]
  OBVIOUS
<1> PICK L : L = {<<"member", t.who>>}
  OBVIOUS
<1>1. t \in TxRecords /\ TxOK(t) /\ t.held \subseteq Admitting!Locks
  BY TxOf
<1> DEFINE x == Stepped(t, "workspace", t.held \cup L)
<1>2. t.kind = "disable" /\ t.pc = "target" /\ Admitting!OnlySession /\ Admitting!Free(s, L) /\ (Admitting!Ends(s) \/ Admitting!Set(s, x))
  BY DEF Admitting!LockTarget, Admitting!Steps, Stepped
<1>3. L \in SUBSET Admitting!Locks /\ "workspace" \in Pcs
  BY <1>1, <1>2, LockSets DEF TxOK, Pcs, Admitting!Principals
<1>4. x \in TxRecords /\ x.kind = t.kind /\ x.pc = "workspace" /\ x.who = t.who /\ x.name = t.name
      /\ x.subject = t.subject /\ x.inv = t.inv /\ x.held = t.held \cup L /\ x.was = t.was
  BY <1>1, <1>3, StepMoves
<1> HIDE DEF x
<1>5. TxOK(x)
  BY <1>1, <1>2, <1>3, <1>4 DEF TxOK, Activates, Standing
<1> QED BY <1>2, <1>4, <1>5, MovesKeeps, EndsKeeps

LEMMA ExpireInvitationsKeeps ==
  ASSUME AdmissionInv, NEW s \in Sessions, Admitting!ExpireInvitations(s)
  PROVE  AdmissionInv'
<1> PICK t : t = sessions_[s]
  OBVIOUS
<1> PICK over : over = {i \in Admitting!Invitations : Admitting!Pending(i) /\ invitations[i].expires <= t.at}
  OBVIOUS
<1> PICK L : L = {<<"invitation", i>> : i \in over}
  OBVIOUS
<1>1. t \in TxRecords /\ TxOK(t) /\ t.held \subseteq Admitting!Locks
  BY TxOf
<1> DEFINE x == Stepped(t, "commit", t.held \cup L)
<1>2. t.kind = "invite" /\ t.pc = "expire" /\ Admitting!OnlySession /\ Admitting!Free(s, L)
      /\ (Admitting!Ends(s) \/ (Admitting!Set(s, x) /\ Admitting!IsOwner(t.by)))
  BY DEF Admitting!ExpireInvitations, Admitting!Steps, Stepped, Admitting!StillOwner
<1>3. L \in SUBSET Admitting!Locks /\ "commit" \in Pcs
  BY DEF Admitting!Locks, Pcs
<1>4. x \in TxRecords /\ x.kind = t.kind /\ x.pc = "commit" /\ x.who = t.who /\ x.name = t.name
      /\ x.subject = t.subject /\ x.inv = t.inv /\ x.held = t.held \cup L /\ x.was = t.was /\ x.by = t.by
  BY <1>1, <1>3, StepMoves
<1>6. \A i \in Admitting!Invitations : <<"invitation", i>> \in L => Admitting!Pending(i)
  OBVIOUS
<1>7. \A i \in Admitting!Invitations : <<"invitation", i>> \in t.held => <<"invitation", i>> = <<"workspace", 0>>
  BY <1>1, <1>2 DEF TxOK
<1>8. \A i \in Admitting!Invitations : <<"invitation", i>> # <<"workspace", 0>>
  OBVIOUS
<1>9. \A i \in Admitting!Invitations : <<"invitation", i>> \in t.held \cup L => Admitting!Pending(i)
  BY <1>6, <1>7, <1>8
<1> HIDE DEF x
<1>5. Admitting!IsOwner(t.by) => TxOK(x)
  BY <1>1, <1>2, <1>4, <1>9 DEF TxOK, Activates
<1> QED BY <1>2, <1>4, <1>5, MovesKeeps, EndsKeeps

LEMMA RequireMembershipKeeps ==
  ASSUME AdmissionInv, NEW s \in Sessions, Admitting!RequireMembership(s)
  PROVE  AdmissionInv'
<1> PICK t : t = sessions_[s]
  OBVIOUS
<1> PICK L : L = {<<"user", t.who>>, <<"member", t.who>>}
  OBVIOUS
<1>1. t \in TxRecords /\ TxOK(t) /\ t.held \subseteq Admitting!Locks
  BY TxOf
<1>2. t.kind \in {"promote", "demote"} /\ t.pc = "target" /\ Admitting!OnlySession /\ Admitting!Free(s, L)
      /\ \/ Admitting!Ends(s)
         \/ Admitting!Set(s, [t EXCEPT !.pc = "workspace", !.was = roster[t.who].role, !.held = t.held \cup L])
  BY DEF Admitting!RequireMembership
<1>3. t.who \in Admitting!Humans /\ t.who \in Admitting!Principals /\ "workspace" \in Pcs
  BY <1>1, <1>2 DEF TxOK, Admitting!Principals, Pcs
<1>4. L \in SUBSET Admitting!Locks
  BY <1>3, LockSets
<1>5. roster[t.who].role \in {"none", "active", "revoked", "owner", "member"}
  BY <1>3, AdmissionTypes DEF AdmissionInv, MemberRecords
<1> PICK w \in {"none", "active", "revoked", "owner", "member"} : w = roster[t.who].role
  BY <1>5
<1> PICK h \in SUBSET Admitting!Locks : h = t.held \cup L
  BY <1>1, <1>4
<1> DEFINE a == [t EXCEPT !.pc = "workspace"]
           b == [a EXCEPT !.was = w]
           x == [b EXCEPT !.held = h]
<1>6. Admitting!Ends(s) \/ Admitting!Set(s, x)
  BY <1>2
<1>7. a \in TxRecords /\ a.kind = t.kind /\ a.pc = "workspace" /\ a.who = t.who
  BY <1>1, <1>3, PcMoves
<1> HIDE DEF a
<1>8. b \in TxRecords /\ b.kind = t.kind /\ b.pc = "workspace" /\ b.who = t.who
  BY <1>7, WasMoves
<1> HIDE DEF b
<1>9. x \in TxRecords /\ x.kind = t.kind /\ x.pc = "workspace" /\ x.who = t.who /\ x.held = h
  BY <1>8 DEF TxRecords
<1> HIDE DEF x
<1>10. TxOK(x)
  BY <1>2, <1>3, <1>9 DEF TxOK, Activates
<1> QED BY <1>2, <1>6, <1>9, <1>10, MovesKeeps, EndsKeeps

LEMMA AbortsKeeps ==
  ASSUME AdmissionInv, NEW s \in Sessions, Admitting!Aborts(s)
  PROVE  AdmissionInv'
<1> PICK t : t = sessions_[s]
  OBVIOUS
<1>1. t \in TxRecords /\ TxOK(t)
  BY TxOf
<1>2. day \in 0..MaxDays /\ aborts \in 0..MaxAborts /\ begun \in 0..MaxBegun
  BY AdmissionTypes DEF AdmissionInv
<1>3. aborts' \in 0..MaxAborts /\ begun' \in 0..MaxBegun /\ day' \in 0..MaxDays
      /\ UNCHANGED roster /\ UNCHANGED usernames /\ UNCHANGED invitations /\ UNCHANGED bindings
      /\ UNCHANGED acts /\ UNCHANGED activatedBy
  BY <1>2, AdmissionBounds DEF Admitting!Aborts, Admitting!Data
<1>4. CASE Admitting!Set(s, Admitting!NoTx)
  <2>1. sessions_' = [sessions_ EXCEPT ![s] = Admitting!NoTx]
    BY <1>4 DEF Admitting!Set
  <2> QED BY <1>3, <2>1, NoTxOK, OnlyLocks
<1>5. CASE t.kind \in {"redeem", "admit"} /\ t.tries < MaxRetries
           /\ Admitting!Set(s, [Admitting!NoTx EXCEPT !.kind = t.kind, !.who = t.who, !.subject = t.subject,
                        !.at = t.at, !.tries = t.tries + 1,
                        !.pc = IF t.kind = "redeem" THEN "invitation" ELSE "locate"])
  <2> PICK p : p = IF t.kind = "redeem" THEN "invitation" ELSE "locate"
    OBVIOUS
  <2> PICK n : n = t.tries + 1
    OBVIOUS
  <2>1. n \in 0..MaxRetries /\ p \in Pcs /\ t.who \in Guests
    BY <1>1, <1>5, AdmissionBounds DEF TxRecords, TxOK, Activates, Pcs
  <2> DEFINE a == [Admitting!NoTx EXCEPT !.kind = t.kind]
             b == [a EXCEPT !.who = t.who]
             c == [b EXCEPT !.subject = t.subject]
             d == [c EXCEPT !.at = t.at]
             e == [d EXCEPT !.tries = n]
             x == [e EXCEPT !.pc = p]
  <2>2. sessions_' = [sessions_ EXCEPT ![s] = x]
    BY <1>5 DEF Admitting!Set
  <2>3. a \in TxRecords /\ a.kind = t.kind /\ a.held = {} /\ a.name = 0
    BY <1>1, NoTxOK DEF TxRecords, Admitting!NoTx
  <2> HIDE DEF a
  <2>4. b \in TxRecords /\ b.kind = t.kind /\ b.held = {} /\ b.name = 0 /\ b.who = t.who
    BY <1>1, <2>3 DEF TxRecords
  <2> HIDE DEF b
  <2>5. c \in TxRecords /\ c.kind = t.kind /\ c.held = {} /\ c.name = 0 /\ c.who = t.who
        /\ c.subject = t.subject
    BY <1>1, <2>4 DEF TxRecords
  <2> HIDE DEF c
  <2>6. d \in TxRecords /\ d.kind = t.kind /\ d.held = {} /\ d.name = 0 /\ d.who = t.who
        /\ d.subject = t.subject
    BY <1>1, <2>5 DEF TxRecords
  <2> HIDE DEF d
  <2>7. e \in TxRecords /\ e.kind = t.kind /\ e.held = {} /\ e.name = 0 /\ e.who = t.who
        /\ e.subject = t.subject
    BY <2>1, <2>6 DEF TxRecords
  <2> HIDE DEF e
  <2>8. x \in TxRecords /\ x.kind = t.kind /\ x.held = {} /\ x.name = 0 /\ x.who = t.who
        /\ x.subject = t.subject /\ x.pc = p
    BY <2>1, <2>7, PcMoves
  <2> HIDE DEF x
  <2>9. TxOK(x)
    BY <1>1, <1>5, <2>1, <2>8 DEF TxOK, Activates
  <2> QED BY <1>3, <2>2, <2>8, <2>9, OnlyLocks
<1> QED BY <1>4, <1>5 DEF Admitting!Aborts

-----------------------------------------------------------------------------
(* The statements that write, at a transaction's end.                      *)

LEMMA EndsSteady ==
  ASSUME AdmissionInv, NEW s \in Sessions, Admitting!Ends(s), \A o \in Sessions \ {s} : Steady(sessions_[o])
  PROVE  Transactions' /\ sessions_' \in [Sessions -> TxRecords]
<1>1. sessions_' = [sessions_ EXCEPT ![s] = Admitting!NoTx]
  BY DEF Admitting!Ends, Admitting!Set
<1> QED BY <1>1, NoTxOK, SetKeeps

LEMMA StaySteady ==
  ASSUME AdmissionInv, UNCHANGED sessions_, \A o \in Sessions : Steady(sessions_[o])
  PROVE  Transactions' /\ sessions_' \in [Sessions -> TxRecords]
<1>1. sessions_ \in [Sessions -> TxRecords] /\ Transactions
  BY AdmissionTypes DEF AdmissionInv
<1>2. ASSUME NEW o \in Sessions PROVE TxOK(sessions_[o])'
  <2>1. PICK y : y = sessions_[o]
    OBVIOUS
  <2>2. TxOK(y) /\ Steady(y)
    BY <2>1, <1>1 DEF Transactions
  <2>3. TxOK(y)'
    BY <2>2, TxStays
  <2>4. y = sessions_'[o]
    BY <2>1
  <2> QED BY <2>3, <2>4
<1> QED BY <1>1, <1>2 DEF Transactions

(* Who holds the workspace at its end is alone there.                      *)
LEMMA AloneAtCommit ==
  ASSUME AdmissionInv, NEW s \in Sessions, sessions_[s].pc = "commit", NEW o \in Sessions \ {s}
  PROVE  sessions_[o].pc # "commit"
<1>1. <<"workspace", 0>> \in sessions_[s].held
  BY TxOf DEF TxOK
<1>2. sessions_[o].pc = "commit" => <<"workspace", 0>> \in sessions_[o].held
  BY TxOf DEF TxOK
<1> QED BY <1>1, <1>2, TxOf

LEMMA TypeKept ==
  ASSUME Admitting!TypeOK, day' \in 0..MaxDays, aborts' \in 0..MaxAborts, begun' \in 0..MaxBegun,
         sessions_' \in [Sessions -> TxRecords], roster' \in [Admitting!Principals -> MemberRecords],
         usernames' \in [Guests -> {0} \cup Admitting!Names], invitations' \in [Admitting!Invitations -> InvitationRecords],
         bindings' \in [Subjects -> Admitting!Humans \cup {Nobody}],
         acts' \subseteq [what : {"invite", "agent", "disable"}, asOwner : BOOLEAN],
         activatedBy' \in [Admitting!Invitations -> 0..2]
  PROVE  Admitting!TypeOK'
BY DEF Admitting!TypeOK, TxRecords, MemberRecords, InvitationRecords

LEMMA ActivateKeeps ==
  ASSUME AdmissionInv, NEW s \in Sessions, Admitting!ActivateInvitation(s)
  PROVE  AdmissionInv' /\ Admitting!BoundForGood /\ Admitting!EndsAreFinal
<1> PICK t : t = sessions_[s]
  OBVIOUS
<1>1. t \in TxRecords /\ TxOK(t) /\ t.held \subseteq Admitting!Locks
      /\ \A o \in Sessions \ {s} : t.held \cap sessions_[o].held = {}
  BY TxOf
<1>2. Activates(t) /\ t.pc = "commit" /\ Admitting!Ends(s)
      /\ UNCHANGED acts /\ UNCHANGED day /\ UNCHANGED aborts /\ UNCHANGED begun
  BY DEF Admitting!ActivateInvitation, Activates, Admitting!NothingElse
<1>3. /\ day \in 0..MaxDays /\ aborts \in 0..MaxAborts /\ begun \in 0..MaxBegun
      /\ roster \in [Admitting!Principals -> MemberRecords]
      /\ usernames \in [Guests -> {0} \cup Admitting!Names]
      /\ invitations \in [Admitting!Invitations -> InvitationRecords]
      /\ bindings \in [Subjects -> Admitting!Humans \cup {Nobody}]
      /\ acts \subseteq [what : {"invite", "agent", "disable"}, asOwner : BOOLEAN]
      /\ activatedBy \in [Admitting!Invitations -> 0..2]
  BY AdmissionTypes DEF AdmissionInv
<1>4. t.who \in Guests /\ t.who \in Admitting!Humans /\ t.who \in Admitting!Principals /\ t.inv \in Admitting!Invitations
      /\ <<"member", t.who>> \in t.held /\ Standing(t)
      /\ (t.kind = "admit" => t.subject \in Subjects)
      /\ (t.name # 0 => t.name \in Admitting!FreeNames /\ <<"name", t.name>> \in t.held)
  BY <1>1, <1>2 DEF TxOK, Admitting!Principals, Admitting!Humans
<1>5. CASE UNCHANGED invitations /\ UNCHANGED roster /\ UNCHANGED usernames /\ UNCHANGED bindings
           /\ UNCHANGED activatedBy
  <2>1. Admitting!OnlySession
    BY <1>2, <1>5 DEF Admitting!OnlySession, Admitting!Data, Admitting!NothingElse
  <2>2. AdmissionInv'
    BY <1>2, <2>1, EndsKeeps
  <2> QED BY <2>2, <1>5 DEF Admitting!BoundForGood, Admitting!EndsAreFinal, AdmissionInv, OneSubjectEach
<1>6. CASE /\ (t.was # "active" => Admitting!countActiveMembers < MaxMembers) /\ Admitting!Redeemable(t.inv, t.at)
           /\ (t.kind = "admit" => Admitting!MayBind(t.subject, t.who))
           /\ invitations' = [invitations EXCEPT ![t.inv].status = "accepted"]
           /\ roster' = IF t.was # "active"
                        THEN [roster EXCEPT ![t.who] = [status |-> "active", role |-> "member"]]
                        ELSE roster
           /\ usernames' = IF t.name # 0 THEN [usernames EXCEPT ![t.who] = t.name] ELSE usernames
           /\ bindings' = IF t.kind = "admit" THEN [bindings EXCEPT ![t.subject] = t.who] ELSE bindings
           /\ activatedBy' = [activatedBy EXCEPT ![t.inv] = IF @ < 2 THEN @ + 1 ELSE @]
  <2>1. invitations[t.inv].status = "pending" /\ activatedBy[t.inv] = 0
    BY <1>3, <1>4, <1>6 DEF Admitting!Redeemable, Admitting!Pending, AdmissionInv, Admitting!ActivatedOnce
  <2>2. /\ invitations' \in [Admitting!Invitations -> InvitationRecords]
        /\ \A i \in Admitting!Invitations : i # t.inv => invitations'[i] = invitations[i]
        /\ invitations'[t.inv].status = "accepted" /\ invitations'[t.inv].email = invitations[t.inv].email
    BY <1>3, <1>4, <1>6 DEF InvitationRecords
  <2>3. activatedBy' \in [Admitting!Invitations -> 0..2] /\ activatedBy'[t.inv] = 1
        /\ \A i \in Admitting!Invitations : i # t.inv => activatedBy'[i] = activatedBy[i]
    BY <1>3, <1>4, <1>6, <2>1
  <2>4. /\ roster' \in [Admitting!Principals -> MemberRecords]
        /\ \A u \in Admitting!Principals : u # t.who => roster'[u] = roster[u]
        /\ roster'[t.who].status = "active"
        /\ roster[t.who].status = "active" => roster' = roster
    <3>1. [status |-> "active", role |-> "member"] \in MemberRecords
      BY DEF MemberRecords
    <3> QED BY <1>3, <1>4, <1>6, <3>1 DEF Standing
  <2>5. /\ usernames' \in [Guests -> {0} \cup Admitting!Names]
        /\ \A u \in Guests : u # t.who => usernames'[u] = usernames[u]
        /\ (t.name = 0 => usernames' = usernames) /\ (t.name # 0 => usernames'[t.who] = t.name)
    BY <1>3, <1>4, <1>6 DEF Admitting!FreeNames
  <2>6. bindings' \in [Subjects -> Admitting!Humans \cup {Nobody}]
    BY <1>3, <1>4, <1>6
  <2>7. ASSUME NEW o \in Sessions \ {s} PROVE Steady(sessions_[o])
    <3>1. PICK y : y = sessions_[o]
      OBVIOUS
    <3>2. TxOK(y) /\ y.held \cap t.held = {} /\ y.pc # "commit"
      BY <1>1, <1>2, <3>1, TxOf, AloneAtCommit
    <3>3. ASSUME Activates(y), y.pc = "workspace" PROVE roster'[y.who].status = roster[y.who].status
      <4>1. <<"member", y.who>> \in y.held /\ y.who \in Guests
        BY <3>2, <3>3 DEF TxOK
      <4>2. y.who # t.who /\ y.who \in Admitting!Principals
        BY <4>1, <3>2, <1>4 DEF Admitting!Principals, Admitting!Humans
      <4> QED BY <4>2, <2>4
    <3>4. ASSUME Activates(y), y.pc \in {"roster", "workspace"}, y.name # 0 PROVE y.name \in Admitting!FreeNames'
      <4>1. y.name \in Admitting!FreeNames /\ <<"name", y.name>> \in y.held
        BY <3>2, <3>4 DEF TxOK
      <4>2. t.name # 0 => y.name # t.name
        BY <4>1, <3>2, <1>4
      <4>3. ASSUME NEW u \in Guests PROVE usernames'[u] # y.name
        <5>1. usernames[u] # y.name
          BY <4>1 DEF Admitting!FreeNames
        <5>2. CASE t.name = 0
          <6>1. usernames' = usernames
            BY <5>2, <2>5
          <6> QED BY <5>1, <6>1
        <5>3. CASE t.name # 0 /\ u = t.who
          <6>1. usernames'[t.who] = t.name
            BY <5>3, <2>5
          <6>2. y.name # t.name
            BY <5>3, <4>2
          <6> QED BY <5>3, <6>1, <6>2
        <5>4. CASE u # t.who
          BY <5>1, <5>4, <2>5
        <5> QED BY <5>2, <5>3, <5>4
      <4> QED BY <4>1, <4>3 DEF Admitting!FreeNames
    <3>5. Steady(y)
      BY <3>2, <3>3, <3>4 DEF Steady
    <3> QED BY <3>1, <3>5
  <2>8. Transactions' /\ sessions_' \in [Sessions -> TxRecords]
    BY <1>2, <2>7, EndsSteady
  <2>9. Admitting!TypeOK'
    BY <1>2, <1>3, <2>2, <2>3, <2>4, <2>5, <2>6, <2>8, TypeKept DEF AdmissionInv
  <2>10. OneSubjectEach' /\ Admitting!BoundForGood
    BY <1>3, <1>4, <1>6, AdmissionBounds DEF Admitting!MayBind, OneSubjectEach, Admitting!BoundForGood,
                                             AdmissionInv, Admitting!Humans
  <2>11. Admitting!CapacityHeld'
    <3> DEFINE A == {u \in Admitting!Principals : roster[u].status = "active"}
               B == {u \in Admitting!Principals : roster'[u].status = "active"}
    <3>1. CASE roster[t.who].status = "active"
      BY <3>1, <2>4, AdmittingSize DEF AdmissionInv, Admitting!CapacityHeld, Admitting!countActiveMembers
    <3>2. CASE roster[t.who].status # "active"
      <4>1. Cardinality(A) < MaxMembers
        BY <3>2, <1>4, <1>6, AdmittingSize DEF Standing, Admitting!countActiveMembers
      <4>2. B \subseteq A \cup {t.who} /\ A \in SUBSET Admitting!Principals
        BY <2>4
      <4>3. IsFiniteSet(A) /\ Cardinality(A) \in Nat /\ IsFiniteSet(A \cup {t.who})
            /\ Cardinality(A \cup {t.who}) <= Cardinality(A) + 1
        <5>1. IsFiniteSet(A) /\ Cardinality(A) \in Nat
          BY <4>2, PrincipalsFinite
        <5> HIDE DEF A
        <5>2. IsFiniteSet(A \cup {t.who})
              /\ Cardinality(A \cup {t.who}) = IF t.who \in A THEN Cardinality(A) ELSE Cardinality(A) + 1
          BY <5>1, FS_AddElement, Zenon
        <5> QED BY <5>1, <5>2
      <4>4. Cardinality(B) <= Cardinality(A \cup {t.who}) /\ Cardinality(B) \in Nat
            /\ Cardinality(A \cup {t.who}) \in Nat
        <5> HIDE DEF A, B
        <5> QED BY <4>2, <4>3, FS_Subset, FS_CardinalityType
      <4>5. Cardinality(B) <= MaxMembers
        <5> HIDE DEF A, B
        <5> QED BY <4>1, <4>3, <4>4, AdmissionBounds
      <4> QED BY <4>5, AdmittingSize DEF Admitting!CapacityHeld, Admitting!countActiveMembers
    <3> QED BY <3>1, <3>2
  <2>12. Admitting!KeepsAnOwner'
    <3>1. PICK u \in Admitting!Humans : Admitting!IsOwner(u)
      BY DEF AdmissionInv, Admitting!KeepsAnOwner
    <3>2. roster'[u] = roster[u]
      BY <3>1, <2>4 DEF Admitting!IsOwner, Admitting!Principals
    <3> QED BY <3>1, <3>2 DEF Admitting!KeepsAnOwner, Admitting!IsOwner
  <2>13. Admitting!ActivatedOnce'
    <3>1. \A i \in Admitting!Invitations : activatedBy'[i] <= 1
          /\ (activatedBy'[i] = 1 <=> invitations'[i].status = "accepted")
      BY <2>2, <2>3 DEF AdmissionInv, Admitting!ActivatedOnce
    <3>2. \A u, w \in Guests : u # w /\ usernames'[u] # 0 => usernames'[u] # usernames'[w]
      BY <1>4, <2>5 DEF AdmissionInv, Admitting!ActivatedOnce, Admitting!FreeNames
    <3> QED BY <3>1, <3>2 DEF Admitting!ActivatedOnce
  <2>14. Admitting!ActsAsOwner' /\ \A i \in Admitting!Invitations : invitations'[i].status # "none" => invitations'[i].email \in Guests
    BY <1>2, <2>1, <2>2, <1>4 DEF AdmissionInv, Admitting!ActsAsOwner
  <2>15. Admitting!EndsAreFinal
    <3>1. \A u \in Admitting!Humans : roster[u].status = "active" => roster'[u] = roster[u]
      BY <2>4, <1>4 DEF Admitting!Principals
    <3>2. \A i \in Admitting!Invitations : invitations[i].status \in {"accepted", "revoked", "expired"}
            => invitations'[i] = invitations[i]
      BY <2>1, <2>2
    <3> QED BY <3>1, <3>2 DEF Admitting!EndsAreFinal
  <2> QED BY <2>8, <2>9, <2>10, <2>11, <2>12, <2>13, <2>14, <2>15 DEF AdmissionInv
<1> QED BY <1>5, <1>6 DEF Admitting!ActivateInvitation

LEMMA InvitationResolveKeeps ==
  ASSUME AdmissionInv, NEW s \in Sessions, Admitting!ResolveIdentity(s)
  PROVE  AdmissionInv' /\ Admitting!BoundForGood
<1> PICK t : t = sessions_[s]
  OBVIOUS
<1>1. t \in TxRecords /\ TxOK(t) /\ t.held \subseteq Admitting!Locks
  BY TxOf
<1>2. t.kind = "admit" /\ t.pc = "locate"
      /\ UNCHANGED roster /\ UNCHANGED usernames /\ UNCHANGED invitations
      /\ UNCHANGED acts /\ UNCHANGED activatedBy /\ UNCHANGED day /\ UNCHANGED aborts /\ UNCHANGED begun
  BY DEF Admitting!ResolveIdentity, Admitting!NothingElse
<1>3. t.who \in Guests /\ t.who \in Admitting!Humans /\ t.subject \in Subjects
  BY <1>1, <1>2 DEF TxOK, Activates, Admitting!Humans
<1>4. bindings \in [Subjects -> Admitting!Humans \cup {Nobody}]
  BY AdmissionTypes DEF AdmissionInv
<1>5. CASE Admitting!Ends(s) /\ bindings' = IF Admitting!MayBind(t.subject, t.who) /\ roster[t.who].status = "active"
                                            THEN [bindings EXCEPT ![t.subject] = t.who] ELSE bindings
  <2>1. bindings' \in [Subjects -> Admitting!Humans \cup {Nobody}]
    BY <1>3, <1>4, <1>5
  <2>2. OneSubjectEach' /\ Admitting!BoundForGood
    BY <1>3, <1>4, <1>5, AdmissionBounds DEF Admitting!MayBind, OneSubjectEach, Admitting!BoundForGood,
                                             AdmissionInv, Admitting!Humans
  <2>3. ASSUME NEW o \in Sessions \ {s} PROVE Steady(sessions_[o])
    <3>1. PICK y : y = sessions_[o]
      OBVIOUS
    <3>2. TxOK(y)
      BY <3>1, TxOf
    <3>3. Steady(y)
      BY <1>2, <3>2 DEF TxOK, Steady, Activates, Admitting!IsOwner, Admitting!Pending, Admitting!FreeNames
    <3> QED BY <3>1, <3>3
  <2>4. Transactions' /\ sessions_' \in [Sessions -> TxRecords]
    BY <1>5, <2>3, EndsSteady
  <2>5. Admitting!TypeOK'
    BY <1>2, <2>1, <2>4, AdmissionTypes, TypeKept DEF AdmissionInv
  <2>6. Admitting!CapacityHeld' /\ Admitting!KeepsAnOwner' /\ Admitting!ActsAsOwner' /\ Admitting!ActivatedOnce'
        /\ \A i \in Admitting!Invitations : invitations'[i].status # "none" => invitations'[i].email \in Guests
    BY <1>2, AdmittingSize DEF AdmissionInv, Admitting!CapacityHeld, Admitting!countActiveMembers,
                               Admitting!KeepsAnOwner, Admitting!IsOwner, Admitting!ActsAsOwner,
                Admitting!ActivatedOnce
  <2> QED BY <2>2, <2>4, <2>5, <2>6 DEF AdmissionInv
<1>6. CASE UNCHANGED bindings
  <2>1. Admitting!OnlySession
    BY <1>2, <1>6 DEF Admitting!OnlySession, Admitting!Data, Admitting!NothingElse
  <2>2. CASE Admitting!Ends(s)
    BY <2>1, <2>2, EndsKeeps, <1>6 DEF Admitting!BoundForGood, AdmissionInv, OneSubjectEach
  <2>3. ASSUME NEW i \in Admitting!Invitations, Admitting!Free(s, {<<"invitation", i>>}),
               Admitting!Set(s, [t EXCEPT !.pc = "user", !.inv = i, !.held = t.held \cup {<<"invitation", i>>}])
        PROVE  AdmissionInv'
    <3> DEFINE a == [t EXCEPT !.pc = "user"]
               b == [a EXCEPT !.inv = i]
               h == t.held \cup {<<"invitation", i>>}
               c == [b EXCEPT !.held = h]
    <3>1. h \in SUBSET Admitting!Locks /\ <<"invitation", i>> \in h
      BY <1>1, LockSets
    <3>2. Admitting!Set(s, c) /\ Admitting!Free(s, {<<"invitation", i>>})
      BY <2>3
    <3> HIDE DEF h
    <3>3. a \in TxRecords /\ a.kind = t.kind /\ a.pc = "user" /\ a.who = t.who /\ a.name = t.name
          /\ a.subject = t.subject
      <4>1. "user" \in Pcs
        BY DEF Pcs
      <4> QED BY <1>1, <4>1, PcMoves
    <3> HIDE DEF a
    <3>4. b \in TxRecords /\ b.kind = t.kind /\ b.pc = "user" /\ b.who = t.who /\ b.name = t.name
          /\ b.subject = t.subject /\ b.inv = i
      BY <3>3, InvMoves
    <3> HIDE DEF b
    <3>5. c \in TxRecords /\ c.kind = t.kind /\ c.pc = "user" /\ c.who = t.who /\ c.name = t.name
          /\ c.subject = t.subject /\ c.inv = i /\ c.held = h
      BY <3>4, <3>1, HeldMoves
    <3> HIDE DEF c
    <3>6. TxOK(c)
      BY <1>1, <1>2, <3>1, <3>5 DEF TxOK, Activates
    <3> QED BY <2>1, <3>2, <3>5, <3>6, MovesKeeps DEF h
  <2> QED BY <1>6, <2>2, <2>3 DEF Admitting!ResolveIdentity, Admitting!BoundForGood, AdmissionInv, OneSubjectEach
<1> QED BY <1>5, <1>6 DEF Admitting!ResolveIdentity

(* What stays true when only invitations change, and those that change     *)
(* were pending and have ended, or are new.                                *)
InvitationsMove ==
  /\ invitations' \in [Admitting!Invitations -> InvitationRecords]
  /\ \A i \in Admitting!Invitations :
       \/ invitations'[i] = invitations[i]
       \/ /\ invitations[i].status \in {"none", "pending"} /\ invitations'[i].status # "accepted"
          /\ invitations'[i].status # "none" => invitations'[i].email \in Guests

LEMMA InvitationsKeep ==
  ASSUME AdmissionInv, InvitationsMove, Transactions', sessions_' \in [Sessions -> TxRecords],
         UNCHANGED roster, UNCHANGED usernames, UNCHANGED bindings, UNCHANGED activatedBy,
         UNCHANGED day, UNCHANGED aborts, UNCHANGED begun,
         acts' \subseteq [what : {"invite", "agent", "disable"}, asOwner : BOOLEAN],
         Admitting!ActsAsOwner'
  PROVE  AdmissionInv' /\ Admitting!BoundForGood /\ Admitting!EndsAreFinal
<1>1. Admitting!TypeOK'
  BY AdmissionTypes, TypeKept DEF AdmissionInv, InvitationsMove
<1>2. Admitting!ActivatedOnce'
  <2>1. \A i \in Admitting!Invitations : invitations'[i].status = "accepted" <=> invitations[i].status = "accepted"
    BY DEF InvitationsMove
  <2> QED BY <2>1 DEF AdmissionInv, Admitting!ActivatedOnce
<1>3. Admitting!CapacityHeld' /\ Admitting!KeepsAnOwner' /\ OneSubjectEach'
  BY AdmittingSize DEF AdmissionInv, Admitting!CapacityHeld, Admitting!countActiveMembers,
                       Admitting!KeepsAnOwner, Admitting!IsOwner, OneSubjectEach
<1>4. \A i \in Admitting!Invitations : invitations'[i].status # "none" => invitations'[i].email \in Guests
  BY DEF AdmissionInv, InvitationsMove
<1>5. Admitting!BoundForGood /\ Admitting!EndsAreFinal
  BY DEF Admitting!BoundForGood, Admitting!EndsAreFinal, AdmissionInv, OneSubjectEach, InvitationsMove
<1> QED BY <1>1, <1>2, <1>3, <1>4, <1>5 DEF AdmissionInv

LEMMA CreateInvitationKeeps ==
  ASSUME AdmissionInv, NEW s \in Sessions, Admitting!CreateInvitation(s)
  PROVE  AdmissionInv' /\ Admitting!BoundForGood /\ Admitting!EndsAreFinal
<1> DEFINE t == sessions_[s]
           expired == [i \in Admitting!Invitations |-> IF <<"invitation", i>> \in t.held
                                                       THEN [invitations[i] EXCEPT !.status = "expired"]
                                                       ELSE invitations[i]]
           fresh == {i \in Admitting!Invitations : invitations[i].status = "none"}
           Adds == /\ fresh # {} /\ Admitting!Records("invite", t.by)
                   /\ invitations' = [expired EXCEPT ![CHOOSE i \in fresh : \A o \in fresh : i <= o] =
                                        [email |-> t.who, status |-> "pending", expires |-> t.at + 1]]
<1>0. (UNCHANGED <<invitations, acts>>) \/ Adds
  BY DEF Admitting!CreateInvitation
<1>11. t = sessions_[s] /\ fresh = {i \in Admitting!Invitations : invitations[i].status = "none"}
       /\ expired = [i \in Admitting!Invitations |-> IF <<"invitation", i>> \in t.held
                                                      THEN [invitations[i] EXCEPT !.status = "expired"]
                                                      ELSE invitations[i]]
  OBVIOUS
<1>1. t \in TxRecords /\ TxOK(t)
  BY TxOf
<1>2. t.kind = "invite" /\ t.pc = "commit" /\ Admitting!Ends(s)
      /\ UNCHANGED roster /\ UNCHANGED usernames /\ UNCHANGED bindings /\ UNCHANGED activatedBy
      /\ UNCHANGED day /\ UNCHANGED aborts /\ UNCHANGED begun
  BY DEF Admitting!CreateInvitation, Admitting!NothingElse
<1> HIDE DEF t, expired, fresh
<1>3. t.who \in Guests /\ t.who \in Admitting!Humans /\ Admitting!IsOwner(t.by) /\ t.at \in 0..MaxDays
      /\ \A i \in Admitting!Invitations : <<"invitation", i>> \in t.held => Admitting!Pending(i)
  BY <1>1, <1>2 DEF TxOK, TxRecords, Admitting!Humans
<1>4. invitations \in [Admitting!Invitations -> InvitationRecords]
      /\ acts \subseteq [what : {"invite", "agent", "disable"}, asOwner : BOOLEAN]
  BY AdmissionTypes DEF AdmissionInv
<1>5. CASE UNCHANGED invitations /\ UNCHANGED acts
  <2>1. Admitting!OnlySession
    BY <1>2, <1>5 DEF Admitting!OnlySession, Admitting!Data, Admitting!NothingElse
  <2>2. AdmissionInv'
    BY <1>2, <2>1, EndsKeeps
  <2> QED BY <1>2, <1>5, <2>2 DEF Admitting!BoundForGood, Admitting!EndsAreFinal, AdmissionInv, OneSubjectEach
<1>6. ASSUME NEW n \in fresh, Admitting!Records("invite", t.by),
             invitations' = [expired EXCEPT ![n] = [email |-> t.who, status |-> "pending", expires |-> t.at + 1]]
      PROVE  AdmissionInv' /\ Admitting!BoundForGood /\ Admitting!EndsAreFinal
  <2>1. n \in Admitting!Invitations /\ invitations[n].status = "none"
    BY <1>11
  <2>2. expired \in [Admitting!Invitations -> InvitationRecords]
        /\ \A i \in Admitting!Invitations : expired[i] # invitations[i] =>
             invitations[i].status = "pending" /\ expired[i].status = "expired"
             /\ expired[i].email = invitations[i].email
    BY <1>3, <1>4, <1>11 DEF InvitationRecords, Admitting!Pending
  <2>3. [email |-> t.who, status |-> "pending", expires |-> t.at + 1] \in InvitationRecords
    BY <1>3, AdmissionBounds DEF InvitationRecords
  <2>4. invitations' \in [Admitting!Invitations -> InvitationRecords]
        /\ (\A i \in Admitting!Invitations : i # n => invitations'[i] = expired[i])
        /\ invitations'[n].status = "pending" /\ invitations'[n].email = t.who
    BY <1>6, <2>1, <2>2, <2>3
  <2>5. \A i \in Admitting!Invitations : invitations[i].status # "none" => invitations[i].email \in Guests
    BY DEF AdmissionInv
  <2>6. InvitationsMove
    BY <1>3, <2>1, <2>2, <2>4, <2>5 DEF InvitationsMove
  <2>7. ASSUME NEW o \in Sessions \ {s} PROVE Steady(sessions_[o])
    <3>1. PICK y : y = sessions_[o]
      OBVIOUS
    <3>2. TxOK(y) /\ y.pc # "commit"
      BY <1>2, <1>11, <3>1, TxOf, AloneAtCommit
    <3>3. Steady(y)
      BY <1>2, <3>2 DEF TxOK, Steady, Admitting!FreeNames
    <3> QED BY <3>1, <3>3
  <2>8. Transactions' /\ sessions_' \in [Sessions -> TxRecords]
    BY <1>2, <2>7, EndsSteady
  <2>9. acts' \subseteq [what : {"invite", "agent", "disable"}, asOwner : BOOLEAN] /\ Admitting!ActsAsOwner'
    <3>1. acts' = acts \cup {[what |-> "invite", asOwner |-> TRUE]}
      BY <1>3, <1>4, <1>6, Zenon DEF Admitting!Records, Admitting!IsOwner
    <3>2. [what |-> "invite", asOwner |-> TRUE] \in [what : {"invite", "agent", "disable"}, asOwner : BOOLEAN]
      OBVIOUS
    <3> QED BY <1>4, <3>1, <3>2 DEF Admitting!ActsAsOwner, AdmissionInv
  <2> QED BY <1>2, <2>6, <2>8, <2>9, InvitationsKeep
<1>7. CASE Adds
  <2>1. fresh \in SUBSET Nat
    BY <1>11 DEF Admitting!Invitations
  <2>2. \E x \in fresh : \A y \in fresh : x <= y
    BY <1>7, <2>1, HasLeast
  <2>3. (CHOOSE i \in fresh : \A o \in fresh : i <= o) \in fresh
    BY <2>2, Zenon
  <2>4. PICK n \in fresh : n = CHOOSE i \in fresh : \A o \in fresh : i <= o
    BY <2>3
  <2>5. invitations' = [expired EXCEPT ![n] = [email |-> t.who, status |-> "pending", expires |-> t.at + 1]]
    BY <1>7, <2>4
  <2>6. Admitting!Records("invite", t.by)
    BY <1>7
  <2> QED BY <1>6, <2>5, <2>6, Zenon
<1> QED BY <1>0, <1>5, <1>7

LEMMA ListInvitationsKeeps ==
  ASSUME AdmissionInv, Admitting!ListInvitations
  PROVE  AdmissionInv' /\ Admitting!BoundForGood /\ Admitting!EndsAreFinal
<1> PICK over : over = {i \in Admitting!Invitations : Admitting!Pending(i) /\ invitations[i].expires <= day}
  OBVIOUS
<1>1. /\ \A s \in Sessions : sessions_[s].held \cap {<<"invitation", i>> : i \in over} = {}
      /\ invitations' = [i \in Admitting!Invitations |-> IF i \in over THEN [invitations[i] EXCEPT !.status = "expired"]
                                                         ELSE invitations[i]]
      /\ UNCHANGED roster /\ UNCHANGED usernames /\ UNCHANGED bindings /\ UNCHANGED activatedBy
      /\ UNCHANGED day /\ UNCHANGED aborts /\ UNCHANGED begun /\ UNCHANGED acts /\ UNCHANGED sessions_
  BY DEF Admitting!ListInvitations, Admitting!NothingElse
<1>2. invitations \in [Admitting!Invitations -> InvitationRecords]
      /\ acts \subseteq [what : {"invite", "agent", "disable"}, asOwner : BOOLEAN]
  BY AdmissionTypes DEF AdmissionInv
<1>3. InvitationsMove /\ \A i \in Admitting!Invitations : i \notin over => invitations'[i] = invitations[i]
  BY <1>1, <1>2 DEF InvitationsMove, InvitationRecords, Admitting!Pending, AdmissionInv
<1>4. ASSUME NEW o \in Sessions PROVE Steady(sessions_[o])
  <2>1. PICK y : y = sessions_[o]
    OBVIOUS
  <2>2. TxOK(y) /\ y.held \cap {<<"invitation", i>> : i \in over} = {}
    BY <1>1, <2>1, TxOf
  <2>3. \A i \in Admitting!Invitations : <<"invitation", i>> \in y.held => i \notin over
    BY <2>2
  <2>4. \A i \in Admitting!Invitations : <<"invitation", i>> \in y.held => invitations'[i] = invitations[i]
    BY <2>3, <1>3
  <2>5. Steady(y)
    BY <1>1, <2>2, <2>4 DEF TxOK, Steady, Admitting!FreeNames, Admitting!IsOwner, Admitting!Pending
  <2> QED BY <2>1, <2>5
<1>5. Transactions' /\ sessions_' \in [Sessions -> TxRecords]
  BY <1>1, <1>4, StaySteady
<1>6. Admitting!ActsAsOwner'
  BY <1>1 DEF Admitting!ActsAsOwner, AdmissionInv
<1> QED BY <1>1, <1>2, <1>3, <1>5, <1>6, InvitationsKeep

LEMMA RevokeInvitationKeeps ==
  ASSUME AdmissionInv, NEW s \in Sessions, Admitting!RevokeInvitation(s)
  PROVE  AdmissionInv' /\ Admitting!BoundForGood /\ Admitting!EndsAreFinal
<1>1. PICK i \in Admitting!Invitations :
        /\ Admitting!Free(s, {<<"invitation", i>>})
        /\ invitations' = IF Admitting!Pending(i) THEN [invitations EXCEPT ![i].status = "revoked"] ELSE invitations
  BY DEF Admitting!RevokeInvitation
<1>2. UNCHANGED roster /\ UNCHANGED usernames /\ UNCHANGED bindings /\ UNCHANGED activatedBy
      /\ UNCHANGED day /\ UNCHANGED aborts /\ UNCHANGED begun /\ UNCHANGED acts /\ Admitting!Ends(s)
  BY DEF Admitting!RevokeInvitation, Admitting!NothingElse
<1>3. invitations \in [Admitting!Invitations -> InvitationRecords]
      /\ acts \subseteq [what : {"invite", "agent", "disable"}, asOwner : BOOLEAN]
  BY AdmissionTypes DEF AdmissionInv
<1>4. InvitationsMove /\ \A j \in Admitting!Invitations : j # i => invitations'[j] = invitations[j]
  BY <1>1, <1>3 DEF InvitationsMove, InvitationRecords, Admitting!Pending, AdmissionInv
<1>5. ASSUME NEW o \in Sessions \ {s} PROVE Steady(sessions_[o])
  <2>1. PICK y : y = sessions_[o]
    OBVIOUS
  <2>2. TxOK(y) /\ y.held \cap {<<"invitation", i>>} = {}
    BY <1>1, <2>1, TxOf DEF Admitting!Free
  <2>3. \A j \in Admitting!Invitations : <<"invitation", j>> \in y.held => invitations'[j] = invitations[j]
    BY <2>2, <1>4
  <2>4. Steady(y)
    BY <1>2, <2>2, <2>3 DEF TxOK, Steady, Admitting!FreeNames, Admitting!IsOwner, Admitting!Pending
  <2> QED BY <2>1, <2>4
<1>6. Transactions' /\ sessions_' \in [Sessions -> TxRecords]
  BY <1>2, <1>5, EndsSteady
<1>7. Admitting!ActsAsOwner'
  BY <1>2 DEF Admitting!ActsAsOwner, AdmissionInv
<1> QED BY <1>2, <1>3, <1>4, <1>6, <1>7, InvitationsKeep

(* What stays true when one principal's membership changes under the       *)
(* workspace's lock.                                                       *)
LEMMA RosterKeeps ==
  ASSUME AdmissionInv, NEW s \in Sessions, sessions_[s].pc = "commit", Admitting!Ends(s),
         roster' \in [Admitting!Principals -> MemberRecords],
         \A u \in Guests : roster'[u].status = roster[u].status,
         Admitting!CapacityHeld', Admitting!KeepsAnOwner', Admitting!ActsAsOwner',
         acts' \subseteq [what : {"invite", "agent", "disable"}, asOwner : BOOLEAN],
         UNCHANGED usernames, UNCHANGED invitations, UNCHANGED bindings, UNCHANGED activatedBy,
         UNCHANGED day, UNCHANGED aborts, UNCHANGED begun
  PROVE  AdmissionInv' /\ Admitting!BoundForGood
<1>1. ASSUME NEW o \in Sessions \ {s} PROVE Steady(sessions_[o])
  <2>1. PICK y : y = sessions_[o]
    OBVIOUS
  <2>2. TxOK(y) /\ y.pc # "commit"
    BY <2>1, TxOf, AloneAtCommit
  <2>3. Steady(y)
    BY <2>2 DEF TxOK, Steady, Admitting!FreeNames
  <2> QED BY <2>1, <2>3
<1>2. Transactions' /\ sessions_' \in [Sessions -> TxRecords]
  BY <1>1, EndsSteady
<1>3. Admitting!TypeOK'
  BY <1>2, AdmissionTypes, TypeKept DEF AdmissionInv
<1>4. OneSubjectEach' /\ Admitting!ActivatedOnce' /\ Admitting!BoundForGood
      /\ \A i \in Admitting!Invitations : invitations'[i].status # "none" => invitations'[i].email \in Guests
  BY DEF AdmissionInv, OneSubjectEach, Admitting!ActivatedOnce, Admitting!BoundForGood
<1> QED BY <1>2, <1>3, <1>4 DEF AdmissionInv

LEMMA CreateAgentKeeps ==
  ASSUME AdmissionInv, NEW s \in Sessions, Admitting!CreateAgent(s)
  PROVE  AdmissionInv' /\ Admitting!BoundForGood /\ Admitting!EndsAreFinal
<1> PICK t : t = sessions_[s]
  OBVIOUS
<1>1. t.kind = "agent" /\ t.pc = "commit" /\ Admitting!Ends(s)
      /\ UNCHANGED usernames /\ UNCHANGED invitations /\ UNCHANGED bindings /\ UNCHANGED activatedBy
      /\ UNCHANGED day /\ UNCHANGED aborts /\ UNCHANGED begun
  BY DEF Admitting!CreateAgent, Admitting!NothingElse
<1>2. roster \in [Admitting!Principals -> MemberRecords]
      /\ acts \subseteq [what : {"invite", "agent", "disable"}, asOwner : BOOLEAN]
  BY AdmissionTypes DEF AdmissionInv
<1>3. CASE UNCHANGED roster /\ UNCHANGED acts
  <2>1. Admitting!OnlySession
    BY <1>1, <1>3 DEF Admitting!OnlySession, Admitting!Data, Admitting!NothingElse
  <2>2. AdmissionInv'
    BY <1>1, <2>1, EndsKeeps
  <2> QED BY <1>1, <1>3, <2>2 DEF Admitting!BoundForGood, Admitting!EndsAreFinal, AdmissionInv, OneSubjectEach
<1>4. CASE Admitting!IsOwner(t.by) /\ Admitting!countActiveMembers < MaxMembers /\ roster[Agent].status = "none"
           /\ roster' = [roster EXCEPT ![Agent] = [status |-> "active", role |-> "member"]]
           /\ Admitting!Records("agent", t.by)
  <2>1. Agent \in Admitting!Principals /\ \A u \in Admitting!Humans : u \in Admitting!Principals /\ u # Agent
    BY AdmissionBounds DEF Admitting!Principals, Admitting!Humans
  <2>2. [status |-> "active", role |-> "member"] \in MemberRecords
    BY DEF MemberRecords
  <2>3. roster' \in [Admitting!Principals -> MemberRecords] /\ \A u \in Admitting!Principals : u # Agent => roster'[u] = roster[u]
    BY <1>2, <1>4, <2>1, <2>2
  <2>4. \A u \in Admitting!Humans : roster'[u] = roster[u]
    BY <2>1, <2>3
  <2>5. Admitting!KeepsAnOwner' /\ Admitting!EndsAreFinal
    BY <1>1, <2>4 DEF AdmissionInv, Admitting!KeepsAnOwner, Admitting!IsOwner, Admitting!EndsAreFinal
  <2>7. acts' \subseteq [what : {"invite", "agent", "disable"}, asOwner : BOOLEAN] /\ Admitting!ActsAsOwner'
    <3>1. acts' = acts \cup {[what |-> "agent", asOwner |-> TRUE]}
      BY <1>2, <1>4, Zenon DEF Admitting!Records, Admitting!IsOwner
    <3>2. [what |-> "agent", asOwner |-> TRUE] \in [what : {"invite", "agent", "disable"}, asOwner : BOOLEAN]
      OBVIOUS
    <3> QED BY <1>2, <3>1, <3>2 DEF Admitting!ActsAsOwner, AdmissionInv
  <2>8. Admitting!CapacityHeld'
    <3> DEFINE A == {u \in Admitting!Principals : roster[u].status = "active"}
               B == {u \in Admitting!Principals : roster'[u].status = "active"}
    <3>1. Cardinality(A) < MaxMembers
      BY <1>4, AdmittingSize DEF Admitting!countActiveMembers
    <3>2. B \subseteq A \cup {Agent} /\ A \in SUBSET Admitting!Principals
      BY <2>3
    <3>3. IsFiniteSet(A) /\ Cardinality(A) \in Nat
      BY <3>2, PrincipalsFinite
    <3>4. Cardinality(B) <= MaxMembers
      <4> HIDE DEF A, B
      <4>1. IsFiniteSet(A \cup {Agent})
            /\ Cardinality(A \cup {Agent}) = IF Agent \in A THEN Cardinality(A) ELSE Cardinality(A) + 1
        BY <3>3, FS_AddElement, Zenon
      <4>2. Cardinality(B) <= Cardinality(A \cup {Agent}) /\ Cardinality(B) \in Nat
        BY <4>1, <3>2, FS_Subset, FS_CardinalityType
      <4> QED BY <3>1, <3>3, <4>1, <4>2, AdmissionBounds
    <3> QED BY <3>4, AdmittingSize DEF Admitting!CapacityHeld, Admitting!countActiveMembers
  <2>9. \A u \in Guests : roster'[u].status = roster[u].status
    BY <2>4 DEF Admitting!Humans
  <2>10. AdmissionInv' /\ Admitting!BoundForGood
    BY <1>1, <2>3, <2>5, <2>7, <2>8, <2>9, RosterKeeps
  <2> QED BY <2>5, <2>10
<1> QED BY <1>3, <1>4 DEF Admitting!CreateAgent, Admitting!StillOwner

LEMMA DisableAgentKeeps ==
  ASSUME AdmissionInv, NEW s \in Sessions, Admitting!DisableAgent(s)
  PROVE  AdmissionInv' /\ Admitting!BoundForGood /\ Admitting!EndsAreFinal
<1> PICK t : t = sessions_[s]
  OBVIOUS
<1>1. t.kind = "disable" /\ t.pc = "commit" /\ Admitting!Ends(s)
      /\ UNCHANGED usernames /\ UNCHANGED invitations /\ UNCHANGED bindings /\ UNCHANGED activatedBy
      /\ UNCHANGED day /\ UNCHANGED aborts /\ UNCHANGED begun
  BY DEF Admitting!DisableAgent, Admitting!NothingElse
<1>2. roster \in [Admitting!Principals -> MemberRecords]
      /\ acts \subseteq [what : {"invite", "agent", "disable"}, asOwner : BOOLEAN]
  BY AdmissionTypes DEF AdmissionInv
<1>3. CASE UNCHANGED roster /\ UNCHANGED acts
  <2>1. Admitting!OnlySession
    BY <1>1, <1>3 DEF Admitting!OnlySession, Admitting!Data, Admitting!NothingElse
  <2>2. AdmissionInv'
    BY <1>1, <2>1, EndsKeeps
  <2> QED BY <1>1, <1>3, <2>2 DEF Admitting!BoundForGood, Admitting!EndsAreFinal, AdmissionInv, OneSubjectEach
<1>4. CASE Admitting!IsOwner(t.by) /\ roster' = [roster EXCEPT ![Agent].status = "revoked"] /\ Admitting!Records("disable", t.by)
  <2>1. Agent \in Admitting!Principals /\ \A u \in Admitting!Humans : u \in Admitting!Principals /\ u # Agent
    BY AdmissionBounds DEF Admitting!Principals, Admitting!Humans
  <2>3. /\ roster' \in [Admitting!Principals -> MemberRecords]
        /\ \A u \in Admitting!Principals : u # Agent => roster'[u] = roster[u]
        /\ roster'[Agent].status # "active"
    BY <1>2, <1>4, <2>1 DEF MemberRecords
  <2>4. \A u \in Admitting!Humans : roster'[u] = roster[u]
    BY <2>1, <2>3
  <2>5. Admitting!KeepsAnOwner' /\ Admitting!EndsAreFinal
    BY <1>1, <2>4 DEF AdmissionInv, Admitting!KeepsAnOwner, Admitting!IsOwner, Admitting!EndsAreFinal
  <2>7. acts' \subseteq [what : {"invite", "agent", "disable"}, asOwner : BOOLEAN] /\ Admitting!ActsAsOwner'
    <3>1. acts' = acts \cup {[what |-> "disable", asOwner |-> TRUE]}
      BY <1>2, <1>4, Zenon DEF Admitting!Records, Admitting!IsOwner
    <3>2. [what |-> "disable", asOwner |-> TRUE] \in [what : {"invite", "agent", "disable"}, asOwner : BOOLEAN]
      OBVIOUS
    <3> QED BY <1>2, <3>1, <3>2 DEF Admitting!ActsAsOwner, AdmissionInv
  <2>8. Admitting!CapacityHeld'
    <3> DEFINE A == {u \in Admitting!Principals : roster[u].status = "active"}
               B == {u \in Admitting!Principals : roster'[u].status = "active"}
    <3>1. Cardinality(A) <= MaxMembers
      BY AdmittingSize DEF AdmissionInv, Admitting!CapacityHeld, Admitting!countActiveMembers
    <3>2. B \subseteq A /\ A \in SUBSET Admitting!Principals
      BY <2>3
    <3>3. IsFiniteSet(A) /\ Cardinality(A) \in Nat
      BY <3>2, PrincipalsFinite
    <3>4. Cardinality(B) <= MaxMembers
      <4> HIDE DEF A, B
      <4>2. Cardinality(B) <= Cardinality(A) /\ Cardinality(B) \in Nat
        BY <3>3, <3>2, FS_Subset, FS_CardinalityType
      <4> QED BY <3>1, <3>3, <4>2, AdmissionBounds
    <3> QED BY <3>4, AdmittingSize DEF Admitting!CapacityHeld, Admitting!countActiveMembers
  <2>9. \A u \in Guests : roster'[u].status = roster[u].status
    BY <2>4 DEF Admitting!Humans
  <2>10. AdmissionInv' /\ Admitting!BoundForGood
    BY <1>1, <2>3, <2>5, <2>7, <2>8, <2>9, RosterKeeps
  <2> QED BY <2>5, <2>10
<1> QED BY <1>3, <1>4 DEF Admitting!DisableAgent, Admitting!StillOwner

LEMMA WriteRoleKeeps ==
  ASSUME AdmissionInv, NEW s \in Sessions, Admitting!WriteRole(s)
  PROVE  AdmissionInv' /\ Admitting!BoundForGood /\ Admitting!EndsAreFinal
<1> PICK t : t = sessions_[s]
  OBVIOUS
<1>1. t.kind \in {"promote", "demote"} /\ t.pc = "commit" /\ Admitting!Ends(s) /\ UNCHANGED acts
      /\ UNCHANGED usernames /\ UNCHANGED invitations /\ UNCHANGED bindings /\ UNCHANGED activatedBy
      /\ UNCHANGED day /\ UNCHANGED aborts /\ UNCHANGED begun
  BY DEF Admitting!WriteRole, Admitting!NothingElse
<1>2. roster \in [Admitting!Principals -> MemberRecords]
      /\ acts \subseteq [what : {"invite", "agent", "disable"}, asOwner : BOOLEAN]
  BY AdmissionTypes DEF AdmissionInv
<1>3. t.who \in Admitting!Humans /\ t.who \in Admitting!Principals /\ Admitting!Humans \subseteq Admitting!Principals
  BY <1>1, TxOf DEF TxOK, Admitting!Principals
<1>4. \/ roster' = roster
      \/ roster' = [roster EXCEPT ![t.who].role = "owner"]
      \/ ~Admitting!LastOwner /\ roster' = [roster EXCEPT ![t.who].role = "member"]
  BY DEF Admitting!WriteRole
<1>5. /\ roster' \in [Admitting!Principals -> MemberRecords]
      /\ \A u \in Admitting!Principals : u # t.who => roster'[u] = roster[u]
      /\ \A u \in Admitting!Principals : roster'[u].status = roster[u].status
  BY <1>2, <1>3, <1>4 DEF MemberRecords
<1>6. Admitting!CapacityHeld' /\ Admitting!ActsAsOwner'
  <2>1. {u \in Admitting!Principals : roster[u].status = "active"} = {u \in Admitting!Principals : roster'[u].status = "active"}
    BY <1>5
  <2> QED BY <1>1, <2>1, AdmittingSize DEF AdmissionInv, Admitting!CapacityHeld, Admitting!countActiveMembers,
                                           Admitting!ActsAsOwner
<1>7. Admitting!KeepsAnOwner'
  <2>1. PICK u \in Admitting!Humans : Admitting!IsOwner(u)
    BY DEF AdmissionInv, Admitting!KeepsAnOwner
  <2>2. CASE roster' = roster
    BY <2>1, <2>2 DEF Admitting!KeepsAnOwner, Admitting!IsOwner
  <2>3. CASE roster' = [roster EXCEPT ![t.who].role = "owner"]
    BY <1>2, <1>3, <2>1, <2>3 DEF Admitting!KeepsAnOwner, Admitting!IsOwner, MemberRecords
  <2>4. CASE ~Admitting!LastOwner
    <3> DEFINE A == {w \in Admitting!Humans : Admitting!IsOwner(w)}
    <3>1. ~(A \subseteq {t.who})
      <4>1. ~(Cardinality(A) <= 1)
        BY <2>4, AdmittingSize DEF Admitting!LastOwner
      <4> HIDE DEF A
      <4>2. IsFiniteSet({t.who}) /\ Cardinality({t.who}) = 1
        BY FS_Singleton
      <4> QED BY <4>1, <4>2, FS_Subset
    <3>2. PICK w \in Admitting!Humans : Admitting!IsOwner(w) /\ w # t.who
      BY <3>1
    <3> QED BY <1>3, <1>5, <3>2 DEF Admitting!KeepsAnOwner, Admitting!IsOwner
  <2> QED BY <1>4, <2>2, <2>3, <2>4
<1>8. \A u \in Guests : roster'[u].status = roster[u].status
  BY <1>3, <1>5 DEF Admitting!Humans
<1>9. AdmissionInv' /\ Admitting!BoundForGood
  BY <1>1, <1>2, <1>5, <1>6, <1>7, <1>8, RosterKeeps
<1>10. Admitting!EndsAreFinal
  BY <1>1, <1>3, <1>5 DEF Admitting!EndsAreFinal
<1> QED BY <1>9, <1>10

LEMMA AdmissionDayPassesKeeps ==
  ASSUME AdmissionInv, Admitting!DayPasses
  PROVE  AdmissionInv'
<1>1. UNCHANGED roster /\ UNCHANGED usernames /\ UNCHANGED invitations /\ UNCHANGED bindings
      /\ UNCHANGED acts /\ UNCHANGED activatedBy /\ UNCHANGED sessions_
      /\ UNCHANGED aborts /\ UNCHANGED begun /\ day' \in 0..MaxDays
  BY AdmissionTypes, AdmissionBounds DEF AdmissionInv, Admitting!DayPasses, Admitting!Data
<1>2. ASSUME NEW o \in Sessions PROVE Steady(sessions_[o])
  <2>1. PICK y : y = sessions_[o]
    OBVIOUS
  <2>2. TxOK(y)
    BY <2>1, TxOf
  <2>3. Steady(y)
    BY <1>1, <2>2 DEF TxOK, Steady, Activates, Admitting!IsOwner, Admitting!Pending, Admitting!FreeNames
  <2> QED BY <2>1, <2>3
<1>3. Transactions' /\ sessions_' \in [Sessions -> TxRecords]
  BY <1>1, <1>2, StaySteady
<1>4. Admitting!TypeOK'
  BY <1>1, <1>3, AdmissionTypes, TypeKept DEF AdmissionInv
<1>5. OneSubjectEach' /\ Admitting!CapacityHeld' /\ Admitting!KeepsAnOwner' /\ Admitting!ActsAsOwner' /\ Admitting!ActivatedOnce'
      /\ \A i \in Admitting!Invitations : invitations'[i].status # "none" => invitations'[i].email \in Guests
  BY <1>1, AdmittingSize DEF AdmissionInv, OneSubjectEach, Admitting!CapacityHeld, Admitting!countActiveMembers,
                             Admitting!KeepsAnOwner, Admitting!IsOwner,
              Admitting!ActsAsOwner, Admitting!ActivatedOnce
<1> QED BY <1>3, <1>4, <1>5 DEF AdmissionInv

-----------------------------------------------------------------------------
LEMMA NothingMoves ==
  ASSUME AdmissionInv, UNCHANGED Admitting!Data
  PROVE  Admitting!BoundForGood /\ Admitting!EndsAreFinal
BY DEF Admitting!Data, Admitting!BoundForGood, Admitting!EndsAreFinal, AdmissionInv, OneSubjectEach

LEMMA AdmissionStep ==
  ASSUME AdmissionInv, [Admitting!Next]_AdmittingVars
  PROVE  AdmissionInv' /\ Admitting!BoundForGood /\ Admitting!EndsAreFinal
<1>1. ASSUME UNCHANGED AdmittingVars PROVE AdmissionInv' /\ Admitting!BoundForGood /\ Admitting!EndsAreFinal
  <2>1. UNCHANGED Admitting!Data /\ UNCHANGED day /\ UNCHANGED aborts /\ UNCHANGED begun /\ UNCHANGED sessions_
    BY <1>1 DEF AdmittingVars, Admitting!Data
  <2>2. UNCHANGED roster /\ UNCHANGED usernames /\ UNCHANGED invitations /\ UNCHANGED bindings
        /\ UNCHANGED acts /\ UNCHANGED activatedBy
    BY <2>1 DEF Admitting!Data
  <2>3. ASSUME NEW o \in Sessions PROVE Steady(sessions_[o])
    <3>1. PICK y : y = sessions_[o]
      OBVIOUS
    <3>2. TxOK(y)
      BY <3>1, TxOf
    <3>3. Steady(y)
      BY <2>2, <3>2 DEF TxOK, Steady, Activates, Admitting!IsOwner, Admitting!Pending, Admitting!FreeNames
    <3> QED BY <3>1, <3>3
  <2>4. Transactions' /\ sessions_' \in [Sessions -> TxRecords]
    BY <2>1, <2>3, StaySteady
  <2>5. Admitting!TypeOK'
    BY <2>1, <2>2, <2>4, AdmissionTypes, TypeKept DEF AdmissionInv
  <2>6. OneSubjectEach' /\ Admitting!CapacityHeld' /\ Admitting!KeepsAnOwner' /\ Admitting!ActsAsOwner' /\ Admitting!ActivatedOnce'
        /\ \A i \in Admitting!Invitations : invitations'[i].status # "none" => invitations'[i].email \in Guests
    BY <2>2, AdmittingSize DEF AdmissionInv, OneSubjectEach, Admitting!CapacityHeld,
                               Admitting!countActiveMembers, Admitting!KeepsAnOwner, Admitting!IsOwner,
                Admitting!ActsAsOwner, Admitting!ActivatedOnce
  <2>7. AdmissionInv'
    BY <2>4, <2>5, <2>6 DEF AdmissionInv
  <2> QED BY <2>1, <2>7, NothingMoves
<1>2. ASSUME NEW s \in Sessions,
             \/ \E i \in Admitting!Invitations : Admitting!RedeemMagicLink(s, i)
             \/ \E u \in Subjects, e \in Guests : Admitting!AdmitIdentity(s, u, e)
             \/ \E e \in Guests, by \in Owners : Admitting!AsksAsOwner(s, "invite", e, by) \/ Admitting!AsksAsOwner(s, "revoke", e, by)
             \/ \E by \in Owners : Admitting!AsksAsOwner(s, "agent", Agent, by) \/ Admitting!AsksAsOwner(s, "disable", Agent, by)
             \/ \E u \in Admitting!Humans : Admitting!ChangeOwnerRole(s, "promote", u) \/ Admitting!ChangeOwnerRole(s, "demote", u)
      PROVE  AdmissionInv' /\ Admitting!BoundForGood /\ Admitting!EndsAreFinal
  <2>1. AdmissionInv'
    BY <1>2, RequestsBegin, SMTT(30)
  <2>2. UNCHANGED Admitting!Data
    BY <1>2, ZenonT(40) DEF Admitting!RedeemMagicLink, Admitting!AdmitIdentity, Admitting!AsksAsOwner,
                Admitting!ChangeOwnerRole, Admitting!Begin
  <2> QED BY <2>1, <2>2, NothingMoves
<1>3. ASSUME NEW s \in Sessions,
             \/ Admitting!LockInvitation(s) \/ Admitting!FindOrNameUser(s) \/ Admitting!InsertUser(s) \/ Admitting!LockAudience(s) \/ Admitting!LockWorkspace(s)
             \/ Admitting!RequireOwner(s) \/ Admitting!LockTarget(s) \/ Admitting!ExpireInvitations(s) \/ Admitting!RequireMembership(s) \/ Admitting!Aborts(s)
      PROVE  AdmissionInv' /\ Admitting!BoundForGood /\ Admitting!EndsAreFinal
  <2>1. AdmissionInv'
    BY <1>3, LockInvitationKeeps, FindOrNameUserKeeps, InsertUserKeeps, LockAudienceKeeps,
       LockWorkspaceKeeps, AdmissionOwnerKeeps, LockTargetKeeps, ExpireInvitationsKeeps,
       RequireMembershipKeeps, AbortsKeeps
  <2>2. UNCHANGED Admitting!Data
    BY <1>3 DEF Admitting!LockInvitation, Admitting!FindOrNameUser, Admitting!InsertUser,
                Admitting!LockAudience, Admitting!LockWorkspace, Admitting!RequireOwner,
                Admitting!LockTarget, Admitting!ExpireInvitations, Admitting!RequireMembership, Admitting!Aborts, Admitting!OnlySession
  <2> QED BY <2>1, <2>2, NothingMoves
<1>4. ASSUME NEW s \in Sessions,
             \/ Admitting!ActivateInvitation(s) \/ Admitting!CreateInvitation(s) \/ Admitting!RevokeInvitation(s)
             \/ Admitting!CreateAgent(s) \/ Admitting!DisableAgent(s) \/ Admitting!WriteRole(s)
      PROVE  AdmissionInv' /\ Admitting!BoundForGood /\ Admitting!EndsAreFinal
  BY <1>4, ActivateKeeps, CreateInvitationKeeps, RevokeInvitationKeeps, CreateAgentKeeps,
     DisableAgentKeeps, WriteRoleKeeps
<1>5. ASSUME NEW s \in Sessions, Admitting!ResolveIdentity(s) PROVE AdmissionInv' /\ Admitting!BoundForGood /\ Admitting!EndsAreFinal
  <2>1. AdmissionInv' /\ Admitting!BoundForGood
    BY <1>5, InvitationResolveKeeps
  <2> QED BY <1>5, <2>1 DEF Admitting!ResolveIdentity, Admitting!EndsAreFinal
<1>6. ASSUME Admitting!DayPasses PROVE AdmissionInv' /\ Admitting!BoundForGood /\ Admitting!EndsAreFinal
  <2>1. UNCHANGED Admitting!Data
    BY <1>6 DEF Admitting!DayPasses
  <2> QED BY <1>6, <2>1, AdmissionDayPassesKeeps, NothingMoves
<1> QED BY <1>1, <1>2, <1>3, <1>4, <1>5, <1>6, ListInvitationsKeeps DEF Admitting!Next

=============================================================================
