--------------------------- MODULE Workers_proofs ---------------------------
(* What every worker of the desktop keeps, whatever its callbacks, timers,     *)
(* retries and the member do in between: the session lifecycle, the updater,   *)
(* the windows, the sign-in through the browser and the agent's channel. Each  *)
(* part has an inductive invariant of its own; the last section puts them side *)
(* by side, as MCWorkers runs them.                                           *)
EXTENDS MCWorkers, Integers, Sequences, FiniteSetTheorems, WellFoundedInduction, TLAPS

(* The count of the part's own module is the count everyone takes.        *)
LEMMA LifecycleSize == \A S : Lifecycle!Cardinality(S) = Cardinality(S)
BY DEF Lifecycle!Cardinality, Cardinality


Results == {"pending", "ok", "failed"}
Phases == {"live", "disposing", "disposed", "failed"}
Open(i) == lifecycleSessions[i].phase \in {"live", "disposing"}
\* the last transition has succeeded, or none was asked for
Rests == chain # <<>> => chain[Len(chain)].result = "ok"

(* The transitions follow one another: those that wait are the last ones, and *)
(* the last one builds the identity that is wanted.                           *)
ChainShape ==
  /\ chain \in Seq([rev : Nat, user : Lifecycle!Identities, waits : Nat, result : Results])
  /\ revision = Len(chain)
  /\ \A t \in DOMAIN chain : chain[t].rev = t /\ chain[t].waits \in 0..Len(lifecycleSessions)
  /\ \A s, t \in DOMAIN chain : s < t /\ chain[s].result = "pending" => chain[t].result = "pending"
  /\ desired \in Lifecycle!Identities
  /\ desired = IF chain = <<>> THEN None ELSE chain[Len(chain)].user

(* One session is open: the current one, live, once the last transition built *)
(* it, or one whose cleanups a waiting transition awaits.                     *)
SessionShape ==
  /\ lifecycleSessions \in Seq([user : Users, phase : Phases])
  /\ current \in 0..Len(lifecycleSessions)
  /\ current # 0 => /\ chain # <<>> /\ chain[Len(chain)].result = "ok" /\ desired # None
                    /\ lifecycleSessions[current] = [user |-> desired, phase |-> "live"]
  /\ Rests /\ desired # None => current # 0
  /\ \A i \in DOMAIN lifecycleSessions : lifecycleSessions[i].phase = "live" => i = current
  /\ \A i \in DOMAIN lifecycleSessions : lifecycleSessions[i].phase = "disposing" =>
       \E t \in DOMAIN chain : chain[t].result = "pending" /\ chain[t].waits = i
  /\ \A i, j \in DOMAIN lifecycleSessions : Open(i) /\ Open(j) => i = j

(* The newest refresh waits for the last transition, and none is the newest   *)
(* while credentials are being replaced; the published identity is the wanted *)
(* one; work of the newest revision has the current session.                  *)
LifeShape ==
  /\ lifeRev \in Nat /\ state \in Lifecycle!Identities \cup {Lifecycle!Changing}
  /\ authenticating \in BOOLEAN /\ closed \in BOOLEAN
  /\ latest \in Logins \cup {None} /\ source \in Lifecycle!Identities
  /\ \A f \in refreshes : f.rev \in Nat /\ f.rev <= lifeRev
  /\ \A f \in refreshes : f.rev = lifeRev =>
       f.on = Len(chain) /\ f.user = desired /\ ~authenticating
  /\ authenticating => state = Lifecycle!Changing
  /\ state # Lifecycle!Changing => state = desired /\ Rests
  /\ work # Lifecycle!NoWork => work.rev \in Nat /\ work.rev <= lifeRev
  /\ work # Lifecycle!NoWork /\ work.rev = lifeRev => Rests /\ work.session = current

LifecycleInv == ChainShape /\ SessionShape /\ LifeShape

(* A sequence with one element replaced.                                      *)
LEMMA ElementReplaced ==
  ASSUME NEW S, NEW s \in Seq(S), NEW i \in DOMAIN s, NEW v \in S, NEW r, r = [s EXCEPT ![i] = v]
  PROVE  /\ r \in Seq(S) /\ DOMAIN r = DOMAIN s /\ Len(r) = Len(s) /\ r[i] = v
         /\ \A j \in DOMAIN s : j # i => r[j] = s[j]
OBVIOUS

LEMMA Positions ==
  ASSUME NEW S, NEW s \in Seq(S)
  PROVE  Len(s) \in Nat /\ DOMAIN s = 1..Len(s) /\ \A i \in DOMAIN s : i \in Nat /\ i # 0 /\ s[i] \in S
OBVIOUS

LEMMA RecordReplaced ==
  ASSUME NEW S, NEW T, NEW U, NEW V
  PROVE  /\ \A r \in [user : S, phase : T], p \in T :
              LET q == [r EXCEPT !.phase = p] IN q \in [user : S, phase : T] /\ q.user = r.user /\ q.phase = p
         /\ \A r \in [rev : S, user : T, waits : U, result : V], p \in V :
              LET q == [r EXCEPT !.result = p]
              IN /\ q \in [rev : S, user : T, waits : U, result : V]
                 /\ q.rev = r.rev /\ q.user = r.user /\ q.waits = r.waits /\ q.result = p
OBVIOUS

LEMMA LifecycleStarts == Lifecycle!Init => LifecycleInv
<1> SUFFICES ASSUME Lifecycle!Init PROVE LifecycleInv
  OBVIOUS
<1>1. chain = <<>> /\ DOMAIN chain = {} /\ Len(chain) = 0 /\ lifecycleSessions = <<>>
        /\ DOMAIN lifecycleSessions = {}
      /\ Len(lifecycleSessions) = 0
  BY DEF Lifecycle!Init
<1>2. ChainShape
  BY <1>1 DEF Lifecycle!Init, ChainShape, Lifecycle!Identities
<1>3. SessionShape
  BY <1>1 DEF Lifecycle!Init, SessionShape, Rests
<1>4. LifeShape
  <2>1. \A f \in refreshes : f.rev = 1 /\ f.user = None /\ f.on = 0
    BY DEF Lifecycle!Init
  <2>2. lifeRev = 1 /\ state = Lifecycle!Changing /\ authenticating = FALSE /\ closed = FALSE /\ latest = None
        /\ source = None /\ work = Lifecycle!NoWork
    BY DEF Lifecycle!Init
  <2>3. authenticating \in BOOLEAN /\ closed \in BOOLEAN
    BY <2>2
  <2> QED BY <1>1, <2>1, <2>2, <2>3 DEF Lifecycle!Init, LifeShape, Lifecycle!Identities
<1> QED BY <1>2, <1>3, <1>4 DEF LifecycleInv

(* A replacement keeps the shape of the owner, and its caller waits for the   *)
(* last transition.                                                           *)
LEMMA ReplaceKeeps ==
  ASSUME LifecycleInv, NEW user \in Lifecycle!Identities, NEW ready, Lifecycle!Replace(user, ready)
  PROVE  /\ ChainShape' /\ SessionShape' /\ desired' = user /\ ready = Len(chain')
<1>1. CASE Lifecycle!KeepsIdentity(user)
  <2>1. /\ UNCHANGED lifecycleSessions /\ UNCHANGED current /\ UNCHANGED desired /\ UNCHANGED revision
        /\ UNCHANGED chain /\ ready = Len(chain) /\ desired = user
    BY <1>1 DEF Lifecycle!Replace, Lifecycle!ownerVars, Lifecycle!KeepsIdentity
  <2> QED BY <2>1 DEF LifecycleInv, ChainShape, SessionShape, Rests, Open
<1>2. CASE ~Lifecycle!KeepsIdentity(user)
  <2> DEFINE t == [rev |-> revision + 1, user |-> user, waits |-> current, result |-> "pending"]
  <2>0. /\ revision' = revision + 1 /\ ready = Len(chain) + 1 /\ desired' = user /\ current' = 0
        /\ lifecycleSessions' = IF current = 0 THEN lifecycleSessions ELSE [lifecycleSessions EXCEPT ![current].phase = "disposing"]
        /\ chain' = Append(chain, t)
    BY <1>2 DEF Lifecycle!Replace
  <2>1. t \in [rev : Nat, user : Lifecycle!Identities, waits : Nat, result : Results]
    BY DEF LifecycleInv, ChainShape, SessionShape, Results
  <2> HIDE DEF t
  <2>2. /\ chain' \in Seq([rev : Nat, user : Lifecycle!Identities, waits : Nat, result : Results])
        /\ Len(chain') = Len(chain) + 1 /\ chain' # <<>>
        /\ \A s \in DOMAIN chain : chain'[s] = chain[s]
        /\ chain'[Len(chain) + 1] = t
        /\ DOMAIN chain = 1..Len(chain) /\ DOMAIN chain' = 1..(Len(chain) + 1) /\ Len(chain) \in Nat
    BY <2>0, <2>1 DEF LifecycleInv, ChainShape
  <2>3. /\ t.rev = Len(chain) + 1 /\ t.user = user /\ t.waits = current /\ t.result = "pending"
    BY DEF t, LifecycleInv, ChainShape
  <2>4. /\ DOMAIN lifecycleSessions' = DOMAIN lifecycleSessions /\ Len(lifecycleSessions') = Len(lifecycleSessions)
        /\ lifecycleSessions' \in Seq([user : Users, phase : Phases])
        /\ \A i \in DOMAIN lifecycleSessions : i # current => lifecycleSessions'[i] = lifecycleSessions[i]
        /\ current # 0 => current \in DOMAIN lifecycleSessions /\ lifecycleSessions'[current].phase = "disposing"
    <3>1. lifecycleSessions \in Seq([user : Users, phase : Phases]) /\ current \in 0..Len(lifecycleSessions)
      BY DEF LifecycleInv, SessionShape
    <3>2. CASE current = 0
      BY <2>0, <3>1, <3>2
    <3>3. CASE current # 0
      <4>1. current \in DOMAIN lifecycleSessions
        BY <3>1, <3>3
      <4>2. lifecycleSessions' = [lifecycleSessions EXCEPT ![current].phase = "disposing"]
        BY <2>0, <3>3
      <4> DEFINE v == [lifecycleSessions[current] EXCEPT !.phase = "disposing"]
      <4>3. v \in [user : Users, phase : Phases] /\ v.phase = "disposing"
        <5>1. lifecycleSessions[current] \in [user : Users, phase : Phases] /\ "disposing" \in Phases
          BY <3>1, <4>1, Positions DEF Phases
        <5> QED BY ONLY <5>1, RecordReplaced
      <4>4. lifecycleSessions' = [lifecycleSessions EXCEPT ![current] = v]
        BY <4>2
      <4> HIDE DEF v
      <4> QED BY <3>1, <4>1, <4>3, <4>4, ElementReplaced
    <3> QED BY <3>2, <3>3
  <2>5. ChainShape'
    <3>1. Len(chain) + 1 \in Nat /\ Len(lifecycleSessions) \in Nat /\ current \in 0..Len(lifecycleSessions)
      BY <2>2, Positions DEF LifecycleInv, SessionShape
    <3>2. /\ \A s \in DOMAIN chain : chain[s].rev = s /\ chain[s].waits \in 0..Len(lifecycleSessions)
          /\ \A s, u \in DOMAIN chain : s < u /\ chain[s].result = "pending" => chain[u].result = "pending"
      BY DEF LifecycleInv, ChainShape
    <3>3. /\ DOMAIN chain' = DOMAIN chain \cup {Len(chain) + 1} /\ ~(Len(chain) + 1 < Len(chain) + 1)
          /\ \A s \in DOMAIN chain : s \in Nat /\ ~(Len(chain) + 1 < s)
      BY <2>2
    <3>4. chain'[Len(chain) + 1].rev = Len(chain) + 1 /\ chain'[Len(chain) + 1].waits \in 0..Len(lifecycleSessions)
          /\ chain'[Len(chain) + 1].result = "pending"
      BY <2>2, <2>3, <3>1
    <3>5. \A s \in DOMAIN chain' : chain'[s].rev = s /\ chain'[s].waits \in 0..Len(lifecycleSessions')
      BY ONLY <2>2, <2>4, <3>2, <3>3, <3>4
    <3>6. \A s, u \in DOMAIN chain' : s < u /\ chain'[s].result = "pending" => chain'[u].result = "pending"
      BY ONLY <2>2, <3>2, <3>3, <3>4
    <3>7. revision' = Len(chain') /\ desired' \in Lifecycle!Identities
          /\ desired' = IF chain' = <<>> THEN None ELSE chain'[Len(chain')].user
      BY <2>0, <2>2, <2>3 DEF LifecycleInv, ChainShape
    <3> QED BY <2>2, <3>5, <3>6, <3>7 DEF ChainShape
  <2>6. \A i \in DOMAIN lifecycleSessions : lifecycleSessions'[i].phase = "disposing" =>
           \E s \in DOMAIN chain' : chain'[s].result = "pending" /\ chain'[s].waits = i
    <3> SUFFICES ASSUME NEW i \in DOMAIN lifecycleSessions, lifecycleSessions'[i].phase = "disposing"
                 PROVE  \E s \in DOMAIN chain' : chain'[s].result = "pending" /\ chain'[s].waits = i
      OBVIOUS
    <3>1. CASE i = current
      BY <3>1, <2>2, <2>3
    <3>2. CASE i # current
      BY <3>2, <2>2, <2>4 DEF LifecycleInv, SessionShape
    <3> QED BY <3>1, <3>2
  <2>7. \A i \in DOMAIN lifecycleSessions : lifecycleSessions'[i].phase # "live"
    BY <2>4 DEF LifecycleInv, SessionShape
  <2>8. \A i, j \in DOMAIN lifecycleSessions : Open(i)' /\ Open(j)' => i = j
    <3>1. \A i \in DOMAIN lifecycleSessions : Open(i)' => Open(i)
      BY <2>4 DEF LifecycleInv, SessionShape, Open
    <3> QED BY <3>1 DEF LifecycleInv, SessionShape
  <2>9. SessionShape'
    BY <2>0, <2>2, <2>3, <2>4, <2>6, <2>7, <2>8 DEF SessionShape, Rests
  <2> QED BY <2>0, <2>2, <2>5, <2>9
<1> QED BY <1>1, <1>2

(* What the replacement's caller does to the lifecycle.                       *)
LEMMA RefreshedKeeps ==
  ASSUME LifecycleInv, NEW user \in Lifecycle!Identities, NEW ready, Lifecycle!Refreshed(user, ready),
         UNCHANGED work, UNCHANGED closed, source' \in Lifecycle!Identities, latest' = latest,
         authenticating' = FALSE
  PROVE  LifecycleInv'
<1>1. Lifecycle!Replace(user, ready) /\ lifeRev' = lifeRev + 1 /\ state' = Lifecycle!Changing
      /\ refreshes' = refreshes \cup {[rev |-> lifeRev + 1, user |-> user, on |-> ready]}
  BY DEF Lifecycle!Refreshed
<1>2. ChainShape' /\ SessionShape' /\ desired' = user /\ ready = Len(chain')
  BY <1>1, ReplaceKeeps
<1>3. \A f \in refreshes' :
         /\ f.rev \in Nat /\ f.rev <= lifeRev'
         /\ f.rev = lifeRev' => f.on = Len(chain') /\ f.user = desired'
  <2>1. \A f \in refreshes : f.rev \in Nat /\ f.rev <= lifeRev /\ lifeRev \in Nat
    BY DEF LifecycleInv, LifeShape
  <2> QED BY <1>1, <1>2, <2>1 DEF LifecycleInv, LifeShape
<1>4. work' # Lifecycle!NoWork => work'.rev \in Nat /\ work'.rev <= lifeRev' /\ work'.rev # lifeRev'
  BY <1>1 DEF LifecycleInv, LifeShape
<1>5. lifeRev' \in Nat /\ state' = Lifecycle!Changing
  BY <1>1 DEF LifecycleInv, LifeShape
<1>6. LifeShape'
  BY <1>2, <1>3, <1>4, <1>5 DEF LifecycleInv, LifeShape, Lifecycle!NoWork
<1> QED BY <1>2, <1>6 DEF LifecycleInv

LEMMA CleanupKeeps ==
  ASSUME LifecycleInv, NEW i \in DOMAIN lifecycleSessions, Lifecycle!CleanupSettles(i)
  PROVE  LifecycleInv'
<1>1. PICK outcome \in {"disposed", "failed"} : lifecycleSessions' = [lifecycleSessions EXCEPT ![i].phase = outcome]
  BY DEF Lifecycle!CleanupSettles
<1>2. lifecycleSessions[i].phase = "disposing" /\ UNCHANGED current /\ UNCHANGED desired /\ UNCHANGED chain
      /\ UNCHANGED revision /\ UNCHANGED source /\ UNCHANGED work /\ UNCHANGED closed
      /\ UNCHANGED lifeRev /\ UNCHANGED state /\ UNCHANGED refreshes /\ UNCHANGED authenticating
      /\ UNCHANGED latest
  BY DEF Lifecycle!CleanupSettles, Lifecycle!lifeVars
<1>3. /\ DOMAIN lifecycleSessions' = DOMAIN lifecycleSessions /\ Len(lifecycleSessions') = Len(lifecycleSessions)
      /\ lifecycleSessions' \in Seq([user : Users, phase : Phases])
      /\ \A j \in DOMAIN lifecycleSessions : j # i => lifecycleSessions'[j] = lifecycleSessions[j]
      /\ lifecycleSessions'[i].phase \in {"disposed", "failed"}
  <2>1. lifecycleSessions \in Seq([user : Users, phase : Phases])
    BY DEF LifecycleInv, SessionShape
  <2> DEFINE v == [lifecycleSessions[i] EXCEPT !.phase = outcome]
  <2>2. v \in [user : Users, phase : Phases] /\ v.phase = outcome
    <3>1. lifecycleSessions[i] \in [user : Users, phase : Phases] /\ outcome \in Phases
      BY <2>1, Positions DEF Phases
    <3> QED BY ONLY <3>1, RecordReplaced
  <2>3. lifecycleSessions' = [lifecycleSessions EXCEPT ![i] = v]
    BY <1>1
  <2> HIDE DEF v
  <2> QED BY <2>1, <2>2, <2>3, ElementReplaced
<1>4. current # i
  BY <1>2 DEF LifecycleInv, SessionShape
<1>5. ChainShape'
  BY <1>2, <1>3 DEF LifecycleInv, ChainShape
<1>6. SessionShape'
  <2>1. \A j \in DOMAIN lifecycleSessions : Open(j)' => Open(j) /\ j # i
    BY <1>3 DEF Open
  <2>2. current # 0 => lifecycleSessions'[current] = lifecycleSessions[current]
    BY <1>3, <1>4 DEF LifecycleInv, SessionShape
  <2>3. \A j \in DOMAIN lifecycleSessions : lifecycleSessions'[j].phase = "live" => j = current
    BY <1>3 DEF LifecycleInv, SessionShape
  <2>4. \A j \in DOMAIN lifecycleSessions : lifecycleSessions'[j].phase = "disposing" =>
          \E t \in DOMAIN chain : chain[t].result = "pending" /\ chain[t].waits = j
    BY <1>3 DEF LifecycleInv, SessionShape
  <2>5. \A j, k \in DOMAIN lifecycleSessions : Open(j)' /\ Open(k)' => j = k
    BY <2>1 DEF LifecycleInv, SessionShape
  <2> QED BY <1>2, <1>3, <2>2, <2>3, <2>4, <2>5 DEF LifecycleInv, SessionShape, Rests
<1>7. LifeShape'
  BY <1>2 DEF LifecycleInv, LifeShape, Rests
<1> QED BY <1>5, <1>6, <1>7 DEF LifecycleInv

LEMMA TransitionKeeps ==
  ASSUME LifecycleInv, NEW t \in DOMAIN chain, Lifecycle!Transition(t)
  PROVE  LifecycleInv'
<1> DEFINE retired == chain[t].waits # 0 => lifecycleSessions[chain[t].waits].phase # "failed"
           builds  == retired /\ chain[t].rev = revision /\ chain[t].user # None
<1>1. /\ chain[t].result = "pending" /\ Lifecycle!Settled(t - 1) /\ Lifecycle!Cleaned(t)
      /\ UNCHANGED desired /\ UNCHANGED revision /\ UNCHANGED source /\ UNCHANGED work
      /\ UNCHANGED closed /\ UNCHANGED lifeRev /\ UNCHANGED state /\ UNCHANGED refreshes
      /\ UNCHANGED authenticating /\ UNCHANGED latest
  BY DEF Lifecycle!Transition, Lifecycle!lifeVars
<1>2. PICK result \in {"ok", "failed"} :
        /\ chain' = [chain EXCEPT ![t].result = result]
        /\ \/ /\ builds /\ result = "ok" /\ current' = Len(lifecycleSessions) + 1
              /\ lifecycleSessions' = Append(lifecycleSessions, [user |-> chain[t].user, phase |-> "live"])
           \/ /\ builds /\ result = "failed" /\ UNCHANGED current
              /\ lifecycleSessions' = Append(lifecycleSessions, [user |-> chain[t].user, phase |-> "disposed"])
           \/ /\ ~builds /\ UNCHANGED lifecycleSessions /\ UNCHANGED current
              /\ (result = "ok") = retired
  BY DEF Lifecycle!Transition
<1> HIDE DEF retired, builds
<1>3. /\ DOMAIN chain' = DOMAIN chain /\ Len(chain') = Len(chain) /\ DOMAIN chain = 1..Len(chain)
      /\ chain' \in Seq([rev : Nat, user : Lifecycle!Identities, waits : Nat, result : Results])
      /\ \A s \in DOMAIN chain : s # t => chain'[s] = chain[s]
      /\ chain'[t].rev = chain[t].rev /\ chain'[t].user = chain[t].user
      /\ chain'[t].waits = chain[t].waits /\ chain'[t].result = result
      /\ Len(chain) \in Nat /\ chain # <<>> /\ chain' # <<>>
  <2>1. chain \in Seq([rev : Nat, user : Lifecycle!Identities, waits : Nat, result : Results])
    BY DEF LifecycleInv, ChainShape
  <2>2. result \in Results
    BY DEF Results
  <2> DEFINE v == [chain[t] EXCEPT !.result = result]
  <2>3. chain[t] \in [rev : Nat, user : Lifecycle!Identities, waits : Nat, result : Results]
    BY <2>1, Positions
  <2>4. /\ v \in [rev : Nat, user : Lifecycle!Identities, waits : Nat, result : Results]
        /\ v.rev = chain[t].rev /\ v.user = chain[t].user /\ v.waits = chain[t].waits /\ v.result = result
    BY ONLY <2>2, <2>3, RecordReplaced
  <2>5. chain' = [chain EXCEPT ![t] = v]
    BY <1>2
  <2> HIDE DEF v
  <2>6. /\ chain' \in Seq([rev : Nat, user : Lifecycle!Identities, waits : Nat, result : Results])
        /\ DOMAIN chain' = DOMAIN chain /\ Len(chain') = Len(chain) /\ chain'[t] = v
        /\ \A j \in DOMAIN chain : j # t => chain'[j] = chain[j]
    BY <2>1, <2>4, <2>5, ElementReplaced
  <2>7. Len(chain) \in Nat /\ DOMAIN chain = 1..Len(chain)
    BY <2>1, Positions
  <2> QED BY <2>4, <2>6, <2>7
<1>4. chain[Len(chain)].result = "pending" /\ ~Rests /\ current = 0
  <2>1. t <= Len(chain) /\ t \in Nat /\ Len(chain) \in DOMAIN chain
    BY <1>3
  <2>2. chain[Len(chain)].result = "pending"
    BY <1>1, <2>1 DEF LifecycleInv, ChainShape
  <2> QED BY <1>3, <2>2 DEF LifecycleInv, SessionShape, Rests
<1>5. \A s \in DOMAIN chain : s < t => chain[s].result # "pending"
  <2> SUFFICES ASSUME NEW s \in DOMAIN chain, s < t, chain[s].result = "pending" PROVE FALSE
    OBVIOUS
  <2>1. t - 1 \in DOMAIN chain /\ t - 1 # 0 /\ s <= t - 1
    BY <1>3
  <2>2. chain[t - 1].result = "pending"
    <3>1. CASE s = t - 1
      BY <3>1
    <3>2. CASE s # t - 1
      <4>1. s < t - 1
        BY <1>3, <2>1, <3>2
      <4> QED BY <2>1, <4>1 DEF LifecycleInv, ChainShape
    <3> QED BY <3>1, <3>2
  <2> QED BY <1>1, <2>1, <2>2 DEF Lifecycle!Settled
<1>6. /\ lifecycleSessions \in Seq([user : Users, phase : Phases])
           /\ DOMAIN lifecycleSessions = 1..Len(lifecycleSessions)
      /\ Len(lifecycleSessions) \in Nat
      /\ Len(lifecycleSessions') \in {Len(lifecycleSessions), Len(lifecycleSessions) + 1}
      /\ \A i \in DOMAIN lifecycleSessions : lifecycleSessions'[i] = lifecycleSessions[i]
      /\ lifecycleSessions' \in Seq([user : Users, phase : Phases])
      /\ DOMAIN lifecycleSessions' = 1..Len(lifecycleSessions')
  <2>1. lifecycleSessions \in Seq([user : Users, phase : Phases])
    BY DEF LifecycleInv, SessionShape
  <2>2. CASE builds
    <3>1. chain[t].user \in Users
      BY <1>3, <2>2 DEF builds, LifecycleInv, ChainShape, Lifecycle!Identities
    <3>2. /\ [user |-> chain[t].user, phase |-> "live"] \in [user : Users, phase : Phases]
          /\ [user |-> chain[t].user, phase |-> "disposed"] \in [user : Users, phase : Phases]
      BY <3>1 DEF Phases
    <3>3. PICK s \in [user : Users, phase : Phases] : lifecycleSessions' = Append(lifecycleSessions, s)
      BY <1>2, <2>2, <3>2
    <3> QED BY <2>1, <3>3
  <2>3. CASE ~builds
    BY <1>2, <2>1, <2>3
  <2> QED BY <2>2, <2>3
<1>7. ChainShape'
  <2>1. \A s, u \in DOMAIN chain : s < u /\ chain'[s].result = "pending" => chain'[u].result = "pending"
    BY <1>2, <1>3, <1>5 DEF LifecycleInv, ChainShape
  <2>0. \A s \in DOMAIN chain : chain'[s].rev = chain[s].rev /\ chain'[s].waits = chain[s].waits
                                 /\ chain'[s].user = chain[s].user
    BY <1>3
  <2>2. desired' = chain'[Len(chain')].user
    <3>1. desired = chain[Len(chain)].user /\ Len(chain) \in DOMAIN chain
      BY <1>3 DEF LifecycleInv, ChainShape
    <3> QED BY <1>1, <1>3, <2>0, <3>1
  <2>3. \A s \in DOMAIN chain : chain'[s].rev = s /\ chain'[s].waits \in 0..Len(lifecycleSessions')
    <3>1. \A s \in DOMAIN chain : chain[s].rev = s /\ chain[s].waits \in 0..Len(lifecycleSessions)
      BY DEF LifecycleInv, ChainShape
    <3>2. Len(lifecycleSessions) \in Nat /\ Len(lifecycleSessions') \in Nat
            /\ Len(lifecycleSessions) <= Len(lifecycleSessions')
      <4>1. Len(lifecycleSessions) \in Nat
              /\ Len(lifecycleSessions') \in {Len(lifecycleSessions), Len(lifecycleSessions) + 1}
        BY <1>6
      <4> QED BY ONLY <4>1
    <3> HIDE DEF retired, builds
    <3> QED BY <2>0, <3>1, <3>2
  <2> QED BY <1>1, <1>3, <2>1, <2>2, <2>3 DEF LifecycleInv, ChainShape
<1>8. \A i \in DOMAIN lifecycleSessions : lifecycleSessions[i].phase = "disposing" =>
         \E s \in DOMAIN chain' : chain'[s].result = "pending" /\ chain'[s].waits = i
  <2> SUFFICES ASSUME NEW i \in DOMAIN lifecycleSessions, lifecycleSessions[i].phase = "disposing"
               PROVE  \E s \in DOMAIN chain' : chain'[s].result = "pending" /\ chain'[s].waits = i
    OBVIOUS
  <2>1. PICK s \in DOMAIN chain : chain[s].result = "pending" /\ chain[s].waits = i
    BY DEF LifecycleInv, SessionShape
  <2>2. i # 0
    BY Positions DEF LifecycleInv, SessionShape
  <2>3. s # t
    BY <1>1, <2>1, <2>2 DEF Lifecycle!Cleaned
  <2> QED BY <1>3, <2>1, <2>3
<1>9. SessionShape'
  <2>1. CASE builds
    <3>1. t = Len(chain) /\ desired = chain[t].user /\ desired # None
      BY <1>3, <2>1 DEF builds, LifecycleInv, ChainShape
    <3>2. \A i \in DOMAIN lifecycleSessions : ~Open(i)
      <4> SUFFICES ASSUME NEW i \in DOMAIN lifecycleSessions, Open(i) PROVE FALSE
        OBVIOUS
      <4>1. lifecycleSessions[i].phase = "disposing"
        <5>1. i # current
          BY <1>4, Positions DEF LifecycleInv, SessionShape
        <5> QED BY <5>1 DEF Open, LifecycleInv, SessionShape
      <4>2. PICK s \in DOMAIN chain : chain[s].result = "pending" /\ chain[s].waits = i
        BY <4>1 DEF LifecycleInv, SessionShape
      <4>3. s = t
        BY <1>3, <1>5, <3>1, <4>2
      <4>4. i # 0
        BY Positions DEF LifecycleInv, SessionShape
      <4> QED BY <1>1, <4>1, <4>2, <4>3, <4>4 DEF Lifecycle!Cleaned
    <3>3. PICK phase \in {"live", "disposed"} :
            /\ lifecycleSessions' = Append(lifecycleSessions, [user |-> chain[t].user, phase |-> phase])
            /\ phase = "live" => result = "ok" /\ current' = Len(lifecycleSessions) + 1
            /\ phase = "disposed" => result = "failed" /\ current' = 0
      BY <1>2, <1>4, <2>1
    <3>4. /\ Len(lifecycleSessions') = Len(lifecycleSessions) + 1
          /\ lifecycleSessions'[Len(lifecycleSessions) + 1] = [user |-> desired, phase |-> phase]
      BY <1>6, <3>1, <3>3
    <3>5. \A i \in DOMAIN lifecycleSessions' : Open(i)' => i = Len(lifecycleSessions) + 1
      BY <1>6, <3>2, <3>4 DEF Open
    <3>6. \A i \in DOMAIN lifecycleSessions' : lifecycleSessions'[i].phase # "disposing"
      BY <1>6, <3>2, <3>4 DEF Open
    <3>7. \A i \in DOMAIN lifecycleSessions' : lifecycleSessions'[i].phase = "live" => i = current'
      BY <1>6, <3>2, <3>3, <3>4 DEF Open
    <3>8. chain'[Len(chain')].result = result
      BY <1>3, <3>1
    <3>9. CASE phase = "live"
      <4>1. /\ current' = Len(lifecycleSessions) + 1 /\ current' # 0 /\ current' \in 0..Len(lifecycleSessions')
            /\ chain' # <<>> /\ chain'[Len(chain')].result = "ok" /\ desired' = desired
            /\ lifecycleSessions'[current'] = [user |-> desired', phase |-> "live"]
        BY <1>1, <1>3, <1>6, <3>3, <3>4, <3>8, <3>9
      <4>2. \A i, j \in DOMAIN lifecycleSessions' : Open(i)' /\ Open(j)' => i = j
        BY <3>5
      <4>3. desired' # None
        BY <3>1, <4>1
      <4>4. lifecycleSessions' \in Seq([user : Users, phase : Phases])
        BY <1>6
      <4> QED BY <3>6, <3>7, <4>1, <4>2, <4>3, <4>4 DEF SessionShape
    <3>10. CASE phase = "disposed"
      BY <1>1, <1>3, <1>6, <3>1, <3>3, <3>4, <3>5, <3>6, <3>7, <3>8, <3>10 DEF SessionShape, Rests
    <3> QED BY <3>9, <3>10
  <2>2. CASE ~builds
    <3>1. UNCHANGED lifecycleSessions /\ current' = 0
      BY <1>2, <1>4, <2>2
    <3>2. Rests' /\ desired # None => FALSE
      <4> SUFFICES ASSUME Rests', desired # None PROVE FALSE
        OBVIOUS
      <4>1. t = Len(chain) /\ result = "ok"
        BY <1>3, <1>4 DEF Rests
      <4> QED BY <1>2, <1>3, <2>2, <4>1 DEF builds, LifecycleInv, ChainShape
    <3> QED BY <1>1, <1>4, <1>6, <1>8, <3>1, <3>2 DEF LifecycleInv, SessionShape, Open
  <2> QED BY <2>1, <2>2
<1>10. LifeShape'
  <2>1. state = Lifecycle!Changing /\ ~(work # Lifecycle!NoWork /\ work.rev = lifeRev)
    BY <1>4 DEF LifecycleInv, LifeShape
  <2> QED BY <1>1, <1>3, <2>1 DEF LifecycleInv, LifeShape
<1> QED BY <1>7, <1>9, <1>10 DEF LifecycleInv

(* The steps that leave the owner alone.                                      *)
LEMMA RefreshKeeps ==
  ASSUME LifecycleInv, NEW f \in refreshes, Lifecycle!RefreshSettles(f)
  PROVE  LifecycleInv'
<1>1. /\ UNCHANGED lifecycleSessions /\ UNCHANGED current /\ UNCHANGED desired /\ UNCHANGED revision
      /\ UNCHANGED chain /\ UNCHANGED source /\ UNCHANGED lifeRev /\ UNCHANGED authenticating
      /\ UNCHANGED latest /\ UNCHANGED work /\ UNCHANGED closed /\ refreshes' = refreshes \ {f}
      /\ state' = IF Lifecycle!Succeeded(f.on) /\ f.rev = lifeRev THEN f.user ELSE state
  BY DEF Lifecycle!RefreshSettles, Lifecycle!ownerVars
<1>2. ChainShape' /\ SessionShape'
  BY <1>1 DEF LifecycleInv, ChainShape, SessionShape, Rests, Open
<1>3. LifeShape'
  <2>1. CASE Lifecycle!Succeeded(f.on) /\ f.rev = lifeRev
    <3>1. state' = desired /\ ~authenticating /\ f.on = Len(chain) /\ desired \in Lifecycle!Identities
      BY <1>1, <2>1 DEF LifecycleInv, LifeShape, ChainShape
    <3>2. Rests
      BY <2>1, <3>1 DEF Rests, Lifecycle!Succeeded, LifecycleInv, ChainShape
    <3> QED BY <1>1, <3>1, <3>2 DEF LifecycleInv, LifeShape, Rests
  <2>2. CASE ~(Lifecycle!Succeeded(f.on) /\ f.rev = lifeRev)
    BY <1>1, <2>2 DEF LifecycleInv, LifeShape, Rests
  <2> QED BY <2>1, <2>2
<1> QED BY <1>2, <1>3 DEF LifecycleInv

LEMMA LifecycleQuiet ==
  ASSUME LifecycleInv, UNCHANGED Lifecycle!ownerVars, UNCHANGED lifeRev, UNCHANGED state, UNCHANGED refreshes,
         UNCHANGED authenticating, UNCHANGED latest, UNCHANGED closed, source' \in Lifecycle!Identities,
         work' \in {work, Lifecycle!NoWork, [rev |-> lifeRev, session |-> current]},
         work' # work /\ work' # Lifecycle!NoWork => state # Lifecycle!Changing
  PROVE  LifecycleInv'
BY DEF LifecycleInv, ChainShape, SessionShape, LifeShape, Rests, Open, Lifecycle!ownerVars, Lifecycle!NoWork

(* The steps of a login and of the disposal that replace the resources.       *)
LEMMA RetiringKeeps ==
  ASSUME LifecycleInv, NEW ready, Lifecycle!Replace(None, ready), lifeRev' = lifeRev + 1,
         state' = Lifecycle!Changing,
         UNCHANGED refreshes, UNCHANGED source, UNCHANGED work, authenticating' \in BOOLEAN,
         closed' \in BOOLEAN, latest' \in Logins \cup {None}
  PROVE  LifecycleInv'
<1>1. ChainShape' /\ SessionShape'
  BY ReplaceKeeps DEF Lifecycle!Identities
<1>2. LifeShape'
  BY DEF LifecycleInv, LifeShape, Lifecycle!NoWork
<1> QED BY <1>1, <1>2 DEF LifecycleInv

LEMMA LoginKeeps ==
  ASSUME LifecycleInv, NEW l \in Logins,
         Lifecycle!LoginStarts(l) \/ Lifecycle!LoginRetired(l) \/ Lifecycle!LoginOperates(l)
           \/ Lifecycle!LoginEnds(l)
  PROVE  LifecycleInv'
<1>1. CASE Lifecycle!LoginStarts(l)
  <2>1. PICK ready : Lifecycle!Replace(None, ready)
    BY <1>1 DEF Lifecycle!LoginStarts
  <2> QED BY <1>1, <2>1, RetiringKeeps DEF Lifecycle!LoginStarts, LifecycleInv, LifeShape
<1>2. CASE Lifecycle!LoginRetired(l)
  BY <1>2, LifecycleQuiet DEF Lifecycle!LoginRetired, Lifecycle!lifeVars, LifecycleInv, LifeShape
<1>3. CASE Lifecycle!LoginOperates(l)
  <2>0. source' \in Lifecycle!Identities /\ UNCHANGED work /\ UNCHANGED closed
    BY <1>3 DEF Lifecycle!LoginOperates, LifecycleInv, LifeShape
  <2>1. CASE source' = source \/ authenticating
    BY <1>3, <2>0, <2>1, LifecycleQuiet DEF Lifecycle!LoginOperates, Lifecycle!lifeVars
  <2>2. CASE ~(source' = source \/ authenticating)
    <3>1. PICK ready \in 0..Len(chain) + 1 : Lifecycle!Refreshed(source', ready)
      BY <1>3, <2>2 DEF Lifecycle!LoginOperates
    <3>2. UNCHANGED authenticating /\ UNCHANGED latest
      BY <1>3, <2>2 DEF Lifecycle!LoginOperates
    <3>3. authenticating' = FALSE
      BY <2>2, <3>2 DEF LifecycleInv, LifeShape
    <3> QED BY <2>0, <3>1, <3>2, <3>3, RefreshedKeeps
  <2> QED BY <2>1, <2>2
<1>4. CASE Lifecycle!LoginEnds(l)
  <2>0. UNCHANGED source /\ UNCHANGED latest /\ UNCHANGED work /\ UNCHANGED closed
          /\ source \in Lifecycle!Identities
    BY <1>4 DEF Lifecycle!LoginEnds, LifecycleInv, LifeShape
  <2>1. CASE Lifecycle!Current(l)
    <3>1. PICK ready \in 0..Len(chain) + 1 : Lifecycle!Refreshed(source, ready)
      BY <1>4, <2>1 DEF Lifecycle!LoginEnds
    <3>2. authenticating' = FALSE
      BY <1>4, <2>1 DEF Lifecycle!LoginEnds
    <3> QED BY <2>0, <3>1, <3>2, RefreshedKeeps
  <2>2. CASE ~Lifecycle!Current(l)
    BY <1>4, <2>0, <2>2, LifecycleQuiet DEF Lifecycle!LoginEnds
  <2> QED BY <2>1, <2>2
<1> QED BY <1>1, <1>2, <1>3, <1>4

LEMMA LifecycleStep ==
  ASSUME LifecycleInv, [Lifecycle!Next]_LifecycleVars
  PROVE  LifecycleInv'
<1>1. CASE UNCHANGED LifecycleVars
  BY <1>1, LifecycleQuiet DEF LifecycleVars, Lifecycle!ownerVars, LifecycleInv, LifeShape
<1>2. CASE Lifecycle!Steps
  BY <1>2, CleanupKeeps, TransitionKeeps, RefreshKeeps, LoginKeeps DEF Lifecycle!Steps
<1>3. ASSUME NEW u \in Lifecycle!Identities, Lifecycle!SourceChanges(u) PROVE LifecycleInv'
  <2>0. source' = u /\ UNCHANGED work /\ UNCHANGED closed
    BY <1>3 DEF Lifecycle!SourceChanges
  <2>1. CASE authenticating
    BY <1>3, <2>0, <2>1, LifecycleQuiet DEF Lifecycle!SourceChanges, Lifecycle!lifeVars
  <2>2. CASE ~authenticating
    <3>1. PICK ready \in 0..Len(chain) + 1 : Lifecycle!Refreshed(u, ready)
      BY <1>3, <2>2 DEF Lifecycle!SourceChanges
    <3>2. UNCHANGED authenticating /\ UNCHANGED latest
      BY <1>3, <2>2 DEF Lifecycle!SourceChanges
    <3>3. authenticating' = FALSE
      BY <2>2, <3>2 DEF LifecycleInv, LifeShape
    <3> QED BY <2>0, <3>1, <3>2, <3>3, RefreshedKeeps
  <2> QED BY <2>1, <2>2
<1>4. CASE \E l \in Logins : Lifecycle!LoginStarts(l)
  BY <1>4, LoginKeeps
<1>5. CASE Lifecycle!WorkStarts \/ Lifecycle!WorkEnds
  BY <1>5, LifecycleQuiet DEF Lifecycle!WorkStarts, Lifecycle!WorkEnds, Lifecycle!lifeVars, LifecycleInv, LifeShape
<1>6. CASE Lifecycle!Dispose
  <2>1. PICK ready : Lifecycle!Replace(None, ready)
    BY <1>6 DEF Lifecycle!Dispose
  <2> QED BY <1>6, <2>1, RetiringKeeps DEF Lifecycle!Dispose, LifecycleInv, LifeShape
<1> QED BY <1>1, <1>2, <1>3, <1>4, <1>5, <1>6 DEF Lifecycle!Next

LEMMA LifecycleSafe ==
  ASSUME LifecycleInv
  PROVE  Lifecycle!TypeOK /\ Lifecycle!PublishedIsReady /\ Lifecycle!OneSessionAtATime
           /\ Lifecycle!NothingCrossesALogin
<1>1. Lifecycle!TypeOK
  <2>1. /\ \A t \in DOMAIN chain :
             chain[t] \in [rev : Nat, user : Lifecycle!Identities, waits : Nat, result : Results]
        /\ Len(chain) \in Nat
    BY Positions DEF LifecycleInv, ChainShape
  <2>2. \A i \in DOMAIN lifecycleSessions : lifecycleSessions[i] \in [user : Users, phase : Phases]
    BY Positions DEF LifecycleInv, SessionShape
  <2> QED BY <2>1, <2>2 DEF LifecycleInv, ChainShape, SessionShape, LifeShape, Lifecycle!TypeOK, Results, Phases
<1>2. Lifecycle!PublishedIsReady
  BY DEF LifecycleInv, SessionShape, LifeShape, Lifecycle!PublishedIsReady
<1>3. Lifecycle!OneSessionAtATime
  <2> DEFINE Opened == {i \in DOMAIN lifecycleSessions : lifecycleSessions[i].phase \in {"live", "disposing"}}
  <2>1. CASE Opened = {}
    BY <2>1, FS_EmptySet, LifecycleSize DEF Lifecycle!OneSessionAtATime
  <2>2. CASE Opened # {}
    <3>1. PICK i \in Opened : TRUE
      BY <2>2
    <3>2. Opened = {i}
      BY <3>1 DEF LifecycleInv, SessionShape, Open
    <3>3. Cardinality(Opened) = 1
      BY <3>2, FS_Singleton
    <3> QED BY <3>3, LifecycleSize DEF Lifecycle!OneSessionAtATime
  <2> QED BY <2>1, <2>2
<1>4. Lifecycle!NothingCrossesALogin
  BY DEF LifecycleInv, LifeShape, Lifecycle!NothingCrossesALogin, Lifecycle!Delivers
<1> QED BY <1>1, <1>2, <1>3, <1>4

-----------------------------------------------------------------------------
UpdaterTypes ==
  /\ status \in Updates!Statuses
  /\ check \in {"none", "asked", "emitted", "found"}
  /\ tracked \in {"none", "live", "cancelled"} /\ downloads \in 0..2
  /\ progress \in 0..MaxProgress /\ waiters \in 0..MaxChecks
  /\ member \in {"no", "checking", "waiting", "settling"}

(* A download is one the running check found, or the tracked one; the calls *)
(* that wait are among those made.                                         *)
DownloadOwned ==
  /\ downloads = (IF tracked # "none" \/ check = "found" THEN 1 ELSE 0)
  /\ tracked # "none" => check = "none"
  /\ asks \in 0..MaxChecks /\ waiters <= asks

(* An update on offer and a build that is refused let no check begin, and   *)
(* only what is on offer is installed.                                     *)
OfferStands ==
  /\ status \in {"ready", "unsupported"} => check = "none" /\ tracked = "none"
  /\ installing => status \in {"ready", "unsupported"}
  /\ stopped => tracked # "live"

UpdaterInv == UpdaterTypes /\ DownloadOwned /\ OfferStands /\ Updates!ReadyIsStaged

LEMMA UpdaterStarts == Updates!Init => UpdaterInv /\ installing \in BOOLEAN
<1> SUFFICES ASSUME Updates!Init PROVE UpdaterInv /\ installing \in BOOLEAN
  OBVIOUS
<1>1. UpdaterTypes /\ DownloadOwned
  BY UpdaterBounds DEF Updates!Init, UpdaterTypes, Updates!Statuses, DownloadOwned
<1>2. OfferStands /\ Updates!ReadyIsStaged
  BY DEF Updates!Init, OfferStands, Updates!ReadyIsStaged
<1>3. installing \in BOOLEAN
  BY DEF Updates!Init
<1> QED BY <1>1, <1>2, <1>3 DEF UpdaterInv

LEMMA InstallingTyped ==
  ASSUME installing \in BOOLEAN, [Updates!Next]_UpdatesVars
  PROVE  installing' \in BOOLEAN
BY DEF Updates!Next, Updates!Others, Updates!Source, UpdatesVars, Updates!WaiterResumes, Updates!Begins,
       Updates!TimerFires, Updates!MemberAsks, Updates!CheckNow, Updates!Stalls,
   Updates!CheckingForUpdate, Updates!UpdateAvailable, Updates!CheckResolves, Updates!UpdateNotAvailable,
   Updates!CheckFails, Updates!CancelledSettles,
   Updates!DownloadProgress, Updates!UpdateDownloaded, Updates!DownloadFails, Updates!QuitAndInstall,
   Updates!InstallFails, Updates!Dispose, Updates!Fails

(* What a check asked for by a timer or by the member may do.              *)
LEMMA CheckNowKeeps ==
  ASSUME UpdaterInv, NEW begun, NEW returned, NEW waited,
         {begun, returned, waited} \subseteq {"no", "checking", "waiting", "settling"},
         Updates!CheckNow(begun, returned, waited), asks < MaxChecks, asks' = asks + 1,
         UNCHANGED tracked, UNCHANGED downloads, UNCHANGED progress, UNCHANGED staged, UNCHANGED stopped
  PROVE  UpdaterInv' /\ Updates!UnsupportedIsFinal
<1>1. asks \in Nat /\ waiters \in Nat
  BY UpdaterBounds DEF UpdaterInv, UpdaterTypes, DownloadOwned
<1>2. CASE tracked # "none"
  BY <1>1, <1>2, UpdaterBounds DEF UpdaterInv, UpdaterTypes, Updates!Statuses, DownloadOwned, OfferStands,
     Updates!ReadyIsStaged, Updates!CheckNow, Updates!UnsupportedIsFinal
<1>3. CASE tracked = "none" /\ Updates!MayBegin
  BY <1>1, <1>3, UpdaterBounds DEF UpdaterInv, UpdaterTypes, Updates!Statuses, DownloadOwned, OfferStands,
     Updates!ReadyIsStaged, Updates!CheckNow, Updates!MayBegin, Updates!Begins, Updates!UnsupportedIsFinal
<1>4. CASE tracked = "none" /\ ~Updates!MayBegin
  BY <1>1, <1>4, UpdaterBounds DEF UpdaterInv, UpdaterTypes, Updates!Statuses, DownloadOwned, OfferStands,
     Updates!ReadyIsStaged, Updates!CheckNow, Updates!UnsupportedIsFinal
<1> QED BY <1>2, <1>3, <1>4

LEMMA AskingKeeps ==
  ASSUME UpdaterInv, Updates!TimerFires \/ Updates!MemberAsks
  PROVE  UpdaterInv' /\ Updates!UnsupportedIsFinal
<1>1. CASE Updates!TimerFires
  BY <1>1, CheckNowKeeps DEF Updates!TimerFires, UpdaterInv, UpdaterTypes
<1>2. CASE Updates!MemberAsks
  BY <1>2, CheckNowKeeps DEF Updates!MemberAsks, Updates!Looks, UpdaterInv, UpdaterTypes
<1> QED BY <1>1, <1>2

LEMMA WaiterKeeps ==
  ASSUME UpdaterInv, Updates!WaiterResumes
  PROVE  UpdaterInv' /\ Updates!UnsupportedIsFinal
<1>1. asks \in Nat /\ waiters \in Nat /\ waiters > 0 /\ waiters' = waiters - 1 /\ tracked = "none"
      /\ UNCHANGED tracked /\ UNCHANGED downloads /\ UNCHANGED progress /\ UNCHANGED staged
      /\ UNCHANGED stopped /\ UNCHANGED asks
  BY UpdaterBounds DEF UpdaterInv, UpdaterTypes, DownloadOwned, Updates!WaiterResumes
<1>2. CASE Updates!MayBegin
  <2>1. Updates!Begins /\ member' \in {"checking", member}
    BY <1>2 DEF Updates!WaiterResumes
  <2> QED BY <1>1, <1>2, <2>1, UpdaterBounds DEF UpdaterInv, UpdaterTypes, Updates!Statuses, DownloadOwned,
        OfferStands, Updates!ReadyIsStaged, Updates!MayBegin, Updates!Begins, Updates!UnsupportedIsFinal
<1>3. CASE ~Updates!MayBegin
  <2>1. member' \in {"settling", "no", member} /\ UNCHANGED status /\ UNCHANGED installing /\ UNCHANGED check
    BY <1>3 DEF Updates!WaiterResumes, Updates!Looks
  <2> QED BY <1>1, <1>3, <2>1, UpdaterBounds DEF UpdaterInv, UpdaterTypes, Updates!Statuses, DownloadOwned,
        OfferStands, Updates!ReadyIsStaged, Updates!UnsupportedIsFinal
<1> QED BY <1>2, <1>3

(* The source's events of a check.                                         *)
LEMMA SourceKeeps ==
  ASSUME UpdaterInv, Updates!Source
  PROVE  UpdaterInv' /\ Updates!UnsupportedIsFinal
<1> USE UpdaterBounds DEF UpdaterInv, UpdaterTypes, Updates!Statuses, DownloadOwned, OfferStands,
                          Updates!ReadyIsStaged,
        Updates!UnsupportedIsFinal, Updates!Hears, Updates!Publish, Updates!Settles, Updates!InFlight
<1>1. CASE Updates!CheckingForUpdate
  BY <1>1 DEF Updates!CheckingForUpdate
<1>2. CASE Updates!UpdateAvailable
  BY <1>2 DEF Updates!UpdateAvailable
<1>3. CASE Updates!CheckResolves
  BY <1>3 DEF Updates!CheckResolves
<1>4. CASE Updates!UpdateNotAvailable
  BY <1>4 DEF Updates!UpdateNotAvailable
<1>5. CASE Updates!CheckFails
  BY <1>5 DEF Updates!CheckFails
<1>6. CASE Updates!CancelledSettles
  BY <1>6 DEF Updates!CancelledSettles, Updates!Freed
<1> QED BY <1>1, <1>2, <1>3, <1>4, <1>5, <1>6 DEF Updates!Source

(* A failure that is reported changes the status for the worse.            *)
LEMMA UpdateFailsKeeps ==
  ASSUME UpdaterInv, NEW signature \in BOOLEAN, Updates!Fails(signature)
  PROVE  /\ status' \in {status, "error", "unsupported"} /\ Updates!UnsupportedIsFinal
         /\ member' \in {member, "no"}
         /\ status' = status \/ (~installing' \/ status' = "unsupported")
         /\ status' = status => (installing' => installing)
BY DEF Updates!Fails, Updates!Publish, Updates!UnsupportedIsFinal, UpdaterInv, OfferStands

(* The download, its stall timer and the installation.                     *)
LEMMA DownloadKeeps ==
  ASSUME UpdaterInv, Updates!Stalls \/ Updates!DownloadProgress \/ Updates!UpdateDownloaded \/ Updates!DownloadFails
  PROVE  UpdaterInv' /\ Updates!UnsupportedIsFinal
<1> USE UpdaterBounds DEF UpdaterInv, UpdaterTypes, Updates!Statuses, DownloadOwned, OfferStands,
                          Updates!ReadyIsStaged,
        Updates!UnsupportedIsFinal
<1>1. CASE Updates!Stalls
  BY <1>1 DEF Updates!Stalls, Updates!Publish, Updates!InFlight
<1>2. CASE Updates!DownloadProgress
  BY <1>2 DEF Updates!DownloadProgress, Updates!Hears, Updates!Publish
<1>3. CASE Updates!UpdateDownloaded
  <2>1. /\ tracked = "live" /\ downloads = 1 /\ tracked' = "none" /\ downloads' = 0 /\ check = "none"
        /\ staged' = TRUE /\ UNCHANGED check /\ UNCHANGED progress /\ UNCHANGED waiters
        /\ UNCHANGED stopped /\ UNCHANGED asks /\ ~stopped
    BY <1>3 DEF Updates!UpdateDownloaded, Updates!Freed
  <2>2. ~installing
    BY <2>1
  <2>3. status' \in {"ready", "error"} /\ member' \in {member, "no"} /\ ~installing'
    BY <1>3, <2>1, <2>2 DEF Updates!UpdateDownloaded, Updates!Publish
  <2>4. Updates!ReadyIsStaged' /\ OfferStands'
    BY <2>1, <2>3
  <2>5. Updates!UnsupportedIsFinal
    BY <2>1
  <2> QED BY <2>1, <2>3, <2>4, <2>5
<1>4. CASE Updates!DownloadFails
  <2>1. /\ tracked = "live" /\ downloads = 1 /\ tracked' = "none" /\ downloads' = 0 /\ check = "none"
        /\ UNCHANGED staged /\ UNCHANGED check /\ UNCHANGED progress /\ UNCHANGED waiters
        /\ UNCHANGED stopped /\ UNCHANGED asks
    BY <1>4 DEF Updates!DownloadFails, Updates!Freed
  <2>2. PICK signature \in BOOLEAN : Updates!Fails(signature)
    BY <1>4 DEF Updates!DownloadFails
  <2>3. /\ status' \in {status, "error", "unsupported"} /\ Updates!UnsupportedIsFinal /\ member' \in {member, "no"}
        /\ status' = status \/ (~installing' \/ status' = "unsupported")
        /\ status' = status => (installing' => installing)
    BY <2>2, UpdateFailsKeeps
  <2> QED BY <2>1, <2>3
<1> QED BY <1>1, <1>2, <1>3, <1>4

LEMMA InstallKeeps ==
  ASSUME UpdaterInv, Updates!QuitAndInstall \/ Updates!InstallFails \/ Updates!Dispose
  PROVE  UpdaterInv' /\ Updates!UnsupportedIsFinal
<1> USE UpdaterBounds DEF UpdaterInv, UpdaterTypes, Updates!Statuses, DownloadOwned, OfferStands,
                          Updates!ReadyIsStaged,
        Updates!UnsupportedIsFinal
<1>1. CASE Updates!QuitAndInstall
  <2>1. status = "ready" /\ status' \in {"ready", "error"} /\ member' \in {member, "no"}
        /\ (installing' => status' = "ready")
    BY <1>1 DEF Updates!QuitAndInstall, Updates!Publish
  <2> QED BY <1>1, <2>1 DEF Updates!QuitAndInstall
<1>2. CASE Updates!InstallFails
  <2>2. PICK signature \in BOOLEAN : Updates!Fails(signature)
    BY <1>2 DEF Updates!InstallFails
  <2>3. /\ status' \in {status, "error", "unsupported"} /\ Updates!UnsupportedIsFinal /\ member' \in {member, "no"}
        /\ status' = status \/ (~installing' \/ status' = "unsupported")
        /\ status' = status => (installing' => installing)
    BY <2>2, UpdateFailsKeeps
  <2> QED BY <1>2, <2>3 DEF Updates!InstallFails
<1>3. CASE Updates!Dispose
  BY <1>3 DEF Updates!Dispose
<1> QED BY <1>1, <1>2, <1>3

LEMMA UpdaterStep ==
  ASSUME UpdaterInv, [Updates!Next]_UpdatesVars
  PROVE  UpdaterInv' /\ Updates!UnsupportedIsFinal
<1>1. CASE UNCHANGED UpdatesVars
  BY <1>1 DEF UpdatesVars, UpdaterInv, UpdaterTypes, DownloadOwned, OfferStands, Updates!ReadyIsStaged,
              Updates!UnsupportedIsFinal
<1>2. CASE Updates!WaiterResumes
  BY <1>2, WaiterKeeps
<1>3. CASE Updates!Others
  BY <1>3, SourceKeeps, AskingKeeps, DownloadKeeps, InstallKeeps DEF Updates!Others
<1> QED BY <1>1, <1>2, <1>3 DEF Updates!Next

LEMMA UpdaterSafe ==
  ASSUME UpdaterInv, installing \in BOOLEAN
  PROVE  Updates!TypeOK /\ Updates!OneDownload /\ Updates!ReadyIsStaged
BY DEF UpdaterInv, UpdaterTypes, DownloadOwned, Updates!OneDownload, Updates!TypeOK

-----------------------------------------------------------------------------
(* The count of the part's own module is the count everyone takes.        *)
LEMMA WindowSize == \A S : Window!Cardinality(S) = Cardinality(S)
BY DEF Window!Cardinality, Cardinality


(* A window that is open is the main one; one whose closing was announced   *)
(* is closed.                                                              *)
OpenIsMain ==
  /\ \A w \in Window!Windows : Window!Alive(w) => main = w
  /\ \A w \in Window!Windows : "closed" \in late[w] => win[w] = "closed"
  /\ main # 0 => win[main] # "none"

(* The renderer that is sent to is the main window's, and has loaded.      *)
LoadedIsMain ==
  /\ rendererReady => main # 0 /\ main \in valid /\ win[main] # "loading"

(* A renderer that is not ready runs under a generation in which none was.  *)
GenerationUnused ==
  /\ generation \in Nat \ {0} /\ wasReady \subseteq 1..generation
  /\ quit # "gone" /\ ~rendererReady => generation \notin wasReady

TornDown == quit \in {"ready", "gone"} => torn

WindowInv == Window!TypeOK /\ OpenIsMain /\ LoadedIsMain /\ Window!BindingIsMain /\ GenerationUnused /\ TornDown

LEMMA WindowStarts == Window!Init => WindowInv
BY WindowBounds DEF Window!Init, WindowInv, Window!TypeOK, OpenIsMain, LoadedIsMain, Window!BindingIsMain,
                    GenerationUnused,
   TornDown, Window!Alive, Window!Windows, Window!Callbacks

(* The renderer of a window goes, and so may the window.                   *)
LEMMA InvalidatedKeeps ==
  ASSUME WindowInv, NEW w \in Window!Windows, Window!Invalidated(w), UNCHANGED main, UNCHANGED wasReady,
         UNCHANGED quit,
         win' \in [Window!Windows -> {"none", "loading", "ready", "crashed", "closed"}],
         \A v \in Window!Windows : v # w => win'[v] = win[v]
  PROVE  LoadedIsMain' /\ Window!BindingIsMain' /\ GenerationUnused' /\ valid' \subseteq Window!Windows
           /\ bound' \in 0..MaxWindows
         /\ Window!FreshGeneration
BY WindowBounds DEF WindowInv, Window!TypeOK, LoadedIsMain, Window!BindingIsMain, GenerationUnused,
                    Window!Invalidated, Window!FreshGeneration, Window!Windows

LEMMA ForgottenKeeps ==
  ASSUME WindowInv, NEW w \in Window!Windows, Window!Forgotten(w), UNCHANGED wasReady, UNCHANGED quit,
         \A v \in Window!Windows : v # w => win'[v] = win[v]
  PROVE  /\ LoadedIsMain' /\ Window!BindingIsMain' /\ GenerationUnused' /\ valid' \subseteq Window!Windows
              /\ bound' \in 0..MaxWindows
         /\ main' \in 0..MaxWindows /\ Window!FreshGeneration
<1>1. /\ valid' = valid \ {w} /\ bound' = IF bound = w THEN 0 ELSE bound
      /\ generation' = IF w \in valid /\ main = w THEN generation + 1 ELSE generation
      /\ rendererReady' = (rendererReady /\ main # w)
      /\ main' = IF main = w THEN 0 ELSE main
      /\ generation \in Nat \ {0} /\ wasReady \subseteq 1..generation
  BY DEF Window!Forgotten, WindowInv, GenerationUnused
<1>2. valid' \subseteq Window!Windows /\ bound' \in 0..MaxWindows /\ main' \in 0..MaxWindows
  BY <1>1, WindowBounds DEF WindowInv, Window!TypeOK
<1>3. LoadedIsMain' /\ Window!BindingIsMain'
  BY <1>1, <1>2, WindowBounds DEF WindowInv, Window!TypeOK, LoadedIsMain, Window!BindingIsMain, Window!Windows
<1>4. Window!FreshGeneration
  BY <1>1 DEF Window!FreshGeneration
<1>5. GenerationUnused'
  <2>1. CASE w \in valid /\ main = w
    <3>1. generation' = generation + 1 /\ generation' \notin wasReady /\ wasReady \subseteq 1..generation'
      BY <1>1, <2>1
    <3> QED BY <1>1, <3>1 DEF GenerationUnused
  <2>2. CASE ~(w \in valid /\ main = w)
    <3>1. ~rendererReady' => ~rendererReady
      BY <1>1, <2>2 DEF WindowInv, LoadedIsMain
    <3> QED BY <1>1, <2>2, <3>1 DEF WindowInv, GenerationUnused
  <2> QED BY <2>1, <2>2
<1> QED BY <1>2, <1>3, <1>4, <1>5

(* A step that leaves the main window, its renderer and its generation alone. *)
LEMMA WindowFrame ==
  ASSUME WindowInv, UNCHANGED main, UNCHANGED valid, UNCHANGED rendererReady, UNCHANGED generation,
         UNCHANGED bound, UNCHANGED wasReady,
         win' \in [Window!Windows -> {"none", "loading", "ready", "crashed", "closed"}],
         late' \in [Window!Windows -> SUBSET Window!Callbacks], run' \in -1..MaxWindows,
         quit' \in {"no", "tearing", "ready", "gone"}, quit = "gone" => quit' = "gone",
         TornDown',
         \A w \in Window!Windows : Window!Alive(w)' => Window!Alive(w),
         \A w \in Window!Windows : win'[w] = "loading" => win[w] = "loading",
         \A w \in Window!Windows : win'[w] = "none" => win[w] = "none",
         \A w \in Window!Windows : "closed" \in late'[w] => win'[w] = "closed"
  PROVE  WindowInv' /\ Window!FreshGeneration
<1>1. Window!TypeOK'
  BY DEF WindowInv, Window!TypeOK
<1>2. OpenIsMain'
  BY WindowBounds DEF WindowInv, Window!TypeOK, OpenIsMain, Window!Windows
<1>3. LoadedIsMain'
  <2>1. main # 0 => main \in Window!Windows
    BY WindowBounds DEF WindowInv, Window!TypeOK, Window!Windows
  <2> QED BY <2>1 DEF WindowInv, LoadedIsMain
<1>4. Window!BindingIsMain' /\ GenerationUnused' /\ Window!FreshGeneration
  BY DEF WindowInv, Window!BindingIsMain, GenerationUnused, Window!FreshGeneration
<1> QED BY <1>1, <1>2, <1>3, <1>4 DEF WindowInv

LEMMA LookKeeps ==
  ASSUME WindowInv, Window!Look, quit # "gone"
  PROVE  WindowInv' /\ Window!FreshGeneration
<1> USE WindowBounds DEF WindowInv, Window!TypeOK, OpenIsMain, LoadedIsMain, Window!BindingIsMain, GenerationUnused,
        TornDown, Window!Alive, Window!Windows, Window!Callbacks, Window!FreshGeneration, Window!quitVars,
        Window!Settled
<1>1. CASE main # 0 /\ win[main] \in {"loading", "ready"}
  BY <1>1, WindowFrame DEF Window!Look
<1>2. CASE ~(main # 0 /\ win[main] \in {"loading", "ready"})
  <2>1. PICK w \in Window!Windows :
          /\ win' = [v \in Window!Windows |-> IF v = w THEN "loading" ELSE IF v = main THEN "closed" ELSE win[v]]
          /\ late' = IF main = 0 THEN late ELSE [late EXCEPT ![main] = @ \cup {"destroyed", "closed"}]
          /\ main' = w /\ rendererReady' = FALSE /\ generation' = generation + 1 /\ bound' = 0
          /\ run' = w /\ UNCHANGED <<valid, trailing>> /\ win[w] = "none"
    BY <1>2 DEF Window!Look, Window!Fresh
  <2>2. UNCHANGED wasReady /\ UNCHANGED quit /\ UNCHANGED torn
    BY DEF Window!Look
  <2>3. Window!TypeOK'
    BY <2>1, <2>2
  <2>4. OpenIsMain'
    <3>1. \A v \in Window!Windows : Window!Alive(v)' => v = w
      BY <2>1
    <3>2. ASSUME NEW v \in Window!Windows, "closed" \in late'[v] PROVE win'[v] = "closed"
      <4>1. CASE main # 0 /\ v = main
        BY <2>1, <4>1
      <4>2. CASE ~(main # 0 /\ v = main)
        BY <2>1, <3>2, <4>2
      <4> QED BY <4>1, <4>2
    <3> QED BY <2>1, <3>1, <3>2
  <2>5. LoadedIsMain' /\ Window!BindingIsMain' /\ GenerationUnused' /\ TornDown' /\ Window!FreshGeneration
    BY <2>1, <2>2
  <2> QED BY <2>3, <2>4, <2>5
<1> QED BY <1>1, <1>2

LEMMA LoadingKeeps ==
  ASSUME WindowInv, quit # "gone", NEW w \in Window!Windows, Window!FinishLoad(w) \/ Window!LoadFails(w)
  PROVE  WindowInv' /\ Window!FreshGeneration
<1>1. CASE Window!FinishLoad(w)
  <2>1. main = w /\ w \in Window!Windows /\ win[w] = "loading" /\ ~rendererReady
    BY <1>1 DEF Window!FinishLoad, WindowInv, OpenIsMain, LoadedIsMain, Window!Alive
  <2>2. /\ win' = [win EXCEPT ![w] = "ready"] /\ valid' = valid \cup {w} /\ rendererReady'
        /\ wasReady' = wasReady \cup {generation} /\ UNCHANGED bound /\ UNCHANGED late /\ UNCHANGED main
        /\ UNCHANGED generation /\ UNCHANGED quit /\ UNCHANGED torn /\ run' \in {run, -1, 0}
    BY <1>1, <2>1 DEF Window!FinishLoad, Window!quitVars, Window!Settled
  <2>3. Window!TypeOK'
    BY <2>2, WindowBounds DEF WindowInv, Window!TypeOK
  <2>4. OpenIsMain'
    BY <2>1, <2>2 DEF WindowInv, Window!TypeOK, OpenIsMain, Window!Alive
  <2>5. LoadedIsMain' /\ Window!BindingIsMain'
    BY <2>1, <2>2, WindowBounds DEF WindowInv, Window!TypeOK, LoadedIsMain, Window!BindingIsMain, Window!Windows
  <2>6. GenerationUnused' /\ Window!FreshGeneration
    BY <2>1, <2>2 DEF WindowInv, GenerationUnused, Window!FreshGeneration
  <2> QED BY <2>2, <2>3, <2>4, <2>5, <2>6 DEF WindowInv, TornDown
<1>2. CASE Window!LoadFails(w)
  <2>1. /\ win' = [win EXCEPT ![w] = "closed"] /\ Window!Forgotten(w) /\ UNCHANGED wasReady
        /\ UNCHANGED quit /\ UNCHANGED torn
        /\ late' = IF win[w] = "loading" THEN [late EXCEPT ![w] = @ \cup {"destroyed", "closed"}] ELSE late
        /\ run' \in {run, -1, 0}
    BY <1>2 DEF Window!LoadFails, Window!quitVars, Window!Settled
  <2>2. \A v \in Window!Windows : v # w => win'[v] = win[v]
    BY <2>1 DEF WindowInv, Window!TypeOK
  <2>3. /\ LoadedIsMain' /\ Window!BindingIsMain' /\ GenerationUnused' /\ valid' \subseteq Window!Windows
             /\ bound' \in 0..MaxWindows
        /\ main' \in 0..MaxWindows /\ Window!FreshGeneration
    BY <2>1, <2>2, ForgottenKeeps
  <2>4. OpenIsMain'
    BY <2>1 DEF WindowInv, Window!TypeOK, OpenIsMain, Window!Alive, Window!Forgotten
  <2>5. Window!TypeOK'
    BY <2>1, <2>3, WindowBounds DEF WindowInv, Window!TypeOK, Window!Callbacks
  <2> QED BY <2>1, <2>3, <2>4, <2>5 DEF WindowInv, TornDown
<1> QED BY <1>1, <1>2

LEMMA RendererKeeps ==
  ASSUME WindowInv, quit # "gone", NEW w \in Window!Windows,
         Window!Reload(w) \/ Window!Crash(w) \/ Window!CloseWindow(w)
  PROVE  WindowInv' /\ Window!FreshGeneration
<1>1. CASE Window!Reload(w)
  <2>1. /\ win' = [win EXCEPT ![w] = "loading"] /\ Window!Invalidated(w) /\ UNCHANGED main /\ UNCHANGED wasReady
        /\ UNCHANGED quit /\ UNCHANGED torn /\ UNCHANGED late /\ UNCHANGED run /\ win[w] = "ready"
    BY <1>1 DEF Window!Reload, Window!askVars, Window!quitVars
  <2>2. /\ \A v \in Window!Windows : v # w => win'[v] = win[v]
        /\ win' \in [Window!Windows -> {"none", "loading", "ready", "crashed", "closed"}]
    BY <2>1 DEF WindowInv, Window!TypeOK
  <2>3. LoadedIsMain' /\ Window!BindingIsMain' /\ GenerationUnused' /\ valid' \subseteq Window!Windows
          /\ bound' \in 0..MaxWindows
        /\ Window!FreshGeneration
    BY <2>1, <2>2, InvalidatedKeeps
  <2>4. OpenIsMain'
    BY <2>1 DEF WindowInv, Window!TypeOK, OpenIsMain, Window!Alive
  <2>5. Window!TypeOK'
    BY <2>1, <2>2, <2>3 DEF WindowInv, Window!TypeOK
  <2> QED BY <2>1, <2>3, <2>4, <2>5 DEF WindowInv, TornDown
<1>2. CASE Window!Crash(w) \/ Window!CloseWindow(w)
  <2>1. PICK phase \in {"crashed", "closed"}, cs \in {{"gone"}, {"destroyed", "closed"}} :
          /\ win' = [win EXCEPT ![w] = phase] /\ late' = [late EXCEPT ![w] = @ \cup cs]
          /\ "closed" \in cs => phase = "closed"
    BY <1>2 DEF Window!Crash, Window!CloseWindow
  <2>2. /\ Window!Alive(w) /\ UNCHANGED main /\ UNCHANGED valid /\ UNCHANGED rendererReady /\ UNCHANGED generation
        /\ UNCHANGED bound /\ UNCHANGED wasReady /\ UNCHANGED run /\ UNCHANGED quit /\ UNCHANGED torn
    BY <1>2 DEF Window!Crash, Window!CloseWindow, Window!Alive, Window!askVars, Window!quitVars
  <2>3. /\ win' \in [Window!Windows -> {"none", "loading", "ready", "crashed", "closed"}]
        /\ \A v \in Window!Windows : v # w => win'[v] = win[v]
        /\ win'[w] = phase
    BY <2>1 DEF WindowInv, Window!TypeOK
  <2>4. /\ late' \in [Window!Windows -> SUBSET Window!Callbacks]
        /\ \A v \in Window!Windows : v # w => late'[v] = late[v]
        /\ late'[w] = late[w] \cup cs
    BY <2>1 DEF WindowInv, Window!TypeOK, Window!Callbacks
  <2>5. \A v \in Window!Windows : Window!Alive(v)' => Window!Alive(v)
    BY <2>2, <2>3 DEF Window!Alive
  <2>6. \A v \in Window!Windows : (win'[v] = "loading" => win[v] = "loading")
          /\ (win'[v] = "none" => win[v] = "none")
    BY <2>1, <2>3
  <2>7. \A v \in Window!Windows : "closed" \in late'[v] => win'[v] = "closed"
    <3>1. "closed" \in late[w] => win[w] = "closed"
      BY DEF WindowInv, OpenIsMain
    <3>2. win[w] # "closed"
      BY <2>2 DEF Window!Alive
    <3> QED BY <2>1, <2>3, <2>4, <3>1, <3>2 DEF WindowInv, OpenIsMain
  <2> QED BY <2>2, <2>3, <2>4, <2>5, <2>6, <2>7, WindowFrame DEF WindowInv, Window!TypeOK, TornDown
<1> QED BY <1>1, <1>2

LEMMA CallbackKeeps ==
  ASSUME WindowInv, quit # "gone", NEW w \in Window!Windows, Window!Callback(w)
  PROVE  WindowInv' /\ Window!FreshGeneration
<1>1. PICK c \in late[w] :
        /\ late' = [late EXCEPT ![w] = @ \ {c}]
        /\ IF c = "closed" THEN Window!Forgotten(w) ELSE Window!Invalidated(w) /\ UNCHANGED main
  BY DEF Window!Callback
<1>2. UNCHANGED win /\ UNCHANGED run /\ UNCHANGED wasReady /\ UNCHANGED quit /\ UNCHANGED torn
  BY DEF Window!Callback, Window!askVars, Window!quitVars
<1>3. /\ LoadedIsMain' /\ Window!BindingIsMain' /\ GenerationUnused' /\ valid' \subseteq Window!Windows
           /\ bound' \in 0..MaxWindows
      /\ Window!FreshGeneration
  <2>1. win' \in [Window!Windows -> {"none", "loading", "ready", "crashed", "closed"}]
    BY <1>2 DEF WindowInv, Window!TypeOK
  <2>2. CASE c = "closed"
    BY <1>1, <1>2, <2>2, ForgottenKeeps
  <2>3. CASE c # "closed"
    BY <1>1, <1>2, <2>1, <2>3, InvalidatedKeeps
  <2> QED BY <2>2, <2>3
<1>4. main' \in {main, 0} /\ (main' # main => main = w /\ c = "closed")
  BY <1>1 DEF Window!Forgotten
<1>5. OpenIsMain'
  BY <1>1, <1>2, <1>4 DEF WindowInv, Window!TypeOK, OpenIsMain, Window!Alive
<1>6. Window!TypeOK'
  BY <1>1, <1>2, <1>3, <1>4, WindowBounds DEF WindowInv, Window!TypeOK, Window!Callbacks
<1> QED BY <1>2, <1>3, <1>5, <1>6 DEF WindowInv, TornDown

LEMMA QuittingKeeps ==
  ASSUME WindowInv, Window!Ask \/ Window!BindRenderer \/ Window!BeforeQuit \/ Window!AllClosed
           \/ Window!TeardownSettles \/ Window!ResumeQuit \/ Window!WillQuit
  PROVE  WindowInv' /\ Window!FreshGeneration
<1> USE WindowBounds DEF WindowInv, Window!TypeOK, OpenIsMain, LoadedIsMain, Window!BindingIsMain, GenerationUnused,
        TornDown, Window!Alive, Window!Callbacks, Window!FreshGeneration, Window!quitVars, Window!askVars
<1>1. CASE Window!Ask
  BY <1>1 DEF Window!Ask
<1>2. CASE Window!BindRenderer
  BY <1>2 DEF Window!BindRenderer
<1>3. CASE Window!BeforeQuit \/ Window!AllClosed \/ Window!TeardownSettles \/ Window!ResumeQuit
  BY <1>3, WindowFrame DEF Window!BeforeQuit, Window!AllClosed, Window!TeardownSettles, Window!ResumeQuit
<1>4. CASE Window!WillQuit
  BY <1>4 DEF Window!WillQuit
<1> QED BY <1>1, <1>2, <1>3, <1>4

LEMMA WindowStep ==
  ASSUME WindowInv, [Window!Next]_WindowVars
  PROVE  WindowInv' /\ Window!FreshGeneration
<1>1. CASE UNCHANGED WindowVars
  BY <1>1 DEF WindowVars, WindowInv, Window!TypeOK, OpenIsMain, LoadedIsMain, Window!BindingIsMain,
              GenerationUnused,
     TornDown, Window!Alive, Window!FreshGeneration
<1>2. CASE Window!WillQuit
  BY <1>2, QuittingKeeps
<1>3. CASE quit # "gone" /\ Window!Running
  BY <1>3, QuittingKeeps, LookKeeps, LoadingKeeps, RendererKeeps, CallbackKeeps DEF Window!Running
<1> QED BY <1>1, <1>2, <1>3 DEF Window!Next

LEMMA WindowSafe ==
  ASSUME WindowInv
  PROVE  Window!TypeOK /\ Window!OneWindow /\ Window!SendsToLoaded /\ Window!BindingIsMain /\ Window!LeavesTornDown
<1>1. Window!OneWindow
  <2> DEFINE Opened == {w \in Window!Windows : Window!Alive(w)}
  <2>1. Opened \subseteq {main}
    BY DEF WindowInv, OpenIsMain
  <2>2. IsFiniteSet({main}) /\ Cardinality({main}) = 1
    BY FS_Singleton
  <2>3. Cardinality(Opened) <= 1
    BY <2>1, <2>2, FS_Subset
  <2> QED BY <2>3, WindowSize DEF Window!OneWindow
<1> QED BY <1>1 DEF WindowInv, LoadedIsMain, Window!SendsToLoaded, TornDown, Window!LeavesTornDown

-----------------------------------------------------------------------------
Kinds == {"init", "start", "callback", "cancel", "expire"}
Args == [attempt : Nat, kind : {"code", "error"}]
Operations == [kind : Kinds, arg : Args]
TaskPcs == {"none", "cancelling", "cancelled", "starting", "withdrawing"}
DrainPcs == {"idle", "install", "flow", "confirm", "exchange"}
Pcs == {"load", "lapsing", "match", "clear", "save", "open", "done", "failed", "expired", "ignored", "refused",
        "handoff"}
\* the steps an operation of the native transaction takes
PcsOf(kind) ==
  CASE kind = "init"     -> {"load", "lapsing", "done", "failed"}
    [] kind = "start"    -> {"load", "lapsing", "clear", "save", "open", "done", "failed"}
    [] kind = "callback" -> {"load", "lapsing", "match", "clear", "expired", "ignored", "refused", "handoff", "failed"}
    [] kind = "cancel"   -> {"load", "lapsing", "clear", "done", "failed"}
    [] OTHER             -> {"load", "lapsing", "match", "clear", "ignored", "done", "failed"}

SignTypes ==
  /\ attempts \in 0..MaxAttempts /\ file \in 0..attempts /\ pending \in {0, file}
  /\ opened \subseteq 1..attempts /\ expired \subseteq 1..attempts /\ exchanged \subseteq 1..attempts
  /\ given \subseteq 1..attempts /\ superseded \subseteq 1..attempts
  /\ crashes \in 0..MaxCrashes /\ intent \in 0..(MaxIntents + crashes)
  /\ pendingIntent \in (0..intent) \cup {SignIn!NoIntent}
  /\ cancel \in {"none", "arm", "flow", "clear"}
  /\ running \in {"no", "starting", "restoring", "yes"}
TaskTypes ==
  /\ tasks \in [SignIn!TaskKinds -> [pc : TaskPcs, intent : Nat]]
  /\ \A k \in SignIn!TaskKinds : tasks[k].intent \in 0..intent
DrainTypes ==
  /\ callbacks \in Seq(SignIn!Callbacks)
  /\ drain \in [pc : DrainPcs, attempt : Nat, kind : {"code", "error"}, intent : Nat]
  /\ drain.pc # "idle" => drain.attempt \in SignIn!Attempts /\ drain.intent \in (0..intent) \cup {SignIn!NoIntent}

(* The operations of the native transaction: one of each kind at a time but  *)
(* for the expiries, and a cancellation after the start it cancels.          *)
QueueShape ==
  /\ tail \in Seq(Operations)
  /\ \/ flow = SignIn!NoFlow
     \/ flow \in [kind : Kinds, arg : Args, pc : Pcs] /\ flow.pc \in PcsOf(flow.kind)
  /\ \A i, j \in DOMAIN tail : tail[i].kind = tail[j].kind /\ tail[i].kind # "expire" => i = j
  /\ \A i \in DOMAIN tail : tail[i].kind # "expire" => tail[i].kind # flow.kind
  /\ \A i, j \in DOMAIN tail : tail[i].kind = "cancel" /\ tail[j].kind = "start" => j < i
  /\ flow.kind = "cancel" => \A i \in DOMAIN tail : tail[i].kind # "start"

\* an operation of this kind waits or runs
Asked(kind) == flow.kind = kind \/ \E i \in DOMAIN tail : tail[i].kind = kind
\* a callback that waits or runs is the one the drain handed over
CallbackAsked ==
  /\ Asked("callback") => drain.pc = "flow"
  /\ flow.kind = "callback" => flow.arg.attempt = drain.attempt
  /\ \A i \in DOMAIN tail : tail[i].kind = "callback" => tail[i].arg.attempt = drain.attempt

(* Each operation has the handler that waits for it.                         *)
QueueOwners ==
  /\ Asked("init") => running = "starting" /\ ~fenced /\ ~fence
  /\ Asked("start") => tasks["start"].pc = "starting"
  /\ Asked("cancel") => cancel = "flow"
  /\ CallbackAsked

(* The record on disk and in memory.                                         *)
RecordShape ==
  /\ initialized => pending = file
  /\ flow.kind = "cancel" /\ flow.pc = "done" => file = 0
  /\ flow.kind = "callback" /\ flow.pc = "clear" => pending = flow.arg.attempt
  /\ flow.pc = "open" => pending # 0
  /\ file \notin exchanged
  /\ file \in superseded => fence

(* A fence stands while a cancellation runs or has failed, and no intent in  *)
(* force has anything pending under it.                                      *)
FenceShape ==
  /\ cancel # "none" => fenced
  /\ retry => fenced
  /\ cancel = "clear" => file = 0 /\ ~Asked("start")
  /\ fenced => pendingIntent # intent
  /\ fenced /\ drain.pc # "idle" => drain.intent # intent
  /\ tasks["start"].pc = "cancelled" /\ tasks["start"].intent = intent => ~fenced /\ file = 0

(* What is pending for the intent in force is that intent's.                 *)
IntentShape ==
  tasks["start"].pc # "none" =>
    /\ pendingIntent = intent => tasks["start"].intent = intent
    /\ drain.pc # "idle" /\ drain.intent = intent => tasks["start"].intent = intent

\* an attempt that may be exchanged
Consumable(a) ==
  /\ a \in 1..attempts /\ a \notin exchanged /\ a # file
  /\ drain.intent = intent => a \notin given /\ a \notin superseded

(* The attempt of the intent in force was not given up.                      *)
FreshShape ==
  /\ pendingIntent = intent => file \notin given /\ file \notin superseded
  /\ drain.pc # "idle" /\ drain.intent = intent => file \notin given /\ file \notin superseded
  /\ flow.kind = "callback" /\ flow.pc = "handoff" => Consumable(flow.arg.attempt)
  /\ drain.pc \in {"confirm", "exchange"} => Consumable(drain.attempt)

(* Before main has started nothing is under way.                             *)
StartShape ==
  /\ running # "yes" => /\ \A k \in SignIn!TaskKinds : tasks[k].pc = "none"
                        /\ drain.pc = "idle" /\ given = {}
                        /\ signedIn => intent < MaxIntents + crashes
  /\ running \in {"no", "starting"} => pendingIntent = SignIn!NoIntent
  /\ running = "no" => /\ flow = SignIn!NoFlow /\ tail = <<>> /\ ~fenced /\ cancel = "none" /\ ~retry
                       /\ pending = 0

SignInv ==
  /\ SignTypes /\ TaskTypes /\ DrainTypes /\ QueueShape /\ QueueOwners
  /\ RecordShape /\ FenceShape /\ IntentShape /\ FreshShape /\ StartShape

LEMMA PcsKnown == \A k \in Kinds : PcsOf(k) \subseteq Pcs /\ "load" \in PcsOf(k)
<1> SUFFICES ASSUME NEW k \in Kinds PROVE PcsOf(k) \subseteq Pcs /\ "load" \in PcsOf(k)
  OBVIOUS
<1>1. CASE k = "init"
  BY <1>1 DEF PcsOf, Pcs
<1>2. CASE k = "start"
  BY <1>2 DEF PcsOf, Pcs
<1>3. CASE k = "callback"
  BY <1>3 DEF PcsOf, Pcs
<1>4. CASE k = "cancel"
  BY <1>4 DEF PcsOf, Pcs
<1>5. CASE k = "expire"
  BY <1>5 DEF PcsOf, Pcs
<1>6. k \in {"init", "start", "callback", "cancel", "expire"}
  BY DEF Kinds
<1> QED BY ONLY <1>1, <1>2, <1>3, <1>4, <1>5, <1>6

(* Sequences that grow at the end and shrink at the head.                    *)
LEMMA Appended ==
  ASSUME NEW S, NEW s \in Seq(S), NEW e \in S, NEW t, t = Append(s, e)
  PROVE  /\ t \in Seq(S) /\ Len(s) \in Nat /\ DOMAIN s = 1..Len(s) /\ DOMAIN t = 1..(Len(s) + 1)
         /\ t[Len(s) + 1] = e /\ \A i \in DOMAIN s : t[i] = s[i]
         /\ \A i \in DOMAIN t : i \in DOMAIN s \/ i = Len(s) + 1
OBVIOUS

LEMMA Taken ==
  ASSUME NEW S, NEW s \in Seq(S), s # <<>>, NEW t, t = Tail(s)
  PROVE  /\ t \in Seq(S) /\ Head(s) \in S /\ 1 \in DOMAIN s /\ s[1] = Head(s)
         /\ \A i \in DOMAIN t : i \in Nat /\ i # 0 /\ i + 1 \in DOMAIN s /\ t[i] = s[i + 1]
         /\ \A i \in DOMAIN s : i = 1 \/ (i - 1 \in DOMAIN t /\ i \in Nat)
OBVIOUS

LEMMA QueueAppends ==
  ASSUME QueueShape, NEW op \in Operations, tail' = Append(tail, op), UNCHANGED flow,
         op.kind # "expire" => ~Asked(op.kind), op.kind = "start" => ~Asked("cancel")
  PROVE  /\ QueueShape'
         /\ \A k \in Kinds : Asked(k)' => Asked(k) \/ k = op.kind
         /\ \A i \in DOMAIN tail' : tail'[i] = op \/ (i \in DOMAIN tail /\ tail'[i] = tail[i])
<1>1. /\ tail' \in Seq(Operations) /\ Len(tail) \in Nat /\ DOMAIN tail = 1..Len(tail)
      /\ DOMAIN tail' = 1..(Len(tail) + 1)
      /\ tail'[Len(tail) + 1] = op /\ \A i \in DOMAIN tail : tail'[i] = tail[i]
      /\ \A i \in DOMAIN tail' : i \in DOMAIN tail \/ i = Len(tail) + 1
  BY Appended DEF QueueShape
<1>2. op.kind # "expire" => flow.kind # op.kind /\ \A i \in DOMAIN tail : tail[i].kind # op.kind
  BY DEF Asked
<1>3. op.kind = "start" => flow.kind # "cancel" /\ \A i \in DOMAIN tail : tail[i].kind # "cancel"
  BY DEF Asked
<1>4. \A i, j \in DOMAIN tail' : tail'[i].kind = tail'[j].kind /\ tail'[i].kind # "expire" => i = j
  BY <1>1, <1>2 DEF QueueShape
<1>5. \A i, j \in DOMAIN tail' : tail'[i].kind = "cancel" /\ tail'[j].kind = "start" => j < i
  BY <1>1, <1>2, <1>3 DEF QueueShape
<1>6. \A i \in DOMAIN tail' : tail'[i].kind # "expire" => tail'[i].kind # flow.kind
  BY <1>1, <1>2 DEF QueueShape
<1>7. flow.kind = "cancel" => \A i \in DOMAIN tail' : tail'[i].kind # "start"
  BY <1>1, <1>3 DEF QueueShape
<1>8. QueueShape'
  BY <1>1, <1>4, <1>5, <1>6, <1>7 DEF QueueShape
<1>9. \A i \in DOMAIN tail' : tail'[i] = op \/ (i \in DOMAIN tail /\ tail'[i] = tail[i])
  BY <1>1
<1>10. \A k \in Kinds : Asked(k)' => Asked(k) \/ k = op.kind
  BY <1>9 DEF Asked
<1> QED BY <1>8, <1>9, <1>10

LEMMA QueueStarts ==
  ASSUME QueueShape, flow = SignIn!NoFlow, tail # <<>>, tail' = Tail(tail),
         flow' = [kind |-> Head(tail).kind, arg |-> Head(tail).arg, pc |-> "load"]
  PROVE  /\ QueueShape'
         /\ \A k \in Kinds : Asked(k)' => Asked(k)
         /\ flow'.kind = tail[1].kind /\ flow'.arg = tail[1].arg /\ 1 \in DOMAIN tail
         /\ \A i \in DOMAIN tail' : i + 1 \in DOMAIN tail /\ tail'[i] = tail[i + 1]
<1>1. /\ tail' \in Seq(Operations) /\ Head(tail) \in Operations /\ 1 \in DOMAIN tail /\ tail[1] = Head(tail)
      /\ \A i \in DOMAIN tail' : i \in Nat /\ i # 0 /\ i + 1 \in DOMAIN tail /\ tail'[i] = tail[i + 1]
  BY Taken DEF QueueShape
<1>2. flow'.kind = tail[1].kind /\ flow'.arg = tail[1].arg /\ flow'.pc = "load"
  BY <1>1
<1>3. \A i, j \in DOMAIN tail' : tail'[i].kind = tail'[j].kind /\ tail'[i].kind # "expire" => i = j
  BY <1>1 DEF QueueShape
<1>4. \A i, j \in DOMAIN tail' : tail'[i].kind = "cancel" /\ tail'[j].kind = "start" => j < i
  BY <1>1 DEF QueueShape
<1>5. \A i \in DOMAIN tail' : tail'[i].kind # "expire" => tail'[i].kind # flow'.kind
  BY <1>1, <1>2 DEF QueueShape
<1>6. flow'.kind = "cancel" => \A i \in DOMAIN tail' : tail'[i].kind # "start"
  BY <1>1, <1>2 DEF QueueShape
<1>7. flow' \in [kind : Kinds, arg : Args, pc : Pcs] /\ flow'.pc \in PcsOf(flow'.kind)
  <2>1. Head(tail).kind \in Kinds /\ Head(tail).arg \in Args
    BY <1>1 DEF Operations
  <2>2. \A k \in Kinds : "load" \in PcsOf(k)
    BY PcsKnown
  <2>3. flow' \in [kind : Kinds, arg : Args, pc : Pcs]
    <3>1. flow' = [kind |-> Head(tail).kind, arg |-> Head(tail).arg, pc |-> "load"]
      OBVIOUS
    <3> QED BY ONLY <2>1, <3>1 DEF Pcs
  <2> QED BY <1>2, <2>2, <2>3, <2>1
<1>8. \A k \in Kinds : Asked(k)' => Asked(k)
  BY <1>1, <1>2 DEF Asked
<1> QED BY <1>1, <1>2, <1>3, <1>4, <1>5, <1>6, <1>7, <1>8 DEF QueueShape

LEMMA FlowGoes ==
  ASSUME QueueShape, flow # SignIn!NoFlow, UNCHANGED tail, NEW pc \in PcsOf(flow.kind),
         flow' = [flow EXCEPT !.pc = pc]
  PROVE  /\ QueueShape' /\ flow'.kind = flow.kind /\ flow'.arg = flow.arg /\ flow'.pc = pc
         /\ \A k \in Kinds : Asked(k)' <=> Asked(k)
<1>1. flow \in [kind : Kinds, arg : Args, pc : Pcs]
  BY DEF QueueShape
<1>2. flow' \in [kind : Kinds, arg : Args, pc : Pcs] /\ flow'.kind = flow.kind /\ flow'.arg = flow.arg
      /\ flow'.pc = pc
  <2>1. pc \in Pcs
    BY PcsKnown DEF QueueShape
  <2> QED BY <1>1, <2>1
<1> QED BY <1>2 DEF QueueShape, Asked

LEMMA FlowEnds ==
  ASSUME QueueShape, flow' = SignIn!NoFlow, UNCHANGED tail
  PROVE  /\ QueueShape'
         /\ \A k \in Kinds : Asked(k)' => Asked(k)
         /\ \A k \in Kinds \ {"expire"} : flow.kind = k => ~Asked(k)'
         /\ flow.kind = "cancel" => ~Asked("start")'
<1>1. flow'.kind = "none"
  BY DEF SignIn!NoFlow
<1>2. \A i \in DOMAIN tail : tail[i].kind \in Kinds
  <2>1. \A i \in DOMAIN tail : tail[i] \in Operations
    BY DEF QueueShape
  <2> QED BY <2>1 DEF Operations
<1>3. \A i \in DOMAIN tail : tail[i].kind # flow'.kind
  BY <1>1, <1>2 DEF Kinds
<1>4. QueueShape'
  BY <1>1, <1>3 DEF QueueShape
<1>5. \A k \in Kinds : Asked(k)' => \E i \in DOMAIN tail : tail[i].kind = k
  BY <1>1 DEF Asked, Kinds
<1>6. \A k \in Kinds \ {"expire"} : flow.kind = k => ~Asked(k)'
  BY <1>5 DEF QueueShape
<1>7. flow.kind = "cancel" => ~Asked("start")'
  BY <1>5 DEF QueueShape, Kinds
<1> QED BY <1>4, <1>5, <1>6, <1>7 DEF Asked

(* Steps of the running operation that make no record.                       *)
LEMMA FlowStepKeeps ==
  ASSUME SignInv, flow # SignIn!NoFlow, NEW pc \in PcsOf(flow.kind), pc # "open",
         flow' = [flow EXCEPT !.pc = pc], UNCHANGED <<tail, SignIn!mainVars, fence, attempts, expired, exchanged,
                                                      superseded, given, crashes, signedIn>>,
         opened' \subseteq 1..attempts, file' \in {file, 0}, pending' \in {0, file'},
         initialized' => pending' = file',
         flow.kind = "cancel" /\ pc = "done" => file' = 0,
         flow.kind = "callback" /\ pc = "clear" => pending' = flow.arg.attempt,
         flow.kind = "callback" /\ pc = "handoff" => pending # 0 /\ pending = flow.arg.attempt /\ file' = 0
  PROVE  SignInv'
<1>0. /\ UNCHANGED <<intent, pendingIntent, fenced, cancel, retry, tasks, callbacks, drain, running>>
  BY DEF SignIn!mainVars
<1>1. /\ QueueShape' /\ flow'.kind = flow.kind /\ flow'.arg = flow.arg /\ flow'.pc = pc
      /\ \A k \in Kinds : Asked(k)' <=> Asked(k)
  BY FlowGoes DEF SignInv
<1>2. SignTypes'
  BY <1>0 DEF SignInv, SignTypes
<1>3. TaskTypes' /\ DrainTypes'
  BY <1>0 DEF SignInv, TaskTypes, DrainTypes
<1>4. QueueOwners'
  BY <1>0, <1>1 DEF SignInv, QueueOwners, CallbackAsked, Kinds
<1>5. RecordShape'
  <2>1. file' \notin exchanged /\ (file' \in superseded => fence)
    BY DEF SignInv, RecordShape, SignTypes
  <2> QED BY <1>1, <2>1 DEF RecordShape
<1>6. FenceShape'
  BY <1>0, <1>1 DEF SignInv, FenceShape, Kinds
<1>7. IntentShape' /\ StartShape'
  BY <1>0 DEF SignInv, IntentShape, StartShape
<1>8. 0 \notin given /\ 0 \notin superseded /\ 0 \notin exchanged
  BY DEF SignInv, SignTypes
<1>9. \A a : Consumable(a) => Consumable(a)'
  BY <1>0, <1>8 DEF Consumable
<1>10. flow.kind = "callback" => drain.pc = "flow" /\ flow.arg.attempt = drain.attempt
  BY DEF SignInv, QueueOwners, CallbackAsked, Asked
<1>11. flow'.kind = "callback" /\ flow'.pc = "handoff" => Consumable(flow.arg.attempt)'
  <2> SUFFICES ASSUME flow.kind = "callback", pc = "handoff" PROVE Consumable(flow.arg.attempt)'
    BY <1>1
  <2>1. pending # 0 /\ pending = flow.arg.attempt /\ file' = 0 /\ pending = file
    BY DEF SignInv, SignTypes
  <2>2. file \in 1..attempts /\ file \notin exchanged
    BY <2>1 DEF SignInv, SignTypes, RecordShape
  <2>3. drain.intent = intent => file \notin given /\ file \notin superseded
    BY <1>10 DEF SignInv, FreshShape
  <2>4. flow'.arg.attempt = file /\ file' # file /\ attempts' = attempts
    BY <1>1, <2>1
  <2> QED BY <1>0, <2>2, <2>3, <2>4 DEF Consumable
<1>12. FreshShape'
  BY <1>0, <1>1, <1>8, <1>9, <1>11 DEF SignInv, FreshShape
<1> QED BY <1>1, <1>2, <1>3, <1>4, <1>5, <1>6, <1>7, <1>12 DEF SignInv

LEMMA LoadsKeeps ==
  ASSUME SignInv, SignIn!FlowLoads
  PROVE  SignInv'
<1>1. flow.pc = "load" /\ flow # SignIn!NoFlow /\ flow.kind \in Kinds
  BY DEF SignIn!FlowLoads, SignIn!NoFlow, SignInv, QueueShape
<1>2. pending \in {0, file} /\ (initialized => pending = file) /\ opened \subseteq 1..attempts
  BY DEF SignInv, SignTypes, RecordShape
<1>3. PICK pc \in {"failed", "lapsing", "done", "clear", "save", "match"} :
        /\ flow' = [flow EXCEPT !.pc = pc]
        /\ pc \in PcsOf(flow.kind) /\ pc # "open"
        /\ pending' \in {0, file}
        /\ initialized' => pending' = file
        /\ flow.kind = "cancel" /\ pc = "done" => file = 0
        /\ flow.kind = "callback" => pc # "clear"
  BY <1>1, <1>2 DEF SignIn!FlowLoads, SignIn!FlowGoto, PcsOf, Kinds
<1>4. /\ UNCHANGED <<tail, signedIn, file, fence, SignIn!mainVars, attempts, expired, exchanged, superseded,
                     given, crashes,
                     opened>>
  BY DEF SignIn!FlowLoads, SignIn!diskVars, SignIn!histVars
<1> QED BY <1>1, <1>2, <1>3, <1>4, FlowStepKeeps

LEMMA LapsesKeeps ==
  ASSUME SignInv, SignIn!FlowLapses
  PROVE  SignInv'
<1>1. flow.pc = "lapsing" /\ flow # SignIn!NoFlow /\ flow.kind \in Kinds
  BY DEF SignIn!FlowLapses, SignIn!NoFlow, SignInv, QueueShape
<1>2. pending \in {0, file} /\ (initialized => pending = file) /\ opened \subseteq 1..attempts
  BY DEF SignInv, SignTypes, RecordShape
<1>3. PICK pc \in {"failed", "save", "expired", "done"} :
        /\ flow' = [flow EXCEPT !.pc = pc]
        /\ pc \in PcsOf(flow.kind) /\ pc # "open"
        /\ file' \in {0, file} /\ pending' \in {0, file'}
        /\ initialized' => pending' = file'
        /\ pc = "done" => file' = 0
  BY <1>1, <1>2 DEF SignIn!FlowLapses, SignIn!FlowGoto, PcsOf, Kinds
<1>4. /\ UNCHANGED <<tail, signedIn, fence, SignIn!mainVars, attempts, expired, exchanged, superseded, given,
                     crashes,
                     opened>>
  BY DEF SignIn!FlowLapses, SignIn!histVars
<1> QED BY <1>1, <1>2, <1>3, <1>4, FlowStepKeeps

LEMMA MatchesKeeps ==
  ASSUME SignInv, SignIn!FlowMatches
  PROVE  SignInv'
<1>1. flow.pc = "match" /\ flow # SignIn!NoFlow /\ flow.kind \in {"callback", "expire"}
  BY DEF SignIn!FlowMatches, SignIn!NoFlow, SignInv, QueueShape, PcsOf, Kinds
<1>2. pending \in {0, file} /\ (initialized => pending = file) /\ opened \subseteq 1..attempts
  BY DEF SignInv, SignTypes, RecordShape
<1>3. PICK pc \in {"ignored", "clear"} :
        /\ flow' = [flow EXCEPT !.pc = pc]
        /\ pc \in PcsOf(flow.kind) /\ pc # "open"
        /\ pc = "clear" => pending = flow.arg.attempt
  BY <1>1, <1>2 DEF SignIn!FlowMatches, SignIn!FlowGoto, PcsOf
<1>4. /\ UNCHANGED <<tail, signedIn, file, fence, SignIn!mainVars, attempts, expired, exchanged, superseded,
                     given, crashes,
                     opened, pending, initialized>>
  BY DEF SignIn!FlowMatches, SignIn!diskVars, SignIn!histVars
<1> QED BY <1>1, <1>2, <1>3, <1>4, FlowStepKeeps

LEMMA RetiresKeeps ==
  ASSUME SignInv, SignIn!FlowRetires
  PROVE  SignInv'
<1>1. flow.pc = "clear" /\ flow # SignIn!NoFlow /\ flow.kind \in {"start", "callback", "cancel", "expire"}
  BY DEF SignIn!FlowRetires, SignIn!NoFlow, SignInv, QueueShape, PcsOf, Kinds
<1>2. pending \in {0, file} /\ (initialized => pending = file) /\ opened \subseteq 1..attempts
  BY DEF SignInv, SignTypes, RecordShape
<1>3. flow.kind = "callback" => pending = flow.arg.attempt /\ flow.arg.attempt # 0
  <2> SUFFICES ASSUME flow.kind = "callback" PROVE pending = flow.arg.attempt /\ flow.arg.attempt # 0
    OBVIOUS
  <2>1. pending = flow.arg.attempt
    BY <1>1 DEF SignInv, RecordShape
  <2>2. drain.pc = "flow" /\ flow.arg.attempt = drain.attempt
    BY DEF SignInv, QueueOwners, CallbackAsked, Asked
  <2> QED BY <2>1, <2>2 DEF SignInv, DrainTypes, SignIn!Attempts
<1>4. PICK pc \in {"failed", "save", "expired", "refused", "handoff", "done"} :
        /\ flow' = [flow EXCEPT !.pc = pc]
        /\ pc \in PcsOf(flow.kind) /\ pc # "open"
        /\ (file' = 0 /\ pending' = 0) \/ (pc = "failed" /\ UNCHANGED <<file, pending>>)
  BY <1>1, <1>2 DEF SignIn!FlowRetires, SignIn!FlowGoto, PcsOf, SignIn!Retired
<1>5. /\ UNCHANGED <<tail, signedIn, fence, SignIn!mainVars, attempts, expired, exchanged, superseded, given,
                     crashes,
                     opened, initialized>>
  BY DEF SignIn!FlowRetires, SignIn!histVars
<1> QED BY <1>1, <1>2, <1>3, <1>4, <1>5, FlowStepKeeps

LEMMA OpensKeeps ==
  ASSUME SignInv, SignIn!FlowOpens
  PROVE  SignInv'
<1>1. flow.pc = "open" /\ flow # SignIn!NoFlow /\ flow.kind = "start"
  BY DEF SignIn!FlowOpens, SignIn!NoFlow, SignInv, QueueShape, PcsOf, Kinds
<1>2. /\ pending \in {0, file} /\ (initialized => pending = file) /\ opened \subseteq 1..attempts
      /\ pending \in 1..attempts
  BY <1>1 DEF SignInv, SignTypes, RecordShape
<1>3. PICK pc \in {"clear", "done"} :
        /\ flow' = [flow EXCEPT !.pc = pc]
        /\ pc \in PcsOf(flow.kind) /\ pc # "open"
        /\ opened' \in {opened, opened \cup {pending}}
  BY <1>1, <1>2 DEF SignIn!FlowOpens, SignIn!FlowGoto, PcsOf
<1>4. /\ UNCHANGED <<tail, signedIn, file, fence, SignIn!mainVars, attempts, expired, exchanged, superseded,
                     given, crashes,
                     pending, initialized>>
  BY DEF SignIn!FlowOpens, SignIn!diskVars
<1> QED BY <1>1, <1>2, <1>3, <1>4, FlowStepKeeps

LEMMA SignStarts == SignIn!Init => SignInv
<1> SUFFICES ASSUME SignIn!Init PROVE SignInv
  OBVIOUS
<1>1. SignTypes /\ TaskTypes /\ DrainTypes
  BY SignInBounds DEF SignIn!Init, SignTypes, TaskTypes, DrainTypes, SignIn!NoIntent, SignIn!NoTask,
                      SignIn!NoDrain, TaskPcs, DrainPcs
<1>2. QueueShape
  BY DEF SignIn!Init, QueueShape
<1>3. \A k \in Kinds : ~Asked(k)
  BY DEF SignIn!Init, Asked, Kinds, SignIn!NoFlow
<1>4. QueueOwners /\ RecordShape /\ FenceShape
  BY <1>3, SignInBounds DEF SignIn!Init, QueueOwners, CallbackAsked, RecordShape, FenceShape, SignIn!NoFlow,
                            SignIn!NoIntent, SignIn!NoDrain,
     SignIn!NoTask, SignIn!TaskKinds, Kinds
<1>5. IntentShape /\ FreshShape /\ StartShape
  BY SignInBounds DEF SignIn!Init, IntentShape, FreshShape, StartShape, SignIn!NoFlow, SignIn!NoIntent,
                      SignIn!NoDrain, SignIn!NoTask, SignIn!TaskKinds
<1> QED BY <1>1, <1>2, <1>4, <1>5 DEF SignInv

LEMMA QueueQuiet ==
  ASSUME QueueShape, UNCHANGED <<flow, tail>>
  PROVE  QueueShape' /\ \A k \in Kinds : Asked(k)' <=> Asked(k)
BY DEF QueueShape, Asked

LEMMA FlowStartsKeeps ==
  ASSUME SignInv, SignIn!FlowStarts
  PROVE  SignInv'
<1>1. /\ flow = SignIn!NoFlow /\ tail # <<>> /\ tail' = Tail(tail)
      /\ flow' = [kind |-> Head(tail).kind, arg |-> Head(tail).arg, pc |-> "load"]
      /\ UNCHANGED <<pending, initialized, signedIn, file, fence, attempts, opened, expired, exchanged, superseded,
                     given, crashes, intent, pendingIntent, fenced, cancel, retry, tasks, callbacks, drain,
                     running>>
  BY DEF SignIn!FlowStarts, SignIn!diskVars, SignIn!mainVars, SignIn!histVars
<1>2. /\ QueueShape'
      /\ \A k \in Kinds : Asked(k)' => Asked(k)
      /\ flow'.kind = tail[1].kind /\ flow'.arg = tail[1].arg /\ 1 \in DOMAIN tail
      /\ \A i \in DOMAIN tail' : i + 1 \in DOMAIN tail /\ tail'[i] = tail[i + 1]
  BY <1>1, QueueStarts DEF SignInv
<1>3. flow'.pc = "load"
  BY <1>1
<1>4. SignTypes' /\ TaskTypes' /\ DrainTypes'
  BY <1>1 DEF SignInv, SignTypes, TaskTypes, DrainTypes
<1>5. QueueOwners'
  BY <1>1, <1>2 DEF SignInv, QueueOwners, CallbackAsked, Kinds
<1>6. RecordShape'
  BY <1>1, <1>3 DEF SignInv, RecordShape
<1>7. FenceShape'
  BY <1>1, <1>2 DEF SignInv, FenceShape, Kinds
<1>8. IntentShape' /\ StartShape'
  BY <1>1 DEF SignInv, IntentShape, StartShape
<1>9. FreshShape'
  BY <1>1, <1>3 DEF SignInv, FreshShape, Consumable
<1> QED BY <1>2, <1>4, <1>5, <1>6, <1>7, <1>8, <1>9 DEF SignInv

LEMMA EndsQuietlyKeeps ==
  ASSUME SignInv, SignIn!FlowEndsQuietly
  PROVE  SignInv'
<1>1. /\ flow' = SignIn!NoFlow /\ flow # SignIn!NoFlow /\ UNCHANGED <<tail, pending, initialized, signedIn,
                                                                      file, fence, attempts,
                                                                      opened, expired, exchanged, superseded,
                                                                      given, crashes,
                                                                      intent, pendingIntent, fenced, cancel,
                                                                      retry, tasks,
                                                                      callbacks, drain, running>>
  BY DEF SignIn!FlowEndsQuietly, SignIn!diskVars, SignIn!mainVars, SignIn!histVars, SignIn!NoFlow
<1>2. QueueShape' /\ \A k \in Kinds : Asked(k)' => Asked(k)
  BY <1>1, FlowEnds DEF SignInv
<1>3. flow'.kind = "none" /\ flow'.pc = "none"
  BY <1>1 DEF SignIn!NoFlow
<1>4. SignTypes' /\ TaskTypes' /\ DrainTypes'
  BY <1>1 DEF SignInv, SignTypes, TaskTypes, DrainTypes
<1>5. QueueOwners'
  BY <1>1, <1>2, <1>3 DEF SignInv, QueueOwners, CallbackAsked, Kinds
<1>6. RecordShape'
  BY <1>1, <1>3 DEF SignInv, RecordShape
<1>7. FenceShape'
  BY <1>1, <1>2 DEF SignInv, FenceShape, Kinds
<1>8. IntentShape' /\ StartShape'
  BY <1>1 DEF SignInv, IntentShape, StartShape
<1>9. FreshShape'
  BY <1>1, <1>3 DEF SignInv, FreshShape, Consumable
<1> QED BY <1>2, <1>4, <1>5, <1>6, <1>7, <1>8, <1>9 DEF SignInv

LEMMA ExpiresKeeps ==
  ASSUME SignInv, NEW a \in SignIn!Attempts, SignIn!Expires(a)
  PROVE  SignInv'
<1> DEFINE op == [kind |-> "expire", arg |-> [attempt |-> a, kind |-> "code"]]
<1>1. /\ a \in 1..attempts /\ expired' = expired \cup {a}
      /\ (pending = a /\ tail' = Append(tail, op)) \/ UNCHANGED tail
      /\ UNCHANGED <<flow, pending, initialized, signedIn, file, fence, attempts, opened, exchanged, superseded,
                     given, crashes, intent, pendingIntent, fenced, cancel, retry, tasks, callbacks, drain,
                     running>>
  BY DEF SignIn!Expires, SignIn!Queue, SignIn!diskVars, SignIn!mainVars
<1>2. op \in Operations /\ op.kind = "expire"
  BY <1>1, SignInBounds DEF Operations, Args, Kinds, SignInv, SignTypes
<1> HIDE DEF op
<1>3. /\ QueueShape' /\ \A k \in Kinds \ {"expire"} : Asked(k)' => Asked(k)
      /\ \A i \in DOMAIN tail' : tail'[i] = op \/ (i \in DOMAIN tail /\ tail'[i] = tail[i])
  <2>1. CASE UNCHANGED tail
    BY <1>1, <2>1, QueueQuiet DEF SignInv
  <2>2. CASE tail' = Append(tail, op)
    BY <1>1, <1>2, <2>2, QueueAppends DEF SignInv
  <2> QED BY <1>1, <2>1, <2>2
<1>4. SignTypes' /\ TaskTypes' /\ DrainTypes'
  BY <1>1 DEF SignInv, SignTypes, TaskTypes, DrainTypes
<1>5. QueueOwners'
  BY <1>1, <1>2, <1>3 DEF SignInv, QueueOwners, CallbackAsked, Kinds
<1>6. RecordShape'
  BY <1>1 DEF SignInv, RecordShape
<1>7. FenceShape'
  BY <1>1, <1>3 DEF SignInv, FenceShape, Kinds
<1>8. IntentShape' /\ StartShape'
  BY <1>1 DEF SignInv, IntentShape, StartShape
<1>9. FreshShape'
  BY <1>1 DEF SignInv, FreshShape, Consumable
<1> QED BY <1>3, <1>4, <1>5, <1>6, <1>7, <1>8, <1>9 DEF SignInv

LEMMA SavesKeeps ==
  ASSUME SignInv, SignIn!FlowSaves
  PROVE  SignInv'
<1>1. flow.pc = "save" /\ flow # SignIn!NoFlow /\ flow.kind = "start" /\ attempts < MaxAttempts
  BY DEF SignIn!FlowSaves, SignIn!NoFlow, SignInv, QueueShape, PcsOf, Kinds
<1>2. /\ UNCHANGED <<tail, initialized, signedIn, fence, opened, exchanged, expired, superseded, crashes,
                     SignIn!mainVars,
                     intent, pendingIntent, fenced, cancel, retry, tasks, callbacks, drain, running>>
  BY DEF SignIn!FlowSaves, SignIn!mainVars
<1>3. pending \in {0, file} /\ (initialized => pending = file) /\ opened \subseteq 1..attempts
  BY DEF SignInv, SignTypes, RecordShape
<1>4. CASE flow' = [flow EXCEPT !.pc = "failed"] /\ UNCHANGED <<file, pending, attempts, given>>
  <2>1. "failed" \in PcsOf(flow.kind)
    BY <1>1 DEF PcsOf
  <2> QED BY <1>1, <1>2, <1>3, <1>4, <2>1, FlowStepKeeps
<1>5. CASE ~(flow' = [flow EXCEPT !.pc = "failed"] /\ UNCHANGED <<file, pending, attempts, given>>)
  <2> DEFINE n == attempts + 1
  <2>1. /\ attempts' = n /\ file' = n /\ pending' = n
        /\ given' = IF tasks["start"].intent # intent THEN given \cup {n} ELSE given
        /\ flow' = [flow EXCEPT !.pc = "open", !.arg.attempt = n]
    BY <1>5 DEF SignIn!FlowSaves, SignIn!FlowGoto
  <2>2. n \in Nat /\ attempts \in Nat /\ n # 0 /\ 1..attempts \subseteq 1..n /\ n \notin 1..attempts
        /\ n \in 1..n /\ n <= MaxAttempts
    BY <1>1, SignInBounds DEF SignInv, SignTypes
  <2>3. flow \in [kind : Kinds, arg : Args, pc : Pcs]
    BY <1>1 DEF SignInv, QueueShape
  <2> HIDE DEF n
  <2>4. /\ flow' \in [kind : Kinds, arg : Args, pc : Pcs] /\ flow'.kind = "start" /\ flow'.pc = "open"
    <3>1. flow.arg \in Args
      BY <2>3
    <3>2. [flow.arg EXCEPT !.attempt = n] \in Args
      BY <2>2, <3>1 DEF Args
    <3> DEFINE g == [flow.arg EXCEPT !.attempt = n]
    <3>3. flow' = [kind |-> flow.kind, arg |-> g, pc |-> "open"]
      BY <2>1, <2>3
    <3>4. g \in Args
      BY <3>2
    <3> HIDE DEF g
    <3> QED BY <1>1, <2>3, <3>3, <3>4 DEF Pcs
  <2>5. QueueShape'
    BY <1>1, <1>2, <2>4 DEF SignInv, QueueShape, PcsOf
  <2>6. \A k \in Kinds : Asked(k)' <=> Asked(k)
    BY <1>1, <1>2, <2>4 DEF Asked
  <2>7. Asked("start") /\ tasks["start"].pc = "starting"
    BY <1>1 DEF Asked, SignInv, QueueOwners
  <2>8. SignTypes' /\ TaskTypes'
    <3>1. given' \subseteq 1..n
      BY <2>1, <2>2 DEF SignInv, SignTypes
    <3> QED BY <1>2, <2>1, <2>2, <3>1 DEF SignInv, SignTypes, TaskTypes
  <2>9. DrainTypes' /\ StartShape' /\ IntentShape'
    BY <1>1, <1>2, <2>7 DEF SignInv, DrainTypes, StartShape, IntentShape, SignIn!TaskKinds
  <2>10. QueueOwners'
    BY <1>1, <1>2, <2>4, <2>6 DEF SignInv, QueueOwners, CallbackAsked, Kinds
  <2>11. n \notin exchanged /\ n \notin superseded /\ n \notin given
    BY <2>2 DEF SignInv, SignTypes
  <2>12. RecordShape'
    BY <1>2, <2>1, <2>2, <2>4, <2>11 DEF RecordShape
  <2>13. FenceShape'
    BY <1>2, <2>6, <2>7 DEF SignInv, FenceShape, Kinds
  <2>14. pendingIntent = intent => n \notin given'
    BY <2>1, <2>7, <2>11 DEF SignInv, IntentShape
  <2>15. drain.pc # "idle" /\ drain.intent = intent => n \notin given'
    BY <2>1, <2>7, <2>11 DEF SignInv, IntentShape
  <2>16. \A b : Consumable(b) => Consumable(b)'
    BY <1>2, <2>1, <2>2 DEF Consumable
  <2>17. FreshShape'
    BY <1>2, <2>1, <2>4, <2>11, <2>14, <2>15, <2>16 DEF SignInv, FreshShape
  <2> QED BY <2>5, <2>8, <2>9, <2>10, <2>12, <2>13, <2>17 DEF SignInv
<1> QED BY <1>4, <1>5

\* no intent is the mark of its absence
LEMMA Bounded ==
  ASSUME SignInv
  PROVE  /\ intent \in Nat /\ SignIn!NoIntent \in Nat /\ intent < SignIn!NoIntent /\ pendingIntent \in Nat
         /\ 0 \notin given /\ 0 \notin superseded /\ 0 \notin exchanged /\ attempts \in Nat
<1>1. crashes \in 0..MaxCrashes /\ intent \in 0..(MaxIntents + crashes) /\ attempts \in 0..MaxAttempts
      /\ pendingIntent \in (0..intent) \cup {SignIn!NoIntent}
      /\ exchanged \subseteq 1..attempts /\ given \subseteq 1..attempts /\ superseded \subseteq 1..attempts
  BY DEF SignInv, SignTypes
<1>2. intent \in Nat /\ SignIn!NoIntent \in Nat /\ intent < SignIn!NoIntent /\ attempts \in Nat
  BY <1>1, SignInBounds DEF SignIn!NoIntent
<1> QED BY <1>1, <1>2

(* The callers of a cancellation when it ends.                               *)
LEMMA ResumedKeeps ==
  ASSUME TaskTypes, intent \in Nat, UNCHANGED intent, NEW ok, tasks' = SignIn!Resumed(tasks, ok)
  PROVE  /\ TaskTypes'
         /\ \A k \in SignIn!TaskKinds : \/ tasks'[k] = tasks[k] /\ tasks[k].pc # "cancelling"
                                        \/ tasks'[k].pc = "none" /\ k = "start" /\ ~ok /\ tasks[k].pc = "cancelling"
                                        \/ /\ tasks'[k].pc = "cancelled" /\ tasks'[k].intent = tasks[k].intent
                                           /\ tasks[k].pc = "cancelling" /\ (k = "start" => ok)
<1>2. DOMAIN tasks' = SignIn!TaskKinds /\ tasks' = [k \in SignIn!TaskKinds |-> tasks'[k]]
  BY DEF SignIn!Resumed
<1>3. ASSUME NEW k \in SignIn!TaskKinds
      PROVE  /\ tasks'[k] \in [pc : TaskPcs, intent : Nat] /\ tasks'[k].intent \in 0..intent
             /\ \/ tasks'[k] = tasks[k] /\ tasks[k].pc # "cancelling"
                \/ tasks'[k].pc = "none" /\ k = "start" /\ ~ok /\ tasks[k].pc = "cancelling"
                \/ /\ tasks'[k].pc = "cancelled" /\ tasks'[k].intent = tasks[k].intent
                   /\ tasks[k].pc = "cancelling" /\ (k = "start" => ok)
  <2> DEFINE t == tasks[k]
             u == tasks'[k]
  <2>1. t \in [pc : TaskPcs, intent : Nat] /\ t.intent \in 0..intent
    BY <1>3 DEF TaskTypes
  <2>2. \/ u = t /\ t.pc # "cancelling"
        \/ u = SignIn!NoTask /\ k = "start" /\ ~ok /\ t.pc = "cancelling"
        \/ u = [t EXCEPT !.pc = "cancelled"] /\ t.pc = "cancelling" /\ (k = "start" => ok)
    BY <1>3 DEF SignIn!Resumed
  <2>3. intent \in Nat
    OBVIOUS
  <2> HIDE DEF t, u
  <2>4. CASE u = t /\ t.pc # "cancelling"
    BY <2>1, <2>4 DEF t, u
  <2>5. CASE u = SignIn!NoTask /\ k = "start" /\ ~ok /\ t.pc = "cancelling"
    <3>1. u \in [pc : TaskPcs, intent : Nat] /\ u.intent \in 0..intent /\ u.pc = "none"
      BY ONLY <2>3, <2>5 DEF SignIn!NoTask, TaskPcs
    <3> QED BY <2>5, <3>1 DEF t, u
  <2>6. CASE u = [t EXCEPT !.pc = "cancelled"] /\ t.pc = "cancelling" /\ (k = "start" => ok)
    <3>1. u \in [pc : TaskPcs, intent : Nat] /\ u.intent = t.intent /\ u.pc = "cancelled"
      BY ONLY <2>1, <2>6 DEF TaskPcs
    <3> QED BY <2>1, <2>6, <3>1 DEF t, u
  <2> QED BY <2>2, <2>4, <2>5, <2>6
<1> QED BY <1>2, <1>3 DEF TaskTypes

(* A cancellation that fails keeps the fence.                                *)
LEMMA FailsKeeps ==
  ASSUME SignInv, cancel # "none", SignIn!CancelFails, cancel = "flow" => ~Asked("cancel")',
         QueueShape', \A k \in Kinds : Asked(k)' => Asked(k),
         (UNCHANGED <<flow, tail>>) \/ (flow' = SignIn!NoFlow /\ UNCHANGED tail),
         UNCHANGED <<pending, initialized, signedIn, file, fence, attempts, opened, expired, exchanged, superseded,
                     given, crashes, intent, pendingIntent, fenced, callbacks, drain>>
  PROVE  SignInv'
<1>1. cancel' = "none" /\ tasks' = SignIn!Resumed(tasks, FALSE)
      /\ running' = IF running = "starting" THEN "restoring" ELSE running
  BY DEF SignIn!CancelFails, SignIn!CancelEnds
<1>2. fenced /\ intent \in Nat /\ running # "no"
  BY Bounded DEF SignInv, FenceShape, StartShape
<1>3. TaskTypes' /\ \A k \in SignIn!TaskKinds : \/ tasks'[k] = tasks[k] /\ tasks[k].pc # "cancelling"
                                                \/ tasks'[k].pc = "none" /\ k = "start"
                                                     /\ tasks[k].pc = "cancelling"
                                                \/ /\ tasks'[k].pc = "cancelled"
                                                        /\ tasks'[k].intent = tasks[k].intent
                                                   /\ tasks[k].pc = "cancelling" /\ k # "start"
  BY <1>1, <1>2, ResumedKeeps DEF SignInv
<1>4. tasks'["start"] = tasks["start"] \/ (tasks'["start"].pc = "none" /\ tasks["start"].pc # "starting")
  BY <1>3 DEF SignIn!TaskKinds
<1>5. SignTypes' /\ DrainTypes'
  BY <1>1 DEF SignInv, SignTypes, DrainTypes
<1>6. flow' = flow \/ (flow'.kind = "none" /\ flow'.pc = "none")
  BY DEF SignIn!NoFlow
<1>7. QueueOwners'
  <2>1. ~Asked("init")' /\ ~Asked("cancel")'
    BY <1>2 DEF SignInv, QueueOwners, Kinds
  <2>2. Asked("start")' => tasks'["start"].pc = "starting"
    BY <1>4 DEF SignInv, QueueOwners, Kinds
  <2>3. CallbackAsked'
    BY <1>6 DEF SignInv, QueueOwners, CallbackAsked, Kinds
  <2> QED BY <2>1, <2>2, <2>3 DEF QueueOwners
<1>8. RecordShape'
  BY <1>6 DEF SignInv, RecordShape
<1>9. FenceShape'
  BY <1>1, <1>2, <1>4 DEF SignInv, FenceShape
<1>10. IntentShape'
  BY <1>4 DEF SignInv, IntentShape
<1>11. StartShape'
  <2>1. running' # "yes" => running # "yes"
    BY <1>1
  <2>2. running # "yes" => \A k \in SignIn!TaskKinds : tasks'[k].pc = "none"
    BY <1>3 DEF SignInv, StartShape
  <2>3. running' \in {"no", "starting"} => running = "no"
    BY <1>1
  <2> QED BY <1>2, <2>1, <2>2, <2>3 DEF SignInv, StartShape
<1>12. FreshShape'
  BY <1>6 DEF SignInv, FreshShape, Consumable
<1> QED BY <1>3, <1>5, <1>7, <1>8, <1>9, <1>10, <1>11, <1>12 DEF SignInv

LEMMA CancelArmsKeeps ==
  ASSUME SignInv, SignIn!CancelArms
  PROVE  SignInv'
<1> DEFINE op == [kind |-> "cancel", arg |-> SignIn!NoArg]
<1>1. cancel = "arm"
      /\ UNCHANGED <<pending, initialized, flow, file, intent, pendingIntent, fenced, callbacks, drain, attempts,
                     opened, expired, exchanged, given, crashes, signedIn>>
  BY DEF SignIn!CancelArms
<1>2. fenced /\ running # "no" /\ ~Asked("cancel") /\ ~Asked("init")
  BY <1>1 DEF SignInv, FenceShape, StartShape, QueueOwners, Kinds
<1>3. CASE SignIn!CancelFails /\ UNCHANGED <<fence, superseded, tail>>
  <2>1. QueueShape' /\ \A k \in Kinds : Asked(k)' => Asked(k)
    BY <1>1, <1>3, QueueQuiet DEF SignInv
  <2> QED BY <1>1, <1>2, <1>3, <2>1, FailsKeeps DEF Kinds
<1>4. CASE ~(SignIn!CancelFails /\ UNCHANGED <<fence, superseded, tail>>)
  <2>1. /\ fence' = TRUE /\ superseded' = superseded \cup 1..attempts /\ cancel' = "flow"
        /\ tail' = Append(tail, op) /\ UNCHANGED <<retry, tasks, running>>
    BY <1>4 DEF SignIn!CancelArms, SignIn!Queue
  <2>2. op \in Operations /\ op.kind = "cancel"
    BY DEF Operations, Args, Kinds, SignIn!NoArg
  <2> HIDE DEF op
  <2>3. /\ QueueShape' /\ \A k \in Kinds : Asked(k)' => Asked(k) \/ k = "cancel"
        /\ \A i \in DOMAIN tail' : tail'[i] = op \/ (i \in DOMAIN tail /\ tail'[i] = tail[i])
    BY <1>1, <1>2, <2>1, <2>2, QueueAppends DEF SignInv
  <2>4. SignTypes' /\ TaskTypes' /\ DrainTypes'
    BY <1>1, <2>1 DEF SignInv, SignTypes, TaskTypes, DrainTypes
  <2>5. QueueOwners'
    BY <1>1, <1>2, <2>1, <2>2, <2>3 DEF SignInv, QueueOwners, CallbackAsked, Kinds
  <2>6. RecordShape'
    BY <1>1, <2>1 DEF SignInv, RecordShape
  <2>7. FenceShape'
    BY <1>1, <1>2, <2>1, <2>3 DEF SignInv, FenceShape
  <2>8. IntentShape' /\ StartShape'
    BY <1>1, <1>2, <2>1 DEF SignInv, IntentShape, StartShape
  <2>10. drain.pc # "idle" => drain.intent # intent /\ pendingIntent # intent
    BY <1>2 DEF SignInv, FenceShape
  <2>11. flow.kind = "callback" => drain.pc = "flow"
    BY DEF SignInv, QueueOwners, CallbackAsked, Asked
  <2>12. FreshShape'
    <3>1. pendingIntent # intent
      BY <1>2 DEF SignInv, FenceShape
    <3>2. flow.kind = "callback" /\ flow.pc = "handoff" => Consumable(flow.arg.attempt)'
      BY <1>1, <2>1, <2>10, <2>11 DEF SignInv, FreshShape, Consumable
    <3>3. drain.pc \in {"confirm", "exchange"} => Consumable(drain.attempt)'
      BY <1>1, <2>1, <2>10 DEF SignInv, FreshShape, Consumable
    <3> QED BY <1>1, <2>10, <3>1, <3>2, <3>3 DEF FreshShape
  <2> QED BY <2>3, <2>4, <2>5, <2>6, <2>7, <2>8, <2>12 DEF SignInv
<1> QED BY <1>3, <1>4

LEMMA CancelFlowEndsKeeps ==
  ASSUME SignInv, SignIn!CancelFlowEnds
  PROVE  SignInv'
<1>1. cancel = "flow" /\ flow.kind = "cancel" /\ flow' = SignIn!NoFlow
      /\ flow.pc \in {"ignored", "done", "failed", "expired", "refused", "handoff"}
      /\ UNCHANGED <<pending, initialized, tail, file, fence, intent, fenced, callbacks, drain, attempts, opened,
                     expired, exchanged, superseded, given, crashes, signedIn>>
  BY DEF SignIn!CancelFlowEnds, SignIn!diskVars, SignIn!histVars, SignIn!FlowDone
<1>2. QueueShape' /\ (\A k \in Kinds : Asked(k)' => Asked(k)) /\ ~Asked("cancel")' /\ ~Asked("start")'
  BY <1>1, FlowEnds DEF SignInv, Kinds
<1>3. flow'.kind = "none" /\ flow'.pc = "none"
  BY <1>1 DEF SignIn!NoFlow
<1>4. CASE flow.pc = "failed"
  <2>1. SignIn!CancelFails /\ UNCHANGED pendingIntent
    BY <1>4 DEF SignIn!CancelFlowEnds
  <2> QED BY <1>1, <1>2, <2>1, FailsKeeps
<1>5. CASE flow.pc # "failed"
  <2>1. /\ cancel' = "clear" /\ pendingIntent' = SignIn!NoIntent
        /\ UNCHANGED <<retry, tasks, running>>
    BY <1>5 DEF SignIn!CancelFlowEnds
  <2>2. flow # SignIn!NoFlow
    BY <1>1 DEF SignIn!NoFlow
  <2>3. flow.pc = "done"
    BY <1>1, <1>5, <2>2 DEF SignInv, QueueShape, PcsOf
  <2>4. file = 0 /\ fenced /\ running # "no"
    BY <1>1, <2>3 DEF SignInv, RecordShape, FenceShape, StartShape
  <2>5. SignIn!NoIntent # intent /\ SignIn!NoIntent \in Nat
    BY Bounded
  <2>6. SignTypes' /\ TaskTypes' /\ DrainTypes'
    BY <1>1, <2>1 DEF SignInv, SignTypes, TaskTypes, DrainTypes
  <2>7. QueueOwners'
    BY <1>1, <1>2, <1>3, <2>1 DEF SignInv, QueueOwners, CallbackAsked, Kinds
  <2>8. RecordShape'
    BY <1>1, <1>3 DEF SignInv, RecordShape
  <2>9. FenceShape'
    BY <1>1, <1>2, <2>1, <2>4, <2>5 DEF SignInv, FenceShape
  <2>10. IntentShape' /\ StartShape'
    BY <1>1, <2>1, <2>4, <2>5 DEF SignInv, IntentShape, StartShape
  <2>11. FreshShape'
    BY <1>1, <1>3, <2>1, <2>5 DEF SignInv, FreshShape, Consumable
  <2> QED BY <1>2, <2>6, <2>7, <2>8, <2>9, <2>10, <2>11 DEF SignInv
<1> QED BY <1>4, <1>5

LEMMA CancelClearsKeeps ==
  ASSUME SignInv, SignIn!CancelClears
  PROVE  SignInv'
<1>1. cancel = "clear"
      /\ UNCHANGED <<pending, initialized, flow, tail, file, intent, pendingIntent, callbacks, drain, attempts,
                     opened, expired, exchanged, superseded, given, crashes, signedIn>>
  BY DEF SignIn!CancelClears, SignIn!flowVars, SignIn!histVars
<1>2. QueueShape' /\ \A k \in Kinds : Asked(k)' <=> Asked(k)
  BY <1>1, QueueQuiet DEF SignInv
<1>3. CASE SignIn!CancelFails /\ UNCHANGED <<fence, fenced>>
  BY <1>1, <1>2, <1>3, FailsKeeps
<1>4. CASE ~(SignIn!CancelFails /\ UNCHANGED <<fence, fenced>>)
  <2>1. /\ fence' = FALSE /\ fenced' = FALSE /\ retry' = FALSE /\ cancel' = "none"
        /\ tasks' = SignIn!Resumed(tasks, TRUE) /\ running' = IF running = "starting" THEN "restoring" ELSE running
    BY <1>4 DEF SignIn!CancelClears, SignIn!CancelEnds
  <2>2. fenced /\ file = 0 /\ running # "no" /\ intent \in Nat /\ ~Asked("start")
    BY <1>1, Bounded DEF SignInv, FenceShape, StartShape
  <2>3. TaskTypes' /\ \A k \in SignIn!TaskKinds : \/ tasks'[k] = tasks[k] /\ tasks[k].pc # "cancelling"
                                                  \/ /\ tasks'[k].pc = "cancelled"
                                                          /\ tasks'[k].intent = tasks[k].intent
                                                     /\ tasks[k].pc = "cancelling"
    BY <1>1, <2>1, <2>2, ResumedKeeps DEF SignInv
  <2>4. \/ tasks'["start"] = tasks["start"]
        \/ tasks'["start"].pc = "cancelled" /\ tasks'["start"].intent = tasks["start"].intent
           /\ tasks["start"].pc = "cancelling"
    BY <2>3 DEF SignIn!TaskKinds
  <2>5. SignTypes' /\ DrainTypes'
    BY <1>1, <2>1 DEF SignInv, SignTypes, DrainTypes
  <2>6. ~Asked("init") /\ ~Asked("cancel")
    BY <1>1, <2>2 DEF SignInv, QueueOwners, Kinds
  <2>7. QueueOwners'
    BY <1>1, <1>2, <2>2, <2>6 DEF SignInv, QueueOwners, CallbackAsked, Kinds
  <2>8. 0 \notin superseded
    BY Bounded
  <2>9. RecordShape'
    BY <1>1, <2>1, <2>2, <2>8 DEF SignInv, RecordShape
  <2>10. FenceShape'
    BY <1>1, <2>1, <2>2 DEF SignInv, FenceShape
  <2>11. IntentShape'
    BY <1>1, <2>1, <2>4 DEF SignInv, IntentShape
  <2>12. StartShape'
    BY <1>1, <2>1, <2>2, <2>3 DEF SignInv, StartShape
  <2>13. FreshShape'
    BY <1>1, <2>1 DEF SignInv, FreshShape, Consumable
  <2> QED BY <1>2, <2>3, <2>5, <2>7, <2>9, <2>10, <2>11, <2>12, <2>13 DEF SignInv
<1> QED BY <1>3, <1>4

LEMMA RetriesKeeps ==
  ASSUME SignInv, SignIn!CancelRetries
  PROVE  SignInv'
<1>1. retry /\ retry' = FALSE /\ fenced' = TRUE /\ cancel' = (IF cancel = "none" THEN "arm" ELSE cancel)
      /\ UNCHANGED <<pending, initialized, flow, tail, file, fence, intent, pendingIntent, tasks, callbacks, drain,
                     running, attempts, opened, expired, exchanged, superseded, given, crashes, signedIn>>
  BY DEF SignIn!CancelRetries, SignIn!BeginCancel, SignIn!flowVars, SignIn!diskVars, SignIn!histVars
<1>2. fenced /\ running # "no"
  BY <1>1 DEF SignInv, FenceShape, StartShape
<1>3. QueueShape' /\ \A k \in Kinds : Asked(k)' <=> Asked(k)
  BY <1>1, QueueQuiet DEF SignInv
<1>4. SignTypes' /\ TaskTypes' /\ DrainTypes'
  BY <1>1 DEF SignInv, SignTypes, TaskTypes, DrainTypes
<1>5. QueueOwners'
  BY <1>1, <1>2, <1>3 DEF SignInv, QueueOwners, CallbackAsked, Kinds
<1>6. RecordShape'
  BY <1>1 DEF SignInv, RecordShape
<1>7. FenceShape'
  BY <1>1, <1>2, <1>3 DEF SignInv, FenceShape, Kinds
<1>8. IntentShape' /\ StartShape'
  BY <1>1, <1>2 DEF SignInv, IntentShape, StartShape
<1>9. FreshShape'
  BY <1>1 DEF SignInv, FreshShape, Consumable
<1> QED BY <1>3, <1>4, <1>5, <1>6, <1>7, <1>8, <1>9 DEF SignInv

\* a handler's record replaced
LEMMA TaskReplaced ==
  ASSUME NEW f \in [SignIn!TaskKinds -> [pc : TaskPcs, intent : Nat]], NEW n \in Nat, NEW m \in Nat,
         \A k \in SignIn!TaskKinds : f[k].intent \in 0..n, n <= m,
         NEW j \in SignIn!TaskKinds, NEW t \in [pc : TaskPcs, intent : Nat], t.intent \in 0..m
  PROVE  /\ [f EXCEPT ![j] = t] \in [SignIn!TaskKinds -> [pc : TaskPcs, intent : Nat]]
         /\ \A k \in SignIn!TaskKinds : [f EXCEPT ![j] = t][k].intent \in 0..m
         /\ [f EXCEPT ![j] = t][j] = t /\ \A k \in SignIn!TaskKinds \ {j} : [f EXCEPT ![j] = t][k] = f[k]
OBVIOUS

LEMMA TaskEndsKeeps ==
  ASSUME TaskTypes, intent \in Nat, UNCHANGED intent, NEW j \in SignIn!TaskKinds, SignIn!TaskEnds(j)
  PROVE  /\ TaskTypes' /\ tasks'[j].pc = "none" /\ \A k \in SignIn!TaskKinds \ {j} : tasks'[k] = tasks[k]
<1> DEFINE t == SignIn!NoTask
<1>1. t \in [pc : TaskPcs, intent : Nat] /\ t.intent \in 0..intent /\ t.pc = "none"
  BY DEF SignIn!NoTask, TaskPcs
<1>2. tasks' = [tasks EXCEPT ![j] = t] /\ intent <= intent
  BY DEF SignIn!TaskEnds
<1> HIDE DEF t
<1>3. /\ tasks \in [SignIn!TaskKinds -> [pc : TaskPcs, intent : Nat]]
      /\ \A k \in SignIn!TaskKinds : tasks[k].intent \in 0..intent
  BY DEF TaskTypes
<1> QED BY <1>1, <1>2, <1>3, TaskReplaced DEF TaskTypes

(* A newer intent takes over from whatever was pending.                      *)
LEMMA TakesOver ==
  ASSUME SignInv, intent' = intent + 1, intent' <= MaxIntents + crashes,
         fenced' = TRUE, cancel' = (IF cancel = "none" THEN "arm" ELSE cancel), given' = given \cup 1..attempts,
         TaskTypes', running' = "yes", running # "no",
         \A k \in {"init", "start"} : ~Asked(k) \/ (k = "start" /\ tasks'["start"].pc = "starting"),
         tasks'["start"].pc # "none" => tasks'["start"].intent = intent' \/ tasks'["start"] = tasks["start"],
         tasks'["start"].pc = "cancelled" => tasks'["start"] = tasks["start"],
         UNCHANGED <<pending, initialized, flow, tail, file, fence, pendingIntent, callbacks, drain, attempts,
                     opened, expired, exchanged, superseded, crashes, retry>>
  PROVE  SignInv'
<1>1. /\ intent \in Nat /\ intent + 1 \in Nat /\ intent + 1 # intent /\ intent + 1 # 0 /\ intent' \notin 0..intent
      /\ 0..intent \subseteq 0..intent' /\ intent' \in 0..intent'
  BY Bounded
<1>2. intent' # SignIn!NoIntent
  BY SignInBounds, <1>1 DEF SignIn!NoIntent, SignInv, SignTypes
<1>3. pendingIntent \in (0..intent) \cup {SignIn!NoIntent}
  BY DEF SignInv, SignTypes
<1>4. pendingIntent # intent'
  BY <1>1, <1>2, <1>3
<1>5. drain.pc # "idle" => drain.intent \in (0..intent) \cup {SignIn!NoIntent} /\ drain.intent # intent'
  BY <1>1, <1>2 DEF SignInv, DrainTypes
<1>6. QueueShape' /\ \A k \in Kinds : Asked(k)' <=> Asked(k)
  BY QueueQuiet DEF SignInv
<1>7. SignTypes'
  <2>1. crashes \in 0..MaxCrashes /\ MaxIntents + crashes \in Nat /\ intent' \in 0..(MaxIntents + crashes)
    BY <1>1, SignInBounds DEF SignInv, SignTypes
  <2>2. pendingIntent \in (0..intent') \cup {SignIn!NoIntent}
    BY <1>1, <1>3
  <2> QED BY <2>1, <2>2 DEF SignInv, SignTypes
<1>8. DrainTypes'
  BY <1>1, <1>5 DEF SignInv, DrainTypes
<1>9. QueueOwners'
  BY <1>6 DEF SignInv, QueueOwners, CallbackAsked, Kinds
<1>10. RecordShape'
  BY DEF SignInv, RecordShape
<1>11. \A k \in SignIn!TaskKinds : tasks[k].intent \in 0..intent
  BY DEF SignInv, TaskTypes
<1>12. tasks'["start"].pc = "cancelled" => tasks'["start"].intent # intent'
  BY <1>1, <1>11 DEF SignIn!TaskKinds
<1>13. FenceShape'
  <2>1. cancel' = "clear" => file' = 0 /\ ~Asked("start")'
    BY <1>6 DEF SignInv, FenceShape, Kinds
  <2> QED BY <1>4, <1>5, <1>12, <2>1 DEF FenceShape
<1>14. IntentShape' /\ StartShape'
  BY <1>4, <1>5 DEF SignInv, IntentShape, StartShape
<1>15. flow.kind = "callback" => drain.pc = "flow"
  BY DEF SignInv, QueueOwners, CallbackAsked, Asked
<1>16. FreshShape'
  <2>1. flow.kind = "callback" /\ flow.pc = "handoff" => Consumable(flow.arg.attempt)'
    BY <1>5, <1>15 DEF SignInv, FreshShape, Consumable
  <2>2. drain.pc \in {"confirm", "exchange"} => Consumable(drain.attempt)'
    BY <1>5 DEF SignInv, FreshShape, Consumable
  <2> QED BY <1>4, <1>5, <2>1, <2>2 DEF FreshShape
<1> QED BY <1>6, <1>7, <1>8, <1>9, <1>10, <1>13, <1>14, <1>16 DEF SignInv

LEMMA BeginKeeps ==
  ASSUME SignInv, NEW kind \in SignIn!TaskKinds, SignIn!Begin(kind)
  PROVE  SignInv'
<1> DEFINE t == [pc |-> "cancelling", intent |-> intent + 1]
<1>1. /\ running = "yes" /\ tasks[kind] = SignIn!NoTask /\ intent < MaxIntents /\ intent' = intent + 1
      /\ tasks' = [tasks EXCEPT ![kind] = t]
      /\ fenced' = TRUE /\ cancel' = (IF cancel = "none" THEN "arm" ELSE cancel) /\ given' = given \cup 1..attempts
      /\ UNCHANGED <<pending, initialized, flow, tail, file, fence, pendingIntent, retry, callbacks, drain, running,
                     attempts, opened, expired, exchanged, superseded, crashes, signedIn>>
  BY DEF SignIn!Begin, SignIn!BeginCancel, SignIn!GiveUp, SignIn!flowVars, SignIn!diskVars
<1>2. intent \in Nat /\ intent + 1 \in Nat /\ intent <= intent + 1 /\ intent + 1 \in 0..(intent + 1)
      /\ intent' <= MaxIntents + crashes
  BY <1>1, Bounded, SignInBounds DEF SignInv, SignTypes
<1>3. t \in [pc : TaskPcs, intent : Nat] /\ t.intent \in 0..(intent + 1) /\ t.pc = "cancelling"
        /\ t.intent = intent'
  BY <1>1, <1>2 DEF TaskPcs
<1> HIDE DEF t
<1>4. /\ tasks' \in [SignIn!TaskKinds -> [pc : TaskPcs, intent : Nat]] /\ \A k \in SignIn!TaskKinds :
           tasks'[k].intent \in 0..(intent + 1)
      /\ tasks'[kind] = t /\ \A k \in SignIn!TaskKinds \ {kind} : tasks'[k] = tasks[k]
  BY <1>1, <1>2, <1>3, TaskReplaced DEF SignInv, TaskTypes
<1>5. TaskTypes'
  BY <1>1, <1>4 DEF TaskTypes
<1>6. kind = "start" => tasks["start"].pc = "none"
  BY <1>1 DEF SignIn!NoTask
<1>7. tasks'["start"] = tasks["start"] \/ (tasks'["start"] = t /\ kind = "start")
  BY <1>4 DEF SignIn!TaskKinds
<1>8. \A k \in {"init", "start"} : ~Asked(k) \/ (k = "start" /\ tasks'["start"].pc = "starting")
  BY <1>1, <1>6, <1>7 DEF SignInv, QueueOwners
<1> QED BY <1>1, <1>2, <1>3, <1>5, <1>7, <1>8, TakesOver

LEMMA RestoreKeeps ==
  ASSUME SignInv, SignIn!RestoreEnds
  PROVE  SignInv'
<1>1. /\ running = "restoring" /\ running' = "yes"
      /\ UNCHANGED <<pending, initialized, flow, tail, file, fence, pendingIntent, retry, tasks, callbacks, drain,
                     attempts, opened, expired, exchanged, superseded, crashes, signedIn>>
  BY DEF SignIn!RestoreEnds, SignIn!flowVars, SignIn!diskVars, SignIn!GiveUp, SignIn!histVars
<1>2. ~Asked("init") /\ ~Asked("start") /\ (\A k \in SignIn!TaskKinds : tasks[k].pc = "none") /\ drain.pc = "idle"
  BY <1>1 DEF SignInv, QueueOwners, StartShape, SignIn!TaskKinds
<1>3. CASE signedIn
  <2>1. /\ intent' = intent + 1 /\ fenced' = TRUE /\ cancel' = (IF cancel = "none" THEN "arm" ELSE cancel)
        /\ given' = given \cup 1..attempts
    BY <1>3 DEF SignIn!RestoreEnds, SignIn!BeginCancel, SignIn!GiveUp
  <2>2. intent < MaxIntents + crashes
    BY <1>1, <1>3 DEF SignInv, StartShape
  <2>3. intent \in Nat /\ crashes \in Nat
    BY Bounded DEF SignInv, SignTypes
  <2>4. intent' <= MaxIntents + crashes /\ 0..intent \subseteq 0..intent'
    BY <2>1, <2>2, <2>3, SignInBounds
  <2>5. TaskTypes'
    BY <1>1, <2>4 DEF SignInv, TaskTypes
  <2> QED BY <1>1, <1>2, <2>1, <2>4, <2>5, TakesOver DEF SignIn!TaskKinds
<1>4. CASE ~signedIn
  <2>1. UNCHANGED <<intent, fenced, cancel, given>>
    BY <1>4 DEF SignIn!RestoreEnds, SignIn!histVars
  <2>2. QueueShape' /\ \A k \in Kinds : Asked(k)' <=> Asked(k)
    BY <1>1, QueueQuiet DEF SignInv
  <2>3. SignTypes' /\ TaskTypes' /\ DrainTypes'
    BY <1>1, <2>1 DEF SignInv, SignTypes, TaskTypes, DrainTypes
  <2>4. QueueOwners'
    BY <1>1, <1>2, <2>1, <2>2 DEF SignInv, QueueOwners, CallbackAsked, Kinds
  <2>5. RecordShape'
    BY <1>1 DEF SignInv, RecordShape
  <2>6. FenceShape'
    BY <1>1, <2>1, <2>2 DEF SignInv, FenceShape, Kinds
  <2>7. IntentShape' /\ StartShape'
    BY <1>1, <2>1 DEF SignInv, IntentShape, StartShape
  <2>8. FreshShape'
    BY <1>1, <2>1 DEF SignInv, FreshShape, Consumable
  <2> QED BY <2>2, <2>3, <2>4, <2>5, <2>6, <2>7, <2>8 DEF SignInv
<1> QED BY <1>3, <1>4

LEMMA StartContinuesKeeps ==
  ASSUME SignInv, SignIn!StartContinues
  PROVE  SignInv'
<1> DEFINE op == [kind |-> "start", arg |-> SignIn!NoArg]
<1>1. tasks["start"].pc = "cancelled"
      /\ UNCHANGED <<pending, initialized, flow, file, fence, intent, fenced, cancel, retry, callbacks, drain,
                     running, attempts, opened, expired, exchanged, superseded, given, crashes, signedIn>>
  BY DEF SignIn!StartContinues, SignIn!diskVars, SignIn!histVars
<1>2. running = "yes" /\ ~Asked("start") /\ intent \in Nat
  BY <1>1, Bounded DEF SignInv, QueueOwners, StartShape, SignIn!TaskKinds
<1>3. CASE SignIn!TaskEnds("start") /\ UNCHANGED <<pendingIntent, tail>>
  <2>1. TaskTypes' /\ tasks'["start"].pc = "none" /\ \A k \in SignIn!TaskKinds \ {"start"} : tasks'[k] = tasks[k]
    BY <1>1, <1>2, <1>3, TaskEndsKeeps DEF SignInv, SignIn!TaskKinds
  <2>2. QueueShape' /\ \A k \in Kinds : Asked(k)' <=> Asked(k)
    BY <1>1, <1>3, QueueQuiet DEF SignInv
  <2>3. SignTypes' /\ DrainTypes'
    BY <1>1, <1>3 DEF SignInv, SignTypes, DrainTypes
  <2>4. QueueOwners'
    BY <1>1, <1>2, <1>3, <2>2 DEF SignInv, QueueOwners, CallbackAsked, Kinds
  <2>5. RecordShape'
    BY <1>1 DEF SignInv, RecordShape
  <2>6. FenceShape'
    BY <1>1, <1>3, <2>1, <2>2 DEF SignInv, FenceShape, Kinds
  <2>7. IntentShape' /\ StartShape'
    BY <1>1, <1>2, <2>1 DEF SignInv, IntentShape, StartShape
  <2>8. FreshShape'
    BY <1>1, <1>3 DEF SignInv, FreshShape, Consumable
  <2> QED BY <2>1, <2>2, <2>3, <2>4, <2>5, <2>6, <2>7, <2>8 DEF SignInv
<1>4. CASE ~(SignIn!TaskEnds("start") /\ UNCHANGED <<pendingIntent, tail>>)
  <2>1. /\ tasks["start"].intent = intent /\ pendingIntent' = intent /\ tail' = Append(tail, op)
        /\ tasks' = [tasks EXCEPT !["start"].pc = "starting"]
    BY <1>4 DEF SignIn!StartContinues, SignIn!Queue
  <2>2. op \in Operations /\ op.kind = "start"
    BY DEF Operations, Args, Kinds, SignIn!NoArg
  <2> HIDE DEF op
  <2>3. ~fenced /\ file = 0 /\ cancel = "none" /\ ~Asked("cancel")
    BY <1>1, <2>1 DEF SignInv, FenceShape, QueueOwners, SignTypes
  <2>4. /\ QueueShape' /\ \A k \in Kinds : Asked(k)' => Asked(k) \/ k = "start"
        /\ \A i \in DOMAIN tail' : tail'[i] = op \/ (i \in DOMAIN tail /\ tail'[i] = tail[i])
    BY <1>1, <1>2, <2>1, <2>2, <2>3, QueueAppends DEF SignInv
  <2> DEFINE t == [tasks["start"] EXCEPT !.pc = "starting"]
  <2>5. tasks["start"] \in [pc : TaskPcs, intent : Nat] /\ tasks["start"].intent \in 0..intent
    BY DEF SignInv, TaskTypes, SignIn!TaskKinds
  <2>6. t \in [pc : TaskPcs, intent : Nat] /\ t.intent \in 0..intent /\ t.pc = "starting" /\ t.intent = intent
    BY <2>1, <2>5 DEF TaskPcs
  <2>7. tasks' = [tasks EXCEPT !["start"] = t]
    BY <2>1
  <2> HIDE DEF t
  <2>8. TaskTypes' /\ tasks'["start"] = t /\ \A k \in SignIn!TaskKinds \ {"start"} : tasks'[k] = tasks[k]
    <3>1. /\ tasks \in [SignIn!TaskKinds -> [pc : TaskPcs, intent : Nat]] /\ "start" \in SignIn!TaskKinds
          /\ \A k \in SignIn!TaskKinds : tasks[k].intent \in 0..intent
      BY DEF SignInv, TaskTypes, SignIn!TaskKinds
    <3>2. intent <= intent
      BY <1>2
    <3> QED BY <1>1, <1>2, <2>6, <2>7, <3>1, <3>2, TaskReplaced DEF TaskTypes
  <2>9. SignTypes' /\ DrainTypes'
    BY <1>1, <1>2, <2>1 DEF SignInv, SignTypes, DrainTypes
  <2>10. QueueOwners'
    BY <1>1, <2>2, <2>4, <2>6, <2>8 DEF SignInv, QueueOwners, CallbackAsked, Kinds
  <2>11. RecordShape'
    BY <1>1 DEF SignInv, RecordShape
  <2>12. FenceShape'
    BY <1>1, <2>3, <2>6, <2>8 DEF SignInv, FenceShape
  <2>13. IntentShape' /\ StartShape'
    BY <1>1, <1>2, <2>6, <2>8 DEF SignInv, IntentShape, StartShape
  <2>14. FreshShape'
    BY <1>1, <2>3, Bounded DEF SignInv, FreshShape, Consumable
  <2> QED BY <2>4, <2>8, <2>9, <2>10, <2>11, <2>12, <2>13, <2>14 DEF SignInv
<1> QED BY <1>3, <1>4

LEMMA StartEndsKeeps ==
  ASSUME SignInv, SignIn!StartEnds
  PROVE  SignInv'
<1>1. tasks["start"].pc = "starting" /\ flow.kind = "start" /\ flow' = SignIn!NoFlow
      /\ UNCHANGED <<pending, initialized, tail, file, fence, intent, retry, callbacks, drain, running, attempts,
                     opened, expired, exchanged, superseded, given, crashes, signedIn>>
  BY DEF SignIn!StartEnds, SignIn!diskVars, SignIn!histVars, SignIn!FlowDone
<1>2. running = "yes" /\ intent \in Nat /\ SignIn!NoIntent # intent /\ SignIn!NoIntent \in Nat
  BY <1>1, Bounded DEF SignInv, StartShape, SignIn!TaskKinds
<1>3. QueueShape' /\ (\A k \in Kinds : Asked(k)' => Asked(k)) /\ ~Asked("start")'
  BY <1>1, FlowEnds DEF SignInv, Kinds
<1>4. flow'.kind = "none" /\ flow'.pc = "none" /\ ~Asked("init")
  BY <1>1, <1>2 DEF SignIn!NoFlow, SignInv, QueueOwners
<1>5. pendingIntent' \in {pendingIntent, SignIn!NoIntent}
  BY DEF SignIn!StartEnds
<1>6. SignTypes'
  BY <1>1, <1>5 DEF SignInv, SignTypes, SignIn!StartEnds, SignIn!BeginCancel
<1>7. DrainTypes'
  BY <1>1 DEF SignInv, DrainTypes
<1>8. RecordShape'
  BY <1>1, <1>4 DEF SignInv, RecordShape
<1>9. FreshShape'
  BY <1>1, <1>2, <1>4, <1>5 DEF SignInv, FreshShape, Consumable
<1>10. CASE flow.pc = "done" /\ tasks["start"].intent # intent
  <2> DEFINE t == [pc |-> "withdrawing", intent |-> tasks["start"].intent]
  <2>1. /\ tasks' = [tasks EXCEPT !["start"] = t] /\ fenced' = TRUE /\ UNCHANGED pendingIntent
        /\ cancel' = (IF cancel = "none" THEN "arm" ELSE cancel)
    <3>1. /\ tasks' = [tasks EXCEPT !["start"] = [pc |-> "withdrawing", intent |-> @.intent]]
          /\ fenced' = TRUE /\ UNCHANGED pendingIntent /\ cancel' = (IF cancel = "none" THEN "arm" ELSE cancel)
      BY <1>10 DEF SignIn!StartEnds, SignIn!BeginCancel
    <3> QED BY <3>1
  <2>2. tasks["start"] \in [pc : TaskPcs, intent : Nat] /\ tasks["start"].intent \in 0..intent
    BY DEF SignInv, TaskTypes, SignIn!TaskKinds
  <2>3. t \in [pc : TaskPcs, intent : Nat] /\ t.intent \in 0..intent /\ t.pc = "withdrawing"
        /\ t.intent = tasks["start"].intent
    BY <2>2 DEF TaskPcs
  <2> HIDE DEF t
  <2>4. TaskTypes' /\ tasks'["start"] = t /\ \A k \in SignIn!TaskKinds \ {"start"} : tasks'[k] = tasks[k]
    <3>1. /\ tasks \in [SignIn!TaskKinds -> [pc : TaskPcs, intent : Nat]] /\ "start" \in SignIn!TaskKinds
          /\ \A k \in SignIn!TaskKinds : tasks[k].intent \in 0..intent
      BY DEF SignInv, TaskTypes, SignIn!TaskKinds
    <3>2. intent <= intent
      BY <1>2
    <3> QED BY <1>1, <1>2, <2>1, <2>3, <3>1, <3>2, TaskReplaced DEF TaskTypes
  <2>5. pendingIntent # intent /\ (drain.pc # "idle" => drain.intent # intent)
    BY <1>1, <1>10 DEF SignInv, IntentShape
  <2>6. QueueOwners'
    BY <1>1, <1>3, <1>4, <2>1 DEF SignInv, QueueOwners, CallbackAsked, Kinds
  <2>7. FenceShape'
    BY <1>1, <1>3, <2>1, <2>3, <2>4, <2>5 DEF SignInv, FenceShape
  <2>8. IntentShape' /\ StartShape'
    BY <1>1, <1>2, <2>1, <2>5 DEF SignInv, IntentShape, StartShape
  <2> QED BY <1>3, <1>6, <1>7, <1>8, <1>9, <2>4, <2>6, <2>7, <2>8 DEF SignInv
<1>11. CASE ~(flow.pc = "done" /\ tasks["start"].intent # intent)
  <2>1. SignIn!TaskEnds("start") /\ UNCHANGED <<fenced, cancel>>
    BY <1>11 DEF SignIn!StartEnds
  <2>2. TaskTypes' /\ tasks'["start"].pc = "none" /\ \A k \in SignIn!TaskKinds \ {"start"} : tasks'[k] = tasks[k]
    BY <1>1, <1>2, <2>1, TaskEndsKeeps DEF SignInv, SignIn!TaskKinds
  <2>3. QueueOwners'
    BY <1>1, <1>3, <1>4, <2>1 DEF SignInv, QueueOwners, CallbackAsked, Kinds
  <2>4. FenceShape'
    BY <1>1, <1>2, <1>3, <1>5, <2>1, <2>2 DEF SignInv, FenceShape
  <2>5. IntentShape' /\ StartShape'
    BY <1>1, <1>2, <1>5, <2>2 DEF SignInv, IntentShape, StartShape
  <2> QED BY <1>3, <1>6, <1>7, <1>8, <1>9, <2>2, <2>3, <2>4, <2>5 DEF SignInv
<1> QED BY <1>10, <1>11

LEMMA WithdrawnKeeps ==
  ASSUME SignInv, SignIn!StartWithdrawn
  PROVE  SignInv'
<1>1. tasks["start"].pc = "withdrawing" /\ SignIn!TaskEnds("start")
        /\ pendingIntent' \in {pendingIntent, SignIn!NoIntent}
      /\ UNCHANGED <<pending, initialized, flow, tail, file, fence, intent, fenced, cancel, retry, callbacks, drain,
                     running, attempts, opened, expired, exchanged, superseded, given, crashes, signedIn>>
  BY DEF SignIn!StartWithdrawn, SignIn!flowVars, SignIn!diskVars, SignIn!histVars
<1>2. running = "yes" /\ intent \in Nat /\ SignIn!NoIntent # intent /\ SignIn!NoIntent \in Nat /\ ~Asked("start")
  BY <1>1, Bounded DEF SignInv, StartShape, SignIn!TaskKinds, QueueOwners
<1>3. QueueShape' /\ \A k \in Kinds : Asked(k)' <=> Asked(k)
  BY <1>1, QueueQuiet DEF SignInv
<1>4. TaskTypes' /\ tasks'["start"].pc = "none" /\ \A k \in SignIn!TaskKinds \ {"start"} : tasks'[k] = tasks[k]
  BY <1>1, <1>2, TaskEndsKeeps DEF SignInv, SignIn!TaskKinds
<1>5. SignTypes' /\ DrainTypes'
  BY <1>1 DEF SignInv, SignTypes, DrainTypes
<1>6. QueueOwners'
  BY <1>1, <1>2, <1>3 DEF SignInv, QueueOwners, CallbackAsked, Kinds
<1>7. RecordShape'
  BY <1>1 DEF SignInv, RecordShape
<1>8. FenceShape'
  BY <1>1, <1>2, <1>3, <1>4 DEF SignInv, FenceShape, Kinds
<1>9. IntentShape' /\ StartShape'
  BY <1>1, <1>2, <1>4 DEF SignInv, IntentShape, StartShape
<1>10. FreshShape'
  BY <1>1, <1>2 DEF SignInv, FreshShape, Consumable
<1> QED BY <1>3, <1>4, <1>5, <1>6, <1>7, <1>8, <1>9, <1>10 DEF SignInv

LEMMA ActsKeeps ==
  ASSUME SignInv, NEW kind \in SignIn!TaskKinds, SignIn!IntentActs(kind)
  PROVE  SignInv'
<1>1. kind # "start" /\ tasks[kind].pc = "cancelled" /\ SignIn!TaskEnds(kind)
      /\ UNCHANGED <<pending, initialized, flow, tail, file, fence, intent, pendingIntent, fenced, cancel, retry,
                     callbacks, drain, running, attempts, opened, expired, exchanged, superseded, given, crashes>>
  BY DEF SignIn!IntentActs, SignIn!flowVars, SignIn!diskVars, SignIn!histVars
<1>2. running = "yes" /\ intent \in Nat
  BY <1>1, Bounded DEF SignInv, StartShape
<1>3. QueueShape' /\ \A k \in Kinds : Asked(k)' <=> Asked(k)
  BY <1>1, QueueQuiet DEF SignInv
<1>4. TaskTypes' /\ \A k \in SignIn!TaskKinds \ {kind} : tasks'[k] = tasks[k]
  BY <1>1, <1>2, TaskEndsKeeps DEF SignInv
<1>5. tasks'["start"] = tasks["start"]
  BY <1>1, <1>4 DEF SignIn!TaskKinds
<1>6. SignTypes' /\ DrainTypes'
  BY <1>1 DEF SignInv, SignTypes, DrainTypes
<1>7. QueueOwners'
  BY <1>1, <1>3, <1>5 DEF SignInv, QueueOwners, CallbackAsked, Kinds
<1>8. RecordShape'
  BY <1>1 DEF SignInv, RecordShape
<1>9. FenceShape'
  BY <1>1, <1>3, <1>5 DEF SignInv, FenceShape, Kinds
<1>10. IntentShape' /\ StartShape'
  BY <1>1, <1>2, <1>5 DEF SignInv, IntentShape, StartShape
<1>11. FreshShape'
  BY <1>1 DEF SignInv, FreshShape, Consumable
<1> QED BY <1>3, <1>4, <1>6, <1>7, <1>8, <1>9, <1>10, <1>11 DEF SignInv

LEMMA DeliverKeeps ==
  ASSUME SignInv, NEW a \in SignIn!Attempts, NEW kind \in {"code", "error"}, SignIn!Deliver(a, kind)
  PROVE  SignInv'
<1> DEFINE c == [attempt |-> a, kind |-> kind]
<1>1. (callbacks' = callbacks \/ callbacks' = Append(callbacks, c))
      /\ UNCHANGED <<pending, initialized, flow, tail, file, fence, intent, pendingIntent, fenced, cancel, retry,
                     tasks, drain, running, attempts, opened, expired, exchanged, superseded, given, crashes,
                     signedIn>>
  BY DEF SignIn!Deliver, SignIn!flowVars, SignIn!diskVars
<1>2. c \in SignIn!Callbacks
  BY DEF SignIn!Callbacks
<1> HIDE DEF c
<1>3. callbacks' \in Seq(SignIn!Callbacks)
  BY <1>1, <1>2 DEF SignInv, DrainTypes
<1>4. QueueShape' /\ \A k \in Kinds : Asked(k)' <=> Asked(k)
  BY <1>1, QueueQuiet DEF SignInv
<1>5. SignTypes' /\ TaskTypes' /\ DrainTypes'
  BY <1>1, <1>3 DEF SignInv, SignTypes, TaskTypes, DrainTypes
<1>6. QueueOwners'
  BY <1>1, <1>4 DEF SignInv, QueueOwners, CallbackAsked, Kinds
<1>7. RecordShape'
  BY <1>1 DEF SignInv, RecordShape
<1>8. FenceShape'
  BY <1>1, <1>4 DEF SignInv, FenceShape, Kinds
<1>9. IntentShape' /\ StartShape'
  BY <1>1 DEF SignInv, IntentShape, StartShape
<1>10. FreshShape'
  BY <1>1 DEF SignInv, FreshShape, Consumable
<1> QED BY <1>4, <1>5, <1>6, <1>7, <1>8, <1>9, <1>10 DEF SignInv

LEMMA DrainTakesKeeps ==
  ASSUME SignInv, SignIn!DrainTakes
  PROVE  SignInv'
<1>1. running = "yes" /\ drain = SignIn!NoDrain /\ callbacks # <<>> /\ callbacks' = Tail(callbacks)
      /\ UNCHANGED <<pending, initialized, flow, tail, file, fence, intent, pendingIntent, fenced, cancel, retry,
                     tasks, running, attempts, opened, expired, exchanged, superseded, given, crashes, signedIn>>
  BY DEF SignIn!DrainTakes, SignIn!flowVars, SignIn!diskVars, SignIn!histVars
<1>2. callbacks' \in Seq(SignIn!Callbacks) /\ Head(callbacks) \in SignIn!Callbacks
  BY <1>1, Taken DEF SignInv, DrainTypes
<1>3. Head(callbacks).attempt \in SignIn!Attempts /\ Head(callbacks).kind \in {"code", "error"}
  BY <1>2 DEF SignIn!Callbacks
<1>4. drain.pc = "idle" /\ ~Asked("callback")
  BY <1>1 DEF SignIn!NoDrain, SignInv, QueueOwners, CallbackAsked
<1>5. QueueShape' /\ \A k \in Kinds : Asked(k)' <=> Asked(k)
  BY <1>1, QueueQuiet DEF SignInv
<1>6. flow.kind # "callback" /\ \A i \in DOMAIN tail : tail[i].kind # "callback"
  BY <1>4 DEF Asked
<1>7. drain' = SignIn!NoDrain \/ (~fenced /\ drain' = [pc |-> "install", attempt |-> Head(callbacks).attempt,
                                                       kind |-> Head(callbacks).kind, intent |-> pendingIntent])
  BY DEF SignIn!DrainTakes
<1>8. /\ drain' \in [pc : DrainPcs, attempt : Nat, kind : {"code", "error"}, intent : Nat]
      /\ \/ drain'.pc = "idle"
         \/ drain'.pc = "install" /\ ~fenced /\ drain'.intent = pendingIntent /\ drain'.attempt \in SignIn!Attempts
  <2>1. Head(callbacks).attempt \in Nat /\ pendingIntent \in Nat
    BY <1>3, Bounded, SignInBounds DEF SignIn!Attempts
  <2>2. CASE drain' = SignIn!NoDrain
    BY ONLY <2>2 DEF SignIn!NoDrain, DrainPcs
  <2> DEFINE a == Head(callbacks).attempt
             b == Head(callbacks).kind
  <2>3. a \in Nat /\ a \in SignIn!Attempts /\ b \in {"code", "error"}
    BY <1>3, <2>1
  <2>4. CASE ~fenced /\ drain' = [pc |-> "install", attempt |-> a, kind |-> b, intent |-> pendingIntent]
    <3> HIDE DEF a, b
    <3>1. drain' = [pc |-> "install", attempt |-> a, kind |-> b, intent |-> pendingIntent]
      BY <2>4
    <3> QED BY ONLY <2>1, <2>3, <2>4, <3>1 DEF DrainPcs
  <2> QED BY <1>7, <2>2, <2>4
<1>9. SignTypes' /\ TaskTypes'
  BY <1>1 DEF SignInv, SignTypes, TaskTypes
<1>10. DrainTypes'
  BY <1>1, <1>2, <1>8 DEF SignInv, DrainTypes, SignTypes
<1>11. QueueOwners'
  BY <1>1, <1>4, <1>5, <1>6 DEF SignInv, QueueOwners, CallbackAsked, Kinds
<1>12. RecordShape'
  BY <1>1 DEF SignInv, RecordShape
<1>13. FenceShape'
  BY <1>1, <1>5, <1>8 DEF SignInv, FenceShape, Kinds
<1>14. IntentShape' /\ StartShape'
  BY <1>1, <1>8 DEF SignInv, IntentShape, StartShape
<1>15. FreshShape'
  BY <1>1, <1>6, <1>8 DEF SignInv, FreshShape
<1> QED BY <1>5, <1>9, <1>10, <1>11, <1>12, <1>13, <1>14, <1>15 DEF SignInv

LEMMA RequeuedTyped ==
  ASSUME SignInv, drain.pc # "idle"
  PROVE  SignIn!Requeued \in Seq(SignIn!Callbacks)
<1> DEFINE c == [attempt |-> drain.attempt, kind |-> drain.kind]
<1>1. drain.attempt \in SignIn!Attempts /\ drain.kind \in {"code", "error"} /\ callbacks \in Seq(SignIn!Callbacks)
  BY DEF SignInv, DrainTypes
<1>2. c \in SignIn!Callbacks
  BY <1>1 DEF SignIn!Callbacks
<1>3. SignIn!Requeued = <<c>> \o callbacks
  BY DEF SignIn!Requeued
<1> HIDE DEF c
<1> QED BY <1>1, <1>2, <1>3

LEMMA DrainInstallsKeeps ==
  ASSUME SignInv, SignIn!DrainInstalls
  PROVE  SignInv'
<1> DEFINE op == [kind |-> "callback", arg |-> [attempt |-> drain.attempt, kind |-> drain.kind]]
<1>1. drain.pc = "install"
      /\ UNCHANGED <<pending, initialized, flow, file, fence, intent, pendingIntent, fenced, cancel, retry, tasks,
                     running, attempts, opened, expired, exchanged, superseded, given, crashes, signedIn>>
  BY DEF SignIn!DrainInstalls, SignIn!diskVars, SignIn!histVars
<1>2. /\ drain \in [pc : DrainPcs, attempt : Nat, kind : {"code", "error"}, intent : Nat]
      /\ drain.attempt \in SignIn!Attempts /\ drain.intent \in (0..intent) \cup {SignIn!NoIntent} /\ running = "yes"
  BY <1>1 DEF SignInv, DrainTypes, StartShape
<1>3. ~Asked("callback") /\ flow.kind # "callback" /\ \A i \in DOMAIN tail : tail[i].kind # "callback"
  BY <1>1 DEF SignInv, QueueOwners, CallbackAsked, Asked
<1>4. op \in Operations /\ op.kind = "callback" /\ op.arg.attempt = drain.attempt
  BY <1>2 DEF Operations, Args, Kinds
<1>5. /\ QueueShape' /\ \A k \in Kinds \ {"callback"} : Asked(k)' => Asked(k)
      /\ drain' \in [pc : DrainPcs, attempt : Nat, kind : {"code", "error"}, intent : Nat]
      /\ callbacks' \in Seq(SignIn!Callbacks)
      /\ \/ drain'.pc = "idle" /\ UNCHANGED tail
         \/ /\ drain'.pc = "flow" /\ drain'.intent = drain.intent /\ drain'.attempt = drain.attempt
            /\ \A i \in DOMAIN tail' : tail'[i] = op \/ (i \in DOMAIN tail /\ tail'[i] = tail[i])
  <2>1. CASE drain' = SignIn!NoDrain /\ callbacks' = SignIn!Requeued /\ UNCHANGED tail
    <3>1. drain' \in [pc : DrainPcs, attempt : Nat, kind : {"code", "error"}, intent : Nat] /\ drain'.pc = "idle"
      BY ONLY <2>1 DEF SignIn!NoDrain, DrainPcs
    <3>2. callbacks' \in Seq(SignIn!Callbacks)
      BY <1>1, <2>1, RequeuedTyped
    <3> QED BY <1>1, <2>1, <3>1, <3>2, QueueQuiet DEF SignInv
  <2>2. CASE drain' = [drain EXCEPT !.pc = "flow"] /\ tail' = Append(tail, op) /\ UNCHANGED callbacks
    <3>1. /\ drain' \in [pc : DrainPcs, attempt : Nat, kind : {"code", "error"}, intent : Nat] /\ drain'.pc = "flow"
          /\ drain'.intent = drain.intent /\ drain'.attempt = drain.attempt
      BY ONLY <1>2, <2>2 DEF DrainPcs
    <3>2. callbacks' \in Seq(SignIn!Callbacks)
      BY <2>2 DEF SignInv, DrainTypes
    <3> HIDE DEF op
    <3>3. /\ QueueShape' /\ \A k \in Kinds : Asked(k)' => Asked(k) \/ k = "callback"
          /\ \A i \in DOMAIN tail' : tail'[i] = op \/ (i \in DOMAIN tail /\ tail'[i] = tail[i])
      BY <1>1, <1>3, <1>4, <2>2, QueueAppends DEF SignInv
    <3> QED BY <3>1, <3>2, <3>3
  <2> QED BY <2>1, <2>2 DEF SignIn!DrainInstalls, SignIn!Queue
<1> HIDE DEF op
<1>6. SignTypes' /\ TaskTypes'
  BY <1>1 DEF SignInv, SignTypes, TaskTypes
<1>7. DrainTypes'
  BY <1>1, <1>2, <1>5 DEF SignInv, DrainTypes
<1>8. CallbackAsked'
  BY <1>1, <1>3, <1>4, <1>5 DEF CallbackAsked, Asked
<1>9. QueueOwners'
  BY <1>1, <1>5, <1>8 DEF SignInv, QueueOwners, Kinds
<1>10. RecordShape'
  BY <1>1 DEF SignInv, RecordShape
<1>11. FenceShape'
  BY <1>1, <1>5 DEF SignInv, FenceShape, Kinds
<1>12. IntentShape' /\ StartShape'
  BY <1>1, <1>2, <1>5 DEF SignInv, IntentShape, StartShape
<1>13. FreshShape'
  BY <1>1, <1>3, <1>5 DEF SignInv, FreshShape
<1> QED BY <1>5, <1>6, <1>7, <1>9, <1>10, <1>11, <1>12, <1>13 DEF SignInv

LEMMA DrainOutcomeKeeps ==
  ASSUME SignInv, SignIn!DrainOutcome
  PROVE  SignInv'
<1>1. drain.pc = "flow" /\ flow.kind = "callback" /\ flow' = SignIn!NoFlow
        /\ pendingIntent' \in {pendingIntent, SignIn!NoIntent}
      /\ UNCHANGED <<pending, initialized, tail, file, fence, intent, fenced, cancel, retry, tasks, running,
                     attempts, opened, expired, exchanged, superseded, given, crashes, signedIn>>
  BY DEF SignIn!DrainOutcome, SignIn!diskVars, SignIn!histVars, SignIn!FlowDone
<1>2. /\ drain \in [pc : DrainPcs, attempt : Nat, kind : {"code", "error"}, intent : Nat]
      /\ drain.attempt \in SignIn!Attempts /\ drain.intent \in (0..intent) \cup {SignIn!NoIntent} /\ running = "yes"
      /\ flow.arg.attempt = drain.attempt
  BY <1>1 DEF SignInv, DrainTypes, StartShape, QueueOwners, CallbackAsked
<1>3. QueueShape' /\ (\A k \in Kinds : Asked(k)' => Asked(k)) /\ ~Asked("callback")'
  BY <1>1, FlowEnds DEF SignInv, Kinds
<1>4. flow'.kind = "none" /\ flow'.pc = "none" /\ SignIn!NoIntent # intent /\ SignIn!NoIntent \in Nat
  BY <1>1, Bounded DEF SignIn!NoFlow
<1>5. \A i \in DOMAIN tail' : tail'[i].kind # "callback"
  BY <1>3 DEF Asked
<1>6. /\ drain' \in [pc : DrainPcs, attempt : Nat, kind : {"code", "error"}, intent : Nat]
      /\ callbacks' \in Seq(SignIn!Callbacks)
      /\ \/ drain'.pc = "idle"
         \/ /\ drain'.pc = "confirm" /\ drain'.intent = drain.intent /\ drain'.attempt = drain.attempt
            /\ flow.pc = "handoff"
  <2>1. CASE drain' = [drain EXCEPT !.pc = "confirm"] /\ UNCHANGED callbacks /\ flow.pc = "handoff"
    <3>1. /\ drain' \in [pc : DrainPcs, attempt : Nat, kind : {"code", "error"}, intent : Nat]
          /\ drain'.pc = "confirm" /\ drain'.intent = drain.intent /\ drain'.attempt = drain.attempt
      BY ONLY <1>2, <2>1 DEF DrainPcs
    <3> QED BY <2>1, <3>1 DEF SignInv, DrainTypes
  <2>2. CASE drain' = SignIn!NoDrain /\ callbacks' \in {callbacks, SignIn!Requeued}
    <3>1. drain' \in [pc : DrainPcs, attempt : Nat, kind : {"code", "error"}, intent : Nat] /\ drain'.pc = "idle"
      BY ONLY <2>2 DEF SignIn!NoDrain, DrainPcs
    <3>2. callbacks' \in Seq(SignIn!Callbacks)
      BY <1>1, <2>2, RequeuedTyped DEF SignInv, DrainTypes
    <3> QED BY <3>1, <3>2
  <2>3. \/ drain' = [drain EXCEPT !.pc = "confirm"] /\ UNCHANGED callbacks /\ flow.pc = "handoff"
        \/ drain' = SignIn!NoDrain /\ callbacks' \in {callbacks, SignIn!Requeued}
    BY DEF SignIn!DrainOutcome
  <2> QED BY <2>1, <2>2, <2>3
<1>7. SignTypes' /\ TaskTypes'
  BY <1>1 DEF SignInv, SignTypes, TaskTypes
<1>8. DrainTypes'
  BY <1>1, <1>2, <1>6 DEF DrainTypes
<1>9. CallbackAsked'
  BY <1>3, <1>4, <1>5 DEF CallbackAsked
<1>10. QueueOwners'
  BY <1>1, <1>3, <1>9 DEF SignInv, QueueOwners, Kinds
<1>11. RecordShape'
  BY <1>1, <1>4 DEF SignInv, RecordShape
<1>12. FenceShape'
  BY <1>1, <1>3, <1>4, <1>6 DEF SignInv, FenceShape, Kinds
<1>13. IntentShape' /\ StartShape'
  BY <1>1, <1>2, <1>4, <1>6 DEF SignInv, IntentShape, StartShape
<1>14. drain'.pc # "idle" => Consumable(drain.attempt)
  BY <1>1, <1>2, <1>6 DEF SignInv, FreshShape
<1>15. FreshShape'
  BY <1>1, <1>4, <1>6, <1>14 DEF SignInv, FreshShape, Consumable
<1> QED BY <1>3, <1>7, <1>8, <1>10, <1>11, <1>12, <1>13, <1>15 DEF SignInv

LEMMA ConfirmsKeeps ==
  ASSUME SignInv, SignIn!DrainConfirms
  PROVE  SignInv'
<1>1. drain.pc = "confirm" /\ (drain' = [drain EXCEPT !.pc = "exchange"] \/ drain' = SignIn!NoDrain)
      /\ UNCHANGED <<pending, initialized, flow, tail, file, fence, intent, pendingIntent, fenced, cancel, retry,
                     tasks, callbacks, running, attempts, opened, expired, exchanged, superseded, given, crashes,
                     signedIn>>
  BY DEF SignIn!DrainConfirms, SignIn!flowVars, SignIn!diskVars, SignIn!histVars
<1>2. /\ drain \in [pc : DrainPcs, attempt : Nat, kind : {"code", "error"}, intent : Nat]
      /\ drain.attempt \in SignIn!Attempts /\ drain.intent \in (0..intent) \cup {SignIn!NoIntent} /\ running = "yes"
  BY <1>1 DEF SignInv, DrainTypes, StartShape
<1>3. ~Asked("callback") /\ flow.kind # "callback" /\ \A i \in DOMAIN tail : tail[i].kind # "callback"
  BY <1>1 DEF SignInv, QueueOwners, CallbackAsked, Asked
<1>4. QueueShape' /\ \A k \in Kinds : Asked(k)' <=> Asked(k)
  BY <1>1, QueueQuiet DEF SignInv
<1>5. /\ drain' \in [pc : DrainPcs, attempt : Nat, kind : {"code", "error"}, intent : Nat]
      /\ \/ drain'.pc = "idle"
         \/ drain'.pc = "exchange" /\ drain'.intent = drain.intent /\ drain'.attempt = drain.attempt
  <2>1. CASE drain' = [drain EXCEPT !.pc = "exchange"]
    BY ONLY <1>2, <2>1 DEF DrainPcs
  <2>2. CASE drain' = SignIn!NoDrain
    BY ONLY <2>2 DEF SignIn!NoDrain, DrainPcs
  <2> QED BY <1>1, <2>1, <2>2
<1>6. SignTypes' /\ TaskTypes'
  BY <1>1 DEF SignInv, SignTypes, TaskTypes
<1>7. DrainTypes'
  BY <1>1, <1>2, <1>5 DEF SignInv, DrainTypes
<1>8. QueueOwners'
  BY <1>1, <1>3, <1>4 DEF SignInv, QueueOwners, CallbackAsked, Kinds
<1>9. RecordShape'
  BY <1>1 DEF SignInv, RecordShape
<1>10. FenceShape'
  BY <1>1, <1>4, <1>5 DEF SignInv, FenceShape, Kinds
<1>11. IntentShape' /\ StartShape'
  BY <1>1, <1>2, <1>5 DEF SignInv, IntentShape, StartShape
<1>12. FreshShape'
  BY <1>1, <1>3, <1>5 DEF SignInv, FreshShape, Consumable
<1> QED BY <1>4, <1>6, <1>7, <1>8, <1>9, <1>10, <1>11, <1>12 DEF SignInv

LEMMA ExchangesKeeps ==
  ASSUME SignInv, SignIn!DrainExchanges
  PROVE  SignInv' /\ SignIn!SupersededStaysOut
<1>1. drain.pc = "exchange" /\ drain' = SignIn!NoDrain
      /\ UNCHANGED <<pending, initialized, flow, tail, file, fence, intent, pendingIntent, fenced, cancel, retry,
                     tasks, callbacks, running, attempts, opened, expired, superseded, given, crashes>>
  BY DEF SignIn!DrainExchanges, SignIn!flowVars, SignIn!diskVars
<1>2. Consumable(drain.attempt) /\ running = "yes"
  BY <1>1 DEF SignInv, FreshShape, StartShape
<1>3. /\ exchanged' = exchanged \/ (exchanged' = exchanged \cup {drain.attempt} /\ drain.intent = intent)
      /\ drain.attempt \in 1..attempts /\ drain.attempt # file
      /\ drain.intent = intent => drain.attempt \notin given /\ drain.attempt \notin superseded
  BY <1>2 DEF SignIn!DrainExchanges, SignIn!MayExchange, Consumable
<1>4. drain'.pc = "idle" /\ drain' \in [pc : DrainPcs, attempt : Nat, kind : {"code", "error"}, intent : Nat]
  BY <1>1 DEF SignIn!NoDrain, DrainPcs
<1>5. ~Asked("callback") /\ flow.kind # "callback" /\ \A i \in DOMAIN tail : tail[i].kind # "callback"
  BY <1>1 DEF SignInv, QueueOwners, CallbackAsked, Asked
<1>6. QueueShape' /\ \A k \in Kinds : Asked(k)' <=> Asked(k)
  BY <1>1, QueueQuiet DEF SignInv
<1>7. SignTypes' /\ TaskTypes'
  BY <1>1, <1>3 DEF SignInv, SignTypes, TaskTypes
<1>8. DrainTypes'
  BY <1>1, <1>4 DEF SignInv, DrainTypes
<1>9. QueueOwners'
  BY <1>1, <1>5, <1>6 DEF SignInv, QueueOwners, CallbackAsked, Kinds
<1>10. RecordShape'
  BY <1>1, <1>3 DEF SignInv, RecordShape
<1>11. FenceShape'
  BY <1>1, <1>4, <1>6 DEF SignInv, FenceShape, Kinds
<1>12. IntentShape' /\ StartShape'
  BY <1>1, <1>2, <1>4 DEF SignInv, IntentShape, StartShape
<1>13. FreshShape'
  BY <1>1, <1>4, <1>5 DEF SignInv, FreshShape
<1>14. SignIn!SupersededStaysOut
  BY <1>3 DEF SignIn!SupersededStaysOut
<1> QED BY <1>6, <1>7, <1>8, <1>9, <1>10, <1>11, <1>12, <1>13, <1>14 DEF SignInv

LEMMA StartupKeeps ==
  ASSUME SignInv, SignIn!Startup
  PROVE  SignInv'
<1> DEFINE op == [kind |-> "init", arg |-> SignIn!NoArg]
<1>1. running = "no" /\ running' = "starting"
      /\ UNCHANGED <<pending, initialized, flow, file, fence, intent, pendingIntent, retry, tasks, callbacks, drain,
                     attempts, opened, expired, exchanged, superseded, given, crashes, signedIn>>
  BY DEF SignIn!Startup, SignIn!diskVars, SignIn!histVars
<1>2. /\ flow = SignIn!NoFlow /\ tail = <<>> /\ ~fenced /\ cancel = "none" /\ ~retry
           /\ pendingIntent = SignIn!NoIntent
      /\ drain.pc = "idle" /\ given = {} /\ \A k \in SignIn!TaskKinds : tasks[k].pc = "none"
  BY <1>1 DEF SignInv, StartShape
<1>3. \A k \in Kinds : ~Asked(k)
  BY <1>2 DEF Asked, SignIn!NoFlow, Kinds
<1>4. flow'.kind = "none" /\ flow'.pc = "none" /\ SignIn!NoIntent # intent /\ tasks'["start"].pc = "none"
  BY <1>1, <1>2, Bounded DEF SignIn!NoFlow, SignIn!TaskKinds
<1>5. op \in Operations /\ op.kind = "init"
  BY DEF Operations, Args, Kinds, SignIn!NoArg
<1>6. \/ fence /\ fenced' = TRUE /\ cancel' = "arm" /\ UNCHANGED tail
      \/ ~fence /\ tail' = Append(tail, op) /\ UNCHANGED <<fenced, cancel>>
  BY <1>2 DEF SignIn!Startup, SignIn!BeginCancel, SignIn!Queue
<1> HIDE DEF op
<1>7. /\ QueueShape' /\ \A k \in Kinds : Asked(k)' => k = "init" /\ ~fence /\ UNCHANGED fenced
      /\ \A i \in DOMAIN tail' : tail'[i].kind # "callback"
  <2>1. CASE UNCHANGED tail
    <3>1. DOMAIN tail' = {}
      BY <1>2, <2>1
    <3> QED BY <1>1, <1>3, <2>1, <3>1, QueueQuiet DEF SignInv
  <2>2. CASE ~fence /\ tail' = Append(tail, op) /\ UNCHANGED fenced
    <3>1. /\ QueueShape' /\ \A k \in Kinds : Asked(k)' => Asked(k) \/ k = "init"
          /\ \A i \in DOMAIN tail' : tail'[i] = op \/ (i \in DOMAIN tail /\ tail'[i] = tail[i])
      BY <1>1, <1>3, <1>5, <2>2, QueueAppends DEF SignInv, Kinds
    <3>2. DOMAIN tail = {}
      BY <1>2
    <3> QED BY <1>3, <1>5, <2>2, <3>1, <3>2
  <2> QED BY <1>6, <2>1, <2>2
<1>8. SignTypes' /\ TaskTypes' /\ DrainTypes'
  BY <1>1, <1>6 DEF SignInv, SignTypes, TaskTypes, DrainTypes
<1>9. QueueOwners'
  BY <1>1, <1>2, <1>4, <1>7 DEF QueueOwners, CallbackAsked, Kinds
<1>10. RecordShape'
  BY <1>1 DEF SignInv, RecordShape
<1>11. FenceShape'
  BY <1>1, <1>2, <1>4, <1>6 DEF FenceShape
<1>12. IntentShape' /\ StartShape'
  BY <1>1, <1>2, <1>4 DEF SignInv, IntentShape, StartShape
<1>13. FreshShape'
  BY <1>1, <1>2, <1>4 DEF FreshShape
<1> QED BY <1>7, <1>8, <1>9, <1>10, <1>11, <1>12, <1>13 DEF SignInv

LEMMA StartupEndsKeeps ==
  ASSUME SignInv, SignIn!StartupEnds
  PROVE  SignInv'
<1>1. running = "starting" /\ running' = "restoring" /\ flow.kind = "init" /\ flow' = SignIn!NoFlow
      /\ UNCHANGED <<pending, initialized, tail, file, fence, intent, cancel, tasks, callbacks, drain, attempts,
                     opened, expired, exchanged, superseded, given, crashes, signedIn>>
  BY DEF SignIn!StartupEnds, SignIn!diskVars, SignIn!histVars, SignIn!FlowDone
<1>2. /\ pendingIntent = SignIn!NoIntent /\ ~fenced /\ ~fence /\ cancel = "none" /\ ~retry
      /\ drain.pc = "idle" /\ given = {} /\ \A k \in SignIn!TaskKinds : tasks[k].pc = "none"
  <2>1. ~fenced /\ ~fence
    BY <1>1 DEF SignInv, QueueOwners, Asked
  <2> QED BY <1>1, <2>1 DEF SignInv, StartShape, FenceShape
<1>3. QueueShape' /\ (\A k \in Kinds : Asked(k)' => Asked(k)) /\ ~Asked("init")'
  BY <1>1, FlowEnds DEF SignInv, Kinds
<1>4. /\ flow'.kind = "none" /\ flow'.pc = "none" /\ SignIn!NoIntent # intent /\ intent \in Nat
      /\ tasks'["start"].pc = "none"
  BY <1>1, <1>2, Bounded DEF SignIn!NoFlow, SignIn!TaskKinds
<1>5. \/ fenced' = TRUE /\ retry' = TRUE /\ UNCHANGED pendingIntent
      \/ UNCHANGED <<fenced, retry>> /\ pendingIntent' \in {intent, SignIn!NoIntent}
  BY DEF SignIn!StartupEnds
<1>6. file \notin superseded
  BY <1>2 DEF SignInv, RecordShape
<1>7. ~Asked("callback")
  BY <1>2 DEF SignInv, QueueOwners, CallbackAsked
<1>8. SignTypes' /\ TaskTypes' /\ DrainTypes'
  BY <1>1, <1>4, <1>5 DEF SignInv, SignTypes, TaskTypes, DrainTypes
<1>9. CallbackAsked'
  BY <1>1, <1>3, <1>4, <1>7 DEF SignInv, QueueOwners, CallbackAsked, Kinds
<1>10. QueueOwners'
  BY <1>1, <1>3, <1>9 DEF SignInv, QueueOwners, Kinds
<1>11. RecordShape'
  BY <1>1, <1>4 DEF SignInv, RecordShape
<1>12. FenceShape'
  BY <1>1, <1>2, <1>4, <1>5 DEF FenceShape
<1>13. IntentShape' /\ StartShape'
  BY <1>1, <1>2, <1>4 DEF SignInv, IntentShape, StartShape
<1>14. FreshShape'
  BY <1>1, <1>2, <1>4, <1>6 DEF FreshShape
<1> QED BY <1>3, <1>8, <1>10, <1>11, <1>12, <1>13, <1>14 DEF SignInv

LEMMA CrashKeeps ==
  ASSUME SignInv, SignIn!Crash
  PROVE  SignInv'
<1>1. /\ crashes < MaxCrashes /\ crashes' = crashes + 1
      /\ running' = "no" /\ pending' = 0 /\ flow' = SignIn!NoFlow /\ tail' = <<>>
           /\ pendingIntent' = SignIn!NoIntent
      /\ cancel' = "none" /\ tasks' = [k \in SignIn!TaskKinds |-> SignIn!NoTask] /\ callbacks' = <<>>
      /\ drain' = SignIn!NoDrain /\ given' = {}
      /\ UNCHANGED <<file, fence, intent, attempts, opened, expired, exchanged, superseded, signedIn>>
  BY DEF SignIn!Crash
<1>2. ~initialized' /\ ~fenced' /\ ~retry'
  BY DEF SignIn!Crash
<1>3. crashes \in Nat /\ crashes' \in 0..MaxCrashes /\ MaxIntents \in Nat /\ intent \in 0..(MaxIntents + crashes)
      /\ intent' \in 0..(MaxIntents + crashes') /\ intent' < MaxIntents + crashes'
  BY <1>1, SignInBounds DEF SignInv, SignTypes
<1>4. SignIn!NoIntent # intent /\ SignIn!NoIntent \in Nat /\ intent \in Nat
  BY Bounded
<1>5. flow'.kind = "none" /\ flow'.pc = "none" /\ drain'.pc = "idle" /\ DOMAIN tail' = {}
  BY <1>1 DEF SignIn!NoFlow, SignIn!NoDrain
<1>6. \A k \in SignIn!TaskKinds : tasks'[k].pc = "none" /\ tasks'[k].intent = 0 /\ tasks'[k] = SignIn!NoTask
  BY <1>1 DEF SignIn!NoTask
<1>7. QueueShape'
  BY <1>1, <1>5 DEF QueueShape
<1>8. \A k \in Kinds : ~Asked(k)'
  BY <1>5 DEF Asked, Kinds
<1>9. SignTypes'
  BY <1>1, <1>3 DEF SignInv, SignTypes
<1>10. TaskTypes'
  <2>1. SignIn!NoTask \in [pc : TaskPcs, intent : Nat]
    BY DEF SignIn!NoTask, TaskPcs
  <2> QED BY <1>1, <1>4, <1>6, <2>1 DEF TaskTypes
<1>11. DrainTypes'
  BY <1>1, <1>5 DEF DrainTypes, SignIn!NoDrain, DrainPcs
<1>12. QueueOwners'
  BY <1>5, <1>8 DEF QueueOwners, CallbackAsked, Kinds
<1>13. RecordShape'
  BY <1>1, <1>2, <1>5 DEF SignInv, RecordShape
<1>14. FenceShape'
  BY <1>1, <1>2, <1>4, <1>5, <1>6 DEF FenceShape, SignIn!TaskKinds
<1>15. IntentShape' /\ StartShape'
  BY <1>1, <1>2, <1>3, <1>5, <1>6 DEF IntentShape, StartShape, SignIn!TaskKinds
<1>16. FreshShape'
  BY <1>1, <1>4, <1>5 DEF FreshShape
<1> QED BY <1>7, <1>9, <1>10, <1>11, <1>12, <1>13, <1>14, <1>15, <1>16 DEF SignInv

LEMMA SignQuiet ==
  ASSUME SignInv, UNCHANGED SignInVars
  PROVE  SignInv'
<1>1. crashes' = crashes
      /\ UNCHANGED <<pending, initialized, flow, tail, file, fence, intent, pendingIntent, fenced, cancel, retry,
                     tasks, callbacks, drain, running, attempts, opened, expired, exchanged, superseded, given,
                     signedIn>>
  BY DEF SignInVars
<1>2. QueueShape' /\ \A k \in Kinds : Asked(k)' <=> Asked(k)
  BY <1>1, QueueQuiet DEF SignInv
<1>3. SignTypes' /\ TaskTypes' /\ DrainTypes'
  BY <1>1 DEF SignInv, SignTypes, TaskTypes, DrainTypes
<1>4. QueueOwners' /\ RecordShape'
  BY <1>1, <1>2 DEF SignInv, QueueOwners, CallbackAsked, Kinds, RecordShape
<1>5. FenceShape'
  BY <1>1, <1>2 DEF SignInv, FenceShape, Kinds
<1>6. IntentShape' /\ StartShape' /\ FreshShape'
  BY <1>1 DEF SignInv, IntentShape, StartShape, FreshShape, Consumable
<1> QED BY <1>2, <1>3, <1>4, <1>5, <1>6 DEF SignInv

LEMMA SignStep ==
  ASSUME SignInv, SignIn!Next \/ UNCHANGED SignInVars
  PROVE  SignInv' /\ SignIn!SupersededStaysOut
<1>1. CASE SignIn!DrainExchanges
  BY <1>1, ExchangesKeeps
<1>2. CASE ~SignIn!DrainExchanges
  <2>1. SignInv'
    <3>1. CASE SignIn!Steps
      BY <1>2, <3>1, FlowStartsKeeps, LoadsKeeps, LapsesKeeps, MatchesKeeps, RetiresKeeps, SavesKeeps, OpensKeeps,
         EndsQuietlyKeeps, CancelArmsKeeps, CancelFlowEndsKeeps, CancelClearsKeeps, RetriesKeeps,
         StartContinuesKeeps, StartEndsKeeps, WithdrawnKeeps, ActsKeeps, DrainTakesKeeps, DrainInstallsKeeps,
         DrainOutcomeKeeps, ConfirmsKeeps, StartupKeeps, StartupEndsKeeps, RestoreKeeps DEF SignIn!Steps
    <3>2. CASE \E a \in SignIn!Attempts : SignIn!Expires(a)
      BY <3>2, ExpiresKeeps
    <3>3. CASE \E k \in SignIn!TaskKinds : SignIn!Begin(k)
      BY <3>3, BeginKeeps
    <3>4. CASE \E a \in SignIn!Attempts, kind \in {"code", "error"} : SignIn!Deliver(a, kind)
      BY <3>4, DeliverKeeps
    <3>5. CASE SignIn!Crash
      BY <3>5, CrashKeeps
    <3>6. CASE UNCHANGED SignInVars
      BY <3>6, SignQuiet
    <3> QED BY <3>1, <3>2, <3>3, <3>4, <3>5, <3>6 DEF SignIn!Next
  <2>2. UNCHANGED exchanged
    BY <1>2 DEF SignIn!Next, SignIn!Steps, SignIn!histVars, SignInVars, SignIn!FlowStarts, SignIn!FlowLoads,
                SignIn!FlowLapses, SignIn!FlowMatches, SignIn!FlowRetires, SignIn!FlowSaves,
       SignIn!FlowOpens, SignIn!FlowEndsQuietly, SignIn!CancelArms, SignIn!CancelFlowEnds, SignIn!CancelClears,
       SignIn!CancelRetries, SignIn!StartContinues,
       SignIn!StartEnds, SignIn!StartWithdrawn, SignIn!IntentActs, SignIn!DrainTakes, SignIn!DrainInstalls,
       SignIn!DrainOutcome, SignIn!DrainConfirms, SignIn!Startup,
       SignIn!StartupEnds, SignIn!RestoreEnds, SignIn!GiveUp, SignIn!Expires, SignIn!Begin, SignIn!Deliver,
       SignIn!Crash
  <2> QED BY <2>1, <2>2 DEF SignIn!SupersededStaysOut
<1> QED BY <1>1, <1>2

Flags == /\ fence \in BOOLEAN /\ initialized \in BOOLEAN /\ fenced \in BOOLEAN /\ retry \in BOOLEAN
         /\ signedIn \in BOOLEAN

LEMMA FlagsStart == SignIn!Init => Flags
BY DEF SignIn!Init, Flags

LEMMA FlagsKept ==
  ASSUME Flags, SignIn!Next \/ UNCHANGED SignInVars
  PROVE  Flags'
<1>1. fence' \in BOOLEAN
  BY Zenon DEF Flags, SignIn!Next, SignIn!Steps, SignIn!diskVars, SignInVars, SignIn!FlowStarts,
               SignIn!FlowLoads, SignIn!FlowLapses, SignIn!FlowMatches, SignIn!FlowRetires,
     SignIn!FlowSaves, SignIn!FlowOpens, SignIn!FlowEndsQuietly, SignIn!CancelArms, SignIn!CancelFlowEnds,
     SignIn!CancelClears, SignIn!CancelRetries, SignIn!StartContinues,
     SignIn!StartEnds, SignIn!StartWithdrawn, SignIn!IntentActs, SignIn!DrainTakes, SignIn!DrainInstalls,
     SignIn!DrainOutcome, SignIn!DrainConfirms, SignIn!DrainExchanges,
     SignIn!Startup, SignIn!StartupEnds, SignIn!RestoreEnds, SignIn!Expires, SignIn!Begin, SignIn!Deliver,
     SignIn!Crash
<1>2. initialized' \in BOOLEAN
  BY Zenon DEF Flags, SignIn!Next, SignIn!Steps, SignIn!flowVars, SignInVars, SignIn!FlowStarts,
               SignIn!FlowLoads, SignIn!FlowLapses, SignIn!FlowMatches, SignIn!FlowRetires,
     SignIn!FlowSaves, SignIn!FlowOpens, SignIn!FlowEndsQuietly, SignIn!CancelArms, SignIn!CancelFlowEnds,
     SignIn!CancelClears, SignIn!CancelRetries, SignIn!StartContinues,
     SignIn!StartEnds, SignIn!StartWithdrawn, SignIn!IntentActs, SignIn!DrainTakes, SignIn!DrainInstalls,
     SignIn!DrainOutcome, SignIn!DrainConfirms, SignIn!DrainExchanges,
     SignIn!Startup, SignIn!StartupEnds, SignIn!RestoreEnds, SignIn!Expires, SignIn!Begin, SignIn!Deliver,
     SignIn!Crash
<1>3. fenced' \in BOOLEAN /\ retry' \in BOOLEAN
  BY Zenon DEF Flags, SignIn!Next, SignIn!Steps, SignIn!mainVars, SignInVars, SignIn!FlowStarts,
               SignIn!FlowLoads, SignIn!FlowLapses, SignIn!FlowMatches, SignIn!FlowRetires,
     SignIn!FlowSaves, SignIn!FlowOpens, SignIn!FlowEndsQuietly, SignIn!CancelArms, SignIn!CancelFlowEnds,
     SignIn!CancelClears, SignIn!CancelRetries, SignIn!StartContinues,
     SignIn!StartEnds, SignIn!StartWithdrawn, SignIn!IntentActs, SignIn!DrainTakes, SignIn!DrainInstalls,
     SignIn!DrainOutcome, SignIn!DrainConfirms, SignIn!DrainExchanges,
     SignIn!Startup, SignIn!StartupEnds, SignIn!RestoreEnds, SignIn!Expires, SignIn!Begin, SignIn!Deliver,
     SignIn!Crash, SignIn!BeginCancel, SignIn!CancelFails
<1>4. signedIn' \in BOOLEAN
  BY Zenon DEF Flags, SignIn!Next, SignIn!Steps, SignInVars, SignIn!FlowStarts, SignIn!FlowLoads,
               SignIn!FlowLapses, SignIn!FlowMatches, SignIn!FlowRetires,
     SignIn!FlowSaves, SignIn!FlowOpens, SignIn!FlowEndsQuietly, SignIn!CancelArms, SignIn!CancelFlowEnds,
     SignIn!CancelClears, SignIn!CancelRetries, SignIn!StartContinues,
     SignIn!StartEnds, SignIn!StartWithdrawn, SignIn!IntentActs, SignIn!DrainTakes, SignIn!DrainInstalls,
     SignIn!DrainOutcome, SignIn!DrainConfirms, SignIn!DrainExchanges,
     SignIn!Startup, SignIn!StartupEnds, SignIn!RestoreEnds, SignIn!Expires, SignIn!Begin, SignIn!Deliver,
     SignIn!Crash
<1> QED BY <1>1, <1>2, <1>3, <1>4 DEF Flags

LEMMA SignSafe ==
  ASSUME SignInv, Flags
  PROVE  SignIn!TypeOK /\ SignIn!ConsumedOnce
<1>1. SignIn!ConsumedOnce
  <2> SUFFICES ASSUME drain.pc \in {"confirm", "exchange"}
               PROVE  drain.attempt \notin exchanged \cup {pending, file}
    BY DEF SignIn!ConsumedOnce
  <2> QED BY DEF SignInv, FreshShape, Consumable, SignTypes
<1>2. file \in 0..MaxAttempts /\ pending \in 0..MaxAttempts /\ attempts \in 0..MaxAttempts
      /\ opened \subseteq SignIn!Attempts /\ expired \subseteq SignIn!Attempts
           /\ exchanged \subseteq SignIn!Attempts
  BY SignInBounds DEF SignInv, SignTypes, SignIn!Attempts
<1>3. intent \in 0..MaxIntents + MaxCrashes /\ pendingIntent \in 0..SignIn!NoIntent
  <2>1. intent \in 0..(MaxIntents + crashes) /\ crashes \in 0..MaxCrashes
        /\ pendingIntent \in (0..intent) \cup {SignIn!NoIntent}
    BY DEF SignInv, SignTypes
  <2> QED BY <2>1, SignInBounds DEF SignIn!NoIntent
<1>4. flow.kind \in {"none", "init", "start", "callback", "cancel", "expire"}
  <2>1. CASE flow = SignIn!NoFlow
    BY <2>1 DEF SignIn!NoFlow
  <2>2. CASE flow # SignIn!NoFlow
    BY <2>2 DEF SignInv, QueueShape, Kinds
  <2> QED BY <2>1, <2>2
<1>5. DOMAIN tasks = SignIn!TaskKinds /\ callbacks \in Seq(SignIn!Callbacks)
  BY DEF SignInv, TaskTypes, DrainTypes
<1>6. cancel \in {"none", "arm", "flow", "clear"} /\ running \in {"no", "starting", "restoring", "yes"}
  BY DEF SignInv, SignTypes
<1>7. /\ fence \in BOOLEAN /\ initialized \in BOOLEAN /\ fenced \in BOOLEAN /\ retry \in BOOLEAN
      /\ signedIn \in BOOLEAN
  BY DEF Flags
<1>8. SignIn!TypeOK
  BY ONLY <1>2, <1>3, <1>4, <1>5, <1>6, <1>7, Zenon DEF SignIn!TypeOK
<1> QED BY <1>1, <1>8

-----------------------------------------------------------------------------
OpKinds == {"none", "start", "new", "choose", "suspend", "dispose", "cancel"}
OpPcs == {"done", "wait", "launch", "resume", "close", "create", "save", "cancelTurn", "closeChat", "retired"}
\* the steps an operation of each kind takes
StepsOf(kind) ==
  CASE kind = "none"   -> {"done"}
    [] kind = "start"  -> {"wait", "launch", "resume", "create", "save"}
    [] kind = "new"    -> {"close", "create", "save"}
    [] kind = "choose" -> {"wait", "cancelTurn", "closeChat", "retired", "save"}
    [] OTHER           -> {"wait", "cancelTurn", "closeChat", "retired"}
OpRecords == [kind : OpKinds, pc : OpPcs, tok : 0..MaxOps, chat : 0..MaxChats, gen : Nat,
              folder : Folders \cup {NoFolder}]
Busy == {"starting", "running"}
Views == [gen : Nat \ {0}, status : Ai!Statuses, entries : SUBSET (1..MaxChats), asking : 0..MaxQuestions]
\* a conversation goes with the folder it was opened in
Fits(folder, chat) == chat # 0 => chat \in DOMAIN chats /\ chats[chat] = folder

AiTypes ==
  /\ host \in 0..MaxOps /\ hostToken \in 0..MaxOps /\ retirement \in 0..MaxOps /\ opCount \in 0..MaxOps
  /\ chats \in Seq(Folders) /\ Len(chats) <= MaxChats
  /\ accepted \in {0} \cup DOMAIN chats
  /\ asked \in 0..MaxQuestions /\ question \in 0..asked /\ unanswered = {question} \ {0}
  /\ view \in Views
  /\ prompt \in [tok : Nat, gen : Nat, chat : Nat]
  /\ workers \in [Ai!Ops -> {"none", "launching", "live", "dead"}]
PrefTypes ==
  /\ pref \in Ai!Prefs /\ Fits(pref.folder, pref.chat)
  /\ aiDisk \in Ai!Prefs /\ Fits(aiDisk.folder, aiDisk.chat)
OpTypes ==
  /\ ops \in [Ai!Ops -> OpRecords]
  /\ \A o \in Ai!Ops : /\ ops[o].pc \in StepsOf(ops[o].kind)
                       /\ o > opCount => ops[o].kind = "none"
                       /\ ops[o].pc = "launch" => ops[o].tok = o
                       /\ ops[o].kind = "choose" => ops[o].folder # NoFolder

\* an operation that talks to the agent
Working(o) == ops[o].pc \in {"launch", "resume", "close", "create", "save"} /\ ops[o].kind \in {"start", "new"}
\* an operation that takes the agent down
Ending(o) == ops[o].kind \in {"choose", "suspend", "dispose", "cancel"}
Holding(o) == Working(o) /\ ops[o].tok = hostToken

(* A save waits for each operation that saves, with what the operation chose. *)
Suits(p, r) ==
  /\ r.pc = "save" /\ p.folder # NoFolder
  /\ r.kind \in {"start", "new"} => p.folder = r.folder /\ p.chat = r.chat
WriteShape ==
  /\ writes \in Seq([op : Ai!Ops, pref : Ai!Prefs])
  /\ \A i \in DOMAIN writes :
       Suits(writes[i].pref, ops[writes[i].op]) /\ Fits(writes[i].pref.folder, writes[i].pref.chat)
  /\ \A i, j \in DOMAIN writes : writes[i].op = writes[j].op => i = j

(* The agent whose callbacks are believed is held, or is being launched.     *)
TokenShape ==
  /\ host # 0 => host = hostToken
  /\ hostToken # 0 =>
       /\ ~disposed /\ retirement = 0 /\ pref.folder # NoFolder /\ hostToken <= opCount
       /\ \A o \in Ai!Ops : ops[o].pc # "wait"
       /\ view.status \in {"starting", "ready", "running"}
       /\ view.status # "starting" => host = hostToken /\ accepted # 0
       /\ host = 0 => ops[hostToken].pc = "launch"
  /\ hostToken = 0 => accepted = 0 /\ prompt = Ai!NoTurn
  /\ view.status = "loading" => hostToken = 0 /\ (disposed \/ opCount = 0)

(* The operation that talks to the believed agent is the latest one.         *)
Holder(o) ==
  /\ ops[o].tok \in Ai!Ops /\ ops[o].tok <= o
  /\ ops[o].pc # "launch" => ops[o].folder # NoFolder
  /\ ops[o].pc = "resume" => Fits(ops[o].folder, ops[o].chat)
  /\ ops[o].tok = hostToken =>
       /\ o = opCount /\ view.status = "starting" /\ prompt = Ai!NoTurn
       /\ ops[o].pc = "launch" => host = 0 /\ accepted = 0 /\ view.entries = {}
       /\ ops[o].pc # "launch" => host = hostToken /\ ops[o].folder = pref.folder
       /\ ops[o].pc \in {"close", "create"} => accepted = 0 /\ view.entries = {}
       /\ ops[o].pc \in {"resume", "save"} => accepted = ops[o].chat /\ accepted # 0
HolderShape == \A o \in Ai!Ops : Working(o) => Holder(o)

(* What the latest operation owes the screen.                                *)
LatestShape ==
  \A o \in Ai!Ops : o = opCount /\ ~disposed =>
    /\ Working(o) => hostToken \in {0, ops[o].tok} /\ (hostToken = 0 => view.status \notin Busy)
    /\ ops[o].pc = "wait" /\ ops[o].kind = "start" =>
         view.status = "starting" /\ hostToken = 0 /\ view.entries = {} /\ pref.folder # NoFolder
    /\ Ending(o) => hostToken = 0 /\ ops[o].kind # "dispose"
    /\ ops[o].kind \in {"choose", "suspend"} => view.gen <= ops[o].gen

(* The turn that runs, and the question its agent asks.                      *)
TurnShape ==
  /\ prompt # Ai!NoTurn => /\ host = hostToken /\ host # 0 /\ prompt.tok = host /\ prompt.gen = view.gen
                           /\ prompt.chat = accepted /\ view.status = "running"
  /\ question # 0 => view.asking = question /\ prompt # Ai!NoTurn
  /\ view.asking # 0 /\ question = 0 /\ ~disposed =>
       /\ view.status = "running" /\ opCount \in Ai!Ops /\ ops[opCount].kind \in {"choose", "suspend"}
  /\ view.status \in Busy /\ ~disposed => prompt # Ai!NoTurn \/ (opCount \in Ai!Ops /\ ops[opCount].kind # "none")

TranscriptShape ==
  accepted # 0 => view.entries \subseteq {accepted} /\ chats[accepted] = pref.folder

AiInv ==
  /\ AiTypes /\ PrefTypes /\ OpTypes /\ WriteShape /\ TokenShape /\ HolderShape /\ LatestShape
  /\ TurnShape /\ TranscriptShape /\ Ai!AgentsAreHeld

LEMMA RestingKnown ==
  /\ Ai!Resting \in OpRecords /\ Ai!Resting.kind = "none" /\ Ai!Resting.pc = "done"
  /\ Ai!Resting.pc \in StepsOf(Ai!Resting.kind)
  /\ Ai!NoTurn \in [tok : Nat, gen : Nat, chat : Nat] /\ Ai!Ops = 1..MaxOps
BY AiBounds DEF Ai!Resting, OpRecords, OpKinds, OpPcs, StepsOf, Ai!NoTurn, Ai!Ops

LEMMA OpSet ==
  ASSUME OpTypes, NEW o \in Ai!Ops, NEW r \in OpRecords, ops' = [ops EXCEPT ![o] = r],
         r.pc \in StepsOf(r.kind), opCount' \in Nat, opCount \in Nat, opCount <= opCount',
         o > opCount' => r.kind = "none", r.pc = "launch" => r.tok = o,
         r.kind = "choose" => r.folder # NoFolder
  PROVE  /\ OpTypes' /\ ops'[o] = r /\ \A p \in Ai!Ops \ {o} : ops'[p] = ops[p]
<1>1. ops' \in [Ai!Ops -> OpRecords] /\ ops'[o] = r /\ \A p \in Ai!Ops \ {o} : ops'[p] = ops[p]
  BY DEF OpTypes
<1>2. \A p \in Ai!Ops : p > opCount' => p > opCount
  BY AiBounds DEF Ai!Ops
<1> QED BY <1>1, <1>2 DEF OpTypes

LEMMA OpPut ==
  ASSUME OpTypes, NEW o \in Ai!Ops, NEW r \in OpRecords, ops' = [ops EXCEPT ![o] = r],
         r.pc \in StepsOf(r.kind), UNCHANGED opCount, opCount \in Nat,
         o > opCount => r.kind = "none", r.pc = "launch" => r.tok = o,
         r.kind = "choose" => r.folder # NoFolder
  PROVE  /\ OpTypes' /\ ops'[o] = r /\ \A p \in Ai!Ops \ {o} : ops'[p] = ops[p]
<1>1. opCount' \in Nat /\ opCount <= opCount'
  OBVIOUS
<1> QED BY <1>1, OpSet

LEMMA OpRests ==
  ASSUME OpTypes, NEW o \in Ai!Ops, ops' = [ops EXCEPT ![o] = Ai!Resting], UNCHANGED opCount, opCount \in Nat
  PROVE  /\ OpTypes' /\ ops'[o] = Ai!Resting /\ \A p \in Ai!Ops \ {o} : ops'[p] = ops[p]
<1>1. Ai!Resting \in OpRecords /\ Ai!Resting.kind = "none" /\ Ai!Resting.pc \in StepsOf(Ai!Resting.kind)
        /\ Ai!Resting.pc # "launch"
  BY RestingKnown
<1> QED BY <1>1, OpPut

LEMMA DoneIs ==
  ASSUME NEW o \in Ai!Ops, Ai!GoesTo(o, "done")
  PROVE  ops' = [ops EXCEPT ![o] = Ai!Resting]
BY DEF Ai!GoesTo

\* conversations are only added
ChatsKept ==
  /\ chats' \in Seq(Folders) /\ Len(chats') <= MaxChats
  /\ \A i \in DOMAIN chats : i \in DOMAIN chats' /\ chats'[i] = chats[i]
LEMMA FitsKept ==
  ASSUME ChatsKept
  PROVE  \A f, c : Fits(f, c) => (c # 0 => c \in DOMAIN chats' /\ chats'[c] = f)
BY DEF ChatsKept, Fits

LEMMA NumbersKnown ==
  ASSUME AiInv
  PROVE  /\ opCount \in 0..MaxOps /\ hostToken \in 0..MaxOps /\ host \in 0..MaxOps /\ retirement \in 0..MaxOps
         /\ opCount \in Nat /\ view.gen \in Nat \ {0} /\ view \in Views /\ OpTypes
         /\ ops \in [Ai!Ops -> OpRecords] /\ \A o \in Ai!Ops : ops[o] \in OpRecords /\ o \in Nat /\ o # 0
<1>1. Ai!Ops = 1..MaxOps
  BY DEF Ai!Ops
<1> QED BY <1>1, AiBounds DEF AiInv, AiTypes, OpTypes, Views

(* The believed agent is lost: the member is told.                           *)
LEMMA LostKeeps ==
  ASSUME AiInv, hostToken # 0,
         view' \in Views, view'.gen >= view.gen, view'.status \in {"error", "unavailable"}, view'.asking = 0,
         host' = 0, hostToken' = 0, accepted' = 0, prompt' = Ai!NoTurn,
         question' = 0, unanswered' = unanswered \ {question}, UNCHANGED asked,
         workers' \in [Ai!Ops -> {"none", "launching", "live", "dead"}], workers'[hostToken] = "dead",
         \A t \in Ai!Ops : workers'[t] \in {workers[t], "dead"},
         UNCHANGED ops \/ \E o \in Ai!Ops : Holding(o) /\ ops' = [ops EXCEPT ![o] = Ai!Resting],
         opCount' = opCount \/ opCount' = opCount + 1, opCount' <= MaxOps,
         WriteShape', UNCHANGED <<pref, aiDisk, chats, retirement, disposed>>
  PROVE  AiInv' /\ Ai!GenerationGrows
<1>1. /\ opCount \in 0..MaxOps /\ hostToken \in 0..MaxOps /\ retirement \in 0..MaxOps /\ opCount \in Nat
      /\ view.gen \in Nat \ {0} /\ OpTypes /\ \A o \in Ai!Ops : o \in Nat /\ o # 0
  BY NumbersKnown
<1>2. opCount' \in 0..MaxOps /\ opCount' \in Nat /\ opCount <= opCount' /\ view'.gen >= view.gen
  BY <1>1, AiBounds
<1>3. /\ ~disposed /\ retirement = 0 /\ pref.folder # NoFolder
      /\ \A o \in Ai!Ops : ops[o].pc # "wait"
      /\ \A o \in Ai!Ops : o = opCount => ~Ending(o)
  BY <1>1 DEF AiInv, TokenShape, LatestShape
<1>4. OpTypes' /\ \A o \in Ai!Ops : ops'[o] = ops[o] \/ (ops'[o] = Ai!Resting /\ Holding(o))
  <2>1. CASE UNCHANGED ops
    BY <1>1, <1>2, <2>1 DEF OpTypes, Ai!Ops
  <2>2. CASE ~UNCHANGED ops
    <3>1. PICK o \in Ai!Ops : Holding(o) /\ ops' = [ops EXCEPT ![o] = Ai!Resting]
      BY <2>2
    <3>2. OpTypes' /\ ops'[o] = Ai!Resting /\ \A p \in Ai!Ops \ {o} : ops'[p] = ops[p]
      BY <1>1, <1>2, <3>1, OpSet, RestingKnown DEF Holding
    <3> QED BY <3>1, <3>2
  <2> QED BY <2>1, <2>2
<1>5. Ai!Resting.kind = "none" /\ Ai!Resting.pc = "done" /\ Ai!NoTurn \in [tok : Nat, gen : Nat, chat : Nat]
  BY RestingKnown
<1>6. \A o \in Ai!Ops : /\ ops'[o].kind # "none" => ops'[o] = ops[o]
                        /\ ops'[o].kind # "none" /\ opCount' # opCount => o # opCount'
  BY <1>1, <1>2, <1>4, <1>5 DEF OpTypes
<1>7. \A o \in Ai!Ops : Working(o)' => Working(o) /\ ops'[o] = ops[o]
  BY <1>4, <1>5 DEF Working
<1>8. AiTypes'
  <2>1. unanswered' = {question'} \ {0} /\ question' \in 0..asked' /\ asked' \in 0..MaxQuestions
    BY DEF AiInv, AiTypes
  <2>2. 0 \in 0..MaxOps
    BY AiBounds
  <2> QED BY <1>1, <1>2, <1>5, <2>1, <2>2 DEF AiInv, AiTypes
<1>9. PrefTypes'
  BY DEF AiInv, PrefTypes, Fits
<1>10. TokenShape'
  <2>1. view'.status # "loading"
    OBVIOUS
  <2> QED BY <2>1 DEF TokenShape
<1>11. HolderShape'
  BY <1>1, <1>7 DEF AiInv, HolderShape, Holder, Fits
<1>12. LatestShape'
  <2> SUFFICES ASSUME NEW o \in Ai!Ops, o = opCount', ~disposed
               PROVE  /\ Working(o)' => hostToken' = 0 /\ view'.status \notin Busy
                      /\ ops'[o].pc # "wait" /\ ~Ending(o)' /\ ops'[o].kind \notin {"choose", "suspend"}
    BY DEF LatestShape
  <2>1. ops'[o].kind # "none" => o = opCount /\ ops'[o] = ops[o]
    BY <1>6
  <2>2. ops'[o].pc # "wait" /\ ~Ending(o)'
    BY <1>3, <1>4, <1>5, <2>1 DEF Ending
  <2> QED BY <2>2 DEF Busy, Ending
<1>13. TurnShape' /\ TranscriptShape'
  BY DEF TurnShape, TranscriptShape, Busy
<1>14. Ai!AgentsAreHeld'
  <2> SUFFICES ASSUME NEW t \in Ai!Ops, workers'[t] \in {"launching", "live"}
               PROVE  \/ ops'[t].pc = "launch"
                      \/ \E o \in Ai!Ops : ops'[o].tok = t /\ ops'[o].pc \in {"cancelTurn", "closeChat"}
    BY DEF Ai!AgentsAreHeld, Ai!At
  <2>1. t # hostToken /\ workers[t] \in {"launching", "live"}
    OBVIOUS
  <2>2. ops[t].pc = "launch" \/ \E o \in Ai!Ops : ops[o].tok = t /\ ops[o].pc \in {"cancelTurn", "closeChat"}
    BY <2>1 DEF AiInv, Ai!AgentsAreHeld, Ai!At
  <2>3. CASE ops[t].pc = "launch"
    BY <1>4, <2>1, <2>3 DEF OpTypes, AiInv, Holding
  <2>4. CASE \E o \in Ai!Ops : ops[o].tok = t /\ ops[o].pc \in {"cancelTurn", "closeChat"}
    BY <1>4, <2>4 DEF Holding, Working
  <2> QED BY <2>2, <2>3, <2>4
<1> QED BY <1>2, <1>4, <1>8, <1>9, <1>10, <1>11, <1>12, <1>13, <1>14 DEF AiInv, Ai!GenerationGrows

(* An operation ends without a word, unless it is the latest and the member waits for it. *)
LEMMA EndsKeeps ==
  ASSUME AiInv, NEW o \in Ai!Ops, ops' = [ops EXCEPT ![o] = Ai!Resting],
         ops[o].pc = "launch" => hostToken # o /\ workers'[o] = "dead",
         ops[o].pc \notin {"cancelTurn", "closeChat"},
         o = opCount /\ ~disposed => view.status \notin Busy,
         workers' \in [Ai!Ops -> {"none", "launching", "live", "dead"}],
         \A t \in Ai!Ops : workers'[t] \in {workers[t], "dead"},
         WriteShape', ChatsKept, aiDisk' \in Ai!Prefs,
         aiDisk'.chat # 0 => aiDisk'.chat \in DOMAIN chats' /\ chats'[aiDisk'.chat] = aiDisk'.folder,
         UNCHANGED <<pref, view, host, hostToken, accepted, prompt, question, unanswered, asked, opCount,
                     retirement,
                     disposed>>
  PROVE  AiInv' /\ Ai!GenerationGrows
<1>1. /\ opCount \in Nat /\ view.gen \in Nat /\ OpTypes
  BY NumbersKnown
<1>2. Ai!Resting.kind = "none" /\ Ai!Resting.pc = "done"
  BY RestingKnown
<1>3. OpTypes' /\ ops'[o] = Ai!Resting /\ \A p \in Ai!Ops \ {o} : ops'[p] = ops[p]
  BY <1>1, OpRests
<1>4. \A p \in Ai!Ops : ops'[p].kind # "none" \/ ops'[p].pc # "done" => ops'[p] = ops[p] /\ p # o
  BY <1>2, <1>3
<1>5. \A f, c : Fits(f, c) => (c # 0 => c \in DOMAIN chats' /\ chats'[c] = f)
  BY FitsKept
<1>6. \A p \in Ai!Ops : Working(p)' => Working(p) /\ ops'[p] = ops[p]
  BY <1>4 DEF Working
<1>7. AiTypes' /\ PrefTypes'
  BY <1>5 DEF AiInv, AiTypes, PrefTypes, Fits, ChatsKept
<1>8. TokenShape'
  BY <1>2, <1>3 DEF AiInv, TokenShape, OpTypes
<1>9. HolderShape'
  <2> SUFFICES ASSUME NEW p \in Ai!Ops, Working(p), ops'[p] = ops[p]
               PROVE  Holder(p)'
    BY <1>6 DEF HolderShape
  <2>1. Holder(p)
    BY DEF AiInv, HolderShape
  <2>2. ops[p].pc = "resume" =>
          (ops[p].chat # 0 => ops[p].chat \in DOMAIN chats' /\ chats'[ops[p].chat] = ops[p].folder)
    BY <1>5, <2>1 DEF Holder
  <2> QED BY <2>1, <2>2 DEF Holder, Fits
<1>10. LatestShape'
  BY <1>2, <1>4, <1>6 DEF AiInv, LatestShape, Ending
<1>11. TurnShape'
  BY <1>1, <1>2, <1>3 DEF AiInv, TurnShape, Busy
<1>12. TranscriptShape'
  BY DEF AiInv, TranscriptShape, ChatsKept, AiTypes
<1>13. Ai!AgentsAreHeld'
  BY <1>3 DEF AiInv, Ai!AgentsAreHeld, Ai!At, OpTypes
<1> QED BY <1>1, <1>3, <1>7, <1>8, <1>9, <1>10, <1>11, <1>12, <1>13 DEF AiInv, Ai!GenerationGrows

(* The operation that holds the agent goes on.                               *)
LEMMA MovesKeeps ==
  ASSUME AiInv, hostToken # 0, NEW o \in Ai!Ops, Holding(o), NEW r \in OpRecords, ops' = [ops EXCEPT ![o] = r],
         r.kind = ops[o].kind, r.tok = hostToken, r.pc \in StepsOf(r.kind), r.folder = pref.folder,
         r.pc \in {"resume", "create", "save"},
         ops[o].kind = "new" => r.pc # "resume",
         r.pc = "create" => accepted' = 0 /\ view'.entries = {},
         r.pc # "create" => /\ accepted' = r.chat /\ accepted' \in DOMAIN chats' /\ accepted' # 0
                            /\ chats'[accepted'] = pref.folder /\ view'.entries \subseteq {accepted'},
         host' = hostToken, view' \in Views, view'.gen = view.gen, view'.status = view.status,
         view'.asking = view.asking,
         workers' \in [Ai!Ops -> {"none", "launching", "live", "dead"}],
         \A t \in Ai!Ops : workers'[t] = workers[t] \/ t = hostToken,
         WriteShape', ChatsKept, UNCHANGED <<pref, aiDisk, hostToken, prompt, question, unanswered, asked, opCount,
                                             retirement, disposed>>
  PROVE  AiInv' /\ Ai!GenerationGrows
<1>1. /\ opCount \in Nat /\ view.gen \in Nat /\ OpTypes /\ host \in 0..MaxOps /\ hostToken \in 0..MaxOps
           /\ hostToken \in Ai!Ops
  BY NumbersKnown DEF Ai!Ops
<1>2. o = opCount /\ view.status = "starting" /\ prompt = Ai!NoTurn /\ ~disposed /\ ops[o].kind \in {"start", "new"}
      /\ ops[o].pc # "done" /\ ops[o].pc \notin {"cancelTurn", "closeChat"} /\ o \in Nat
  BY DEF AiInv, HolderShape, Holder, Holding, Working, TokenShape, Ai!Ops
<1>3. OpTypes' /\ ops'[o] = r /\ \A p \in Ai!Ops \ {o} : ops'[p] = ops[p]
  <2>1. ~(o > opCount) /\ r.pc # "launch" /\ r.kind # "choose"
    BY <1>1, <1>2
  <2> QED BY <1>1, <2>1, OpPut
<1>4. \A f, c : Fits(f, c) => (c # 0 => c \in DOMAIN chats' /\ chats'[c] = f)
  BY FitsKept
<1>5. \A p \in Ai!Ops \ {o} : Working(p)' => Working(p) /\ ops'[p] = ops[p] /\ ops[p].tok # hostToken
  BY <1>2, <1>3 DEF AiInv, HolderShape, Holder, Working
<1>6. accepted' \in {0} \cup DOMAIN chats'
  OBVIOUS
<1>7. AiTypes' /\ PrefTypes'
  BY <1>1, <1>4, <1>6 DEF AiInv, AiTypes, PrefTypes, Fits, ChatsKept
<1>8. TokenShape'
  BY <1>2, <1>3 DEF AiInv, TokenShape
<1>9. HolderShape'
  <2>1. r.folder # NoFolder /\ r.tok <= o
    BY DEF AiInv, TokenShape, HolderShape, Holder, Holding
  <2>2. ops'[o].pc = "resume" =>
          (ops'[o].chat # 0 => ops'[o].chat \in DOMAIN chats' /\ chats'[ops'[o].chat] = ops'[o].folder)
    BY <1>3
  <2>3. Holder(o)'
    BY <1>1, <1>2, <1>3, <2>1, <2>2 DEF Holder, Fits
  <2>4. ASSUME NEW p \in Ai!Ops \ {o}, Working(p), ops'[p] = ops[p], ops[p].tok # hostToken PROVE Holder(p)'
    BY <1>4, <2>4 DEF AiInv, HolderShape, Holder, Fits
  <2> QED BY <1>5, <2>3, <2>4 DEF HolderShape
<1>10. LatestShape'
  BY <1>2, <1>3 DEF LatestShape, Ending, Working
<1>11. TurnShape'
  <2>1. question = 0 /\ view.asking = 0
    BY <1>2 DEF AiInv, TurnShape
  <2> QED BY <1>2, <1>3, <2>1 DEF TurnShape, Busy
<1>12. TranscriptShape'
  BY DEF TranscriptShape
<1>13. Ai!AgentsAreHeld'
  <2> SUFFICES ASSUME NEW t \in Ai!Ops, workers'[t] \in {"launching", "live"}
               PROVE  \/ t = hostToken
                      \/ ops'[t].pc = "launch"
                      \/ \E p \in Ai!Ops : ops'[p].tok = t /\ ops'[p].pc \in {"cancelTurn", "closeChat"}
    BY DEF Ai!AgentsAreHeld, Ai!At
  <2>1. CASE t # hostToken
    <3>1. ops[t].pc = "launch" \/ \E p \in Ai!Ops : ops[p].tok = t /\ ops[p].pc \in {"cancelTurn", "closeChat"}
      BY <2>1 DEF AiInv, Ai!AgentsAreHeld, Ai!At
    <3>2. ops[t].pc = "launch" => t # o
      BY <2>1 DEF Holding, AiInv, OpTypes
    <3> QED BY <1>2, <1>3, <3>1, <3>2
  <2> QED BY <2>1
<1> QED BY <1>1, <1>3, <1>7, <1>8, <1>9, <1>10, <1>11, <1>12, <1>13 DEF AiInv, Ai!GenerationGrows

(* The latest operation, which took the agent down, tells the member.        *)
LEMMA PublishesKeeps ==
  ASSUME AiInv, NEW o \in Ai!Ops, o = opCount, ~disposed, Ending(o), ops' = [ops EXCEPT ![o] = Ai!Resting],
         ops[o].pc \notin {"cancelTurn", "closeChat"},
         view' \in Views, view'.gen >= view.gen, view'.status \in {"not-configured", "configured", "error"},
         view'.asking = 0, pref' \in Ai!Prefs, Fits(pref'.folder, pref'.chat), aiDisk' \in Ai!Prefs,
         Fits(aiDisk'.folder, aiDisk'.chat),
         WriteShape', UNCHANGED <<host, hostToken, accepted, prompt, chats, workers, question, unanswered, asked,
                                  opCount, retirement, disposed>>
  PROVE  AiInv' /\ Ai!GenerationGrows
<1>1. opCount \in Nat /\ OpTypes
  BY NumbersKnown
<1>2. Ai!Resting.kind = "none" /\ Ai!Resting.pc = "done"
  BY RestingKnown
<1>3. OpTypes' /\ ops'[o] = Ai!Resting /\ \A p \in Ai!Ops \ {o} : ops'[p] = ops[p]
  BY <1>1, OpRests
<1>4. hostToken = 0 /\ accepted = 0 /\ prompt = Ai!NoTurn /\ question = 0 /\ host = 0
  BY DEF AiInv, LatestShape, TokenShape, TurnShape
<1>5. \A p \in Ai!Ops : Working(p)' => Working(p) /\ ops'[p] = ops[p]
  BY <1>2, <1>3 DEF Working
<1>6. AiTypes' /\ PrefTypes'
  BY DEF AiInv, AiTypes, PrefTypes, Fits
<1>7. TokenShape'
  BY <1>4 DEF TokenShape
<1>8. HolderShape'
  BY <1>4, <1>5 DEF AiInv, HolderShape, Holder, Fits, Ai!Ops
<1>9. LatestShape'
  BY <1>2, <1>3 DEF LatestShape, Ending, Working
<1>10. TurnShape' /\ TranscriptShape'
  BY <1>4 DEF TurnShape, TranscriptShape, Busy
<1>11. Ai!AgentsAreHeld'
  BY <1>3 DEF AiInv, Ai!AgentsAreHeld, Ai!At, Ending, OpTypes, StepsOf
<1> QED BY <1>1, <1>3, <1>6, <1>7, <1>8, <1>9, <1>10, <1>11 DEF AiInv, Ai!GenerationGrows

(* An operation takes the agent down step by step.                           *)
LEMMA EndingKeeps ==
  ASSUME AiInv, NEW o \in Ai!Ops, Ending(o), NEW r \in OpRecords, ops' = [ops EXCEPT ![o] = r],
         r.kind = ops[o].kind, r.gen = ops[o].gen, r.folder = ops[o].folder, r.pc \in StepsOf(r.kind),
         r.pc # "wait",
         workers' \in [Ai!Ops -> {"none", "launching", "live", "dead"}],
         \A t \in Ai!Ops : workers'[t] \in {workers[t], "dead"}, retirement' \in {retirement, 0},
         \A t \in Ai!Ops : ops[o].tok = t /\ ops[o].pc \in {"cancelTurn", "closeChat"} =>
            workers'[t] = "dead" \/ (r.tok = t /\ r.pc \in {"cancelTurn", "closeChat"}),
         WriteShape', UNCHANGED <<pref, aiDisk, view, host, hostToken, accepted, prompt, chats, question,
                                  unanswered,
                                  asked, opCount, disposed>>
  PROVE  AiInv' /\ Ai!GenerationGrows
<1>1. opCount \in Nat /\ OpTypes /\ view.gen \in Nat /\ retirement \in 0..MaxOps
  BY NumbersKnown
<1>2. ops[o].kind # "none" /\ ~(o > opCount) /\ ops[o].pc # "launch" /\ r.pc # "launch" /\ ~Working(o)
  BY DEF Ending, AiInv, OpTypes, StepsOf, Working
<1> r.kind = "choose" => r.folder # NoFolder
  BY DEF AiInv, OpTypes
<1>3. OpTypes' /\ ops'[o] = r /\ \A p \in Ai!Ops \ {o} : ops'[p] = ops[p]
  BY <1>1, <1>2, OpPut
<1>4. \A p \in Ai!Ops : Working(p)' => Working(p) /\ ops'[p] = ops[p]
  BY <1>2, <1>3 DEF Working, Ending
<1>5. AiTypes' /\ PrefTypes'
  BY <1>1, AiBounds DEF AiInv, AiTypes, PrefTypes, Fits
<1>6. TokenShape'
  BY <1>2, <1>3 DEF AiInv, TokenShape, Ai!Ops, AiTypes
<1>7. HolderShape'
  BY <1>4 DEF AiInv, HolderShape, Holder, Fits
<1>8. LatestShape'
  BY <1>3, <1>4 DEF AiInv, LatestShape, Ending
<1>9. TurnShape' /\ TranscriptShape'
  BY <1>3 DEF AiInv, TurnShape, TranscriptShape
<1>10. Ai!AgentsAreHeld'
  BY <1>2, <1>3 DEF AiInv, Ai!AgentsAreHeld, Ai!At
<1> QED BY <1>1, <1>3, <1>5, <1>6, <1>7, <1>8, <1>9, <1>10 DEF AiInv, Ai!GenerationGrows

(* The agent and the member talk.                                            *)
LEMMA TalkKeeps ==
  ASSUME AiInv, hostToken # 0, view' \in Views, view'.gen = view.gen, view'.status = view.status,
         view'.entries = view.entries \/ (accepted # 0 /\ view'.entries = view.entries \cup {accepted}),
         asked' \in 0..MaxQuestions, question' \in 0..asked', unanswered' = {question'} \ {0},
         view'.asking = question', question' # 0 => prompt # Ai!NoTurn,
         UNCHANGED <<writes, pref, aiDisk, host, hostToken, accepted, prompt, chats, workers, ops, opCount,
                     retirement,
                     disposed>>
  PROVE  AiInv' /\ Ai!GenerationGrows
<1>1. opCount \in Nat /\ view.gen \in Nat
  BY NumbersKnown
<1>2. \A o \in Ai!Ops : o = opCount => ~Ending(o) /\ ops[o].pc # "wait"
  BY DEF AiInv, LatestShape, TokenShape
<1>3. AiTypes' /\ PrefTypes'
  BY DEF AiInv, AiTypes, PrefTypes, Fits
<1>4. OpTypes' /\ WriteShape'
  BY DEF AiInv, OpTypes, WriteShape, Fits, Working
<1>5. TokenShape'
  BY DEF AiInv, TokenShape
<1>6. HolderShape'
  BY DEF AiInv, HolderShape, Holder, Fits, Working
<1>7. LatestShape'
  BY <1>2 DEF AiInv, LatestShape, Ending, Working
<1>8. TurnShape' /\ TranscriptShape'
  BY DEF AiInv, TurnShape, TranscriptShape
<1>9. Ai!AgentsAreHeld'
  BY DEF AiInv, Ai!AgentsAreHeld, Ai!At
<1> QED BY <1>1, <1>3, <1>4, <1>5, <1>6, <1>7, <1>8, <1>9 DEF AiInv, Ai!GenerationGrows

LEMMA OpBegins ==
  ASSUME AiInv, opCount < MaxOps, opCount' = opCount + 1, NEW r \in OpRecords,
         ops' = [ops EXCEPT ![opCount + 1] = r], r.pc \in StepsOf(r.kind), r.pc # "launch",
         r.kind = "choose" => r.folder # NoFolder
  PROVE  /\ OpTypes' /\ opCount' \in Ai!Ops /\ opCount' \in 0..MaxOps /\ ops'[opCount'] = r /\ opCount' # 0
         /\ \A p \in Ai!Ops \ {opCount'} : ops'[p] = ops[p]
         /\ ops[opCount'].kind = "none" /\ ops[opCount'].pc = "done"
         /\ \A p \in Ai!Ops : p = opCount => p # opCount'
<1>1. opCount \in Nat /\ OpTypes
  BY NumbersKnown
<1>2. opCount' \in Ai!Ops /\ opCount' \in 0..MaxOps /\ opCount' \in Nat /\ opCount' > opCount /\ opCount <= opCount'
      /\ opCount' # 0 /\ ~(opCount' > opCount')
  BY <1>1, AiBounds DEF Ai!Ops
<1>3. OpTypes' /\ ops'[opCount'] = r /\ \A p \in Ai!Ops \ {opCount'} : ops'[p] = ops[p]
  <2> DEFINE o == opCount + 1
  <2>1. ops' = [ops EXCEPT ![o] = r] /\ o \in Ai!Ops /\ o = opCount'
    BY <1>2
  <2> HIDE DEF o
  <2> QED BY <1>1, <1>2, <2>1, OpSet
<1>4. ops[opCount'].kind = "none" /\ ops[opCount'].pc = "done"
  BY <1>1, <1>2 DEF OpTypes, StepsOf
<1> QED BY <1>2, <1>3, <1>4

LEMMA AiStarts == Ai!Init => AiInv /\ disposed \in BOOLEAN
<1> SUFFICES ASSUME Ai!Init PROVE AiInv /\ disposed \in BOOLEAN
  OBVIOUS
<1>1. PICK f \in Folders \cup {NoFolder}, n \in 0..1 :
        /\ f = NoFolder => n = 0
        /\ chats = (IF n = 1 THEN <<f>> ELSE <<>>)
        /\ aiDisk = [folder |-> f, chat |-> n]
  BY DEF Ai!Init
<1>2. chats \in Seq(Folders) /\ Len(chats) <= MaxChats /\ aiDisk \in Ai!Prefs /\ Fits(aiDisk.folder, aiDisk.chat)
  <2>1. CASE n = 1
    <3>1. f \in Folders /\ chats = <<f>>
      BY <1>1, <2>1
    <3>2. chats \in Seq(Folders) /\ Len(chats) = 1 /\ DOMAIN chats = 1..1 /\ chats[1] = f
      BY ONLY <3>1
    <3>3. aiDisk \in Ai!Prefs /\ aiDisk.folder = f /\ aiDisk.chat = 1
      BY <1>1, <2>1, AiBounds DEF Ai!Prefs
    <3> QED BY <3>2, <3>3, AiBounds DEF Fits
  <2>2. CASE n = 0
    <3>1. chats = <<>> /\ aiDisk.chat = 0 /\ aiDisk \in Ai!Prefs
      BY <1>1, <2>2, AiBounds DEF Ai!Prefs
    <3> QED BY <3>1, AiBounds DEF Fits
  <2> QED BY <2>1, <2>2
<1>3. pref \in Ai!Prefs /\ pref.chat = 0 /\ writes = <<>>
  BY AiBounds DEF Ai!Init, Ai!NoPref, Ai!Prefs
<1>4. view \in Views /\ view.status = "loading" /\ view.asking = 0
  BY AiBounds DEF Ai!Init, Views, Ai!Statuses
<1>5. Ai!Resting \in OpRecords /\ Ai!Resting.kind = "none" /\ Ai!Resting.pc = "done"
        /\ Ai!Resting.pc \in StepsOf(Ai!Resting.kind)
      /\ Ai!NoTurn \in [tok : Nat, gen : Nat, chat : Nat]
  BY RestingKnown
<1>6. /\ host = 0 /\ hostToken = 0 /\ accepted = 0 /\ prompt = Ai!NoTurn /\ question = 0 /\ unanswered = {}
           /\ asked = 0
      /\ workers = [o \in Ai!Ops |-> "none"] /\ ops = [o \in Ai!Ops |-> Ai!Resting] /\ opCount = 0 /\ retirement = 0
  BY DEF Ai!Init
<1>7. AiTypes /\ PrefTypes
  BY <1>2, <1>3, <1>4, <1>5, <1>6, AiBounds DEF AiTypes, PrefTypes, Fits
<1>8. OpTypes
  BY <1>5, <1>6 DEF OpTypes
<1>9. \A o \in Ai!Ops : ops[o].kind = "none" /\ ops[o].pc = "done"
  BY <1>5, <1>6
<1>10. WriteShape
  BY <1>3 DEF WriteShape
<1>11. TokenShape /\ HolderShape /\ LatestShape
  BY <1>4, <1>6, <1>9 DEF TokenShape, HolderShape, LatestShape, Working, Ending
<1>12. TurnShape /\ TranscriptShape /\ Ai!AgentsAreHeld
  BY <1>4, <1>6 DEF TurnShape, TranscriptShape, Ai!AgentsAreHeld, Busy
<1>13. disposed \in BOOLEAN
  BY Zenon DEF Ai!Init
<1> QED BY <1>7, <1>8, <1>10, <1>11, <1>12, <1>13 DEF AiInv

LEMMA InitializeKeeps ==
  ASSUME AiInv, Ai!Initialize
  PROVE  AiInv' /\ Ai!GenerationGrows
<1>1. /\ ~disposed /\ view.status = "loading" /\ UNCHANGED <<aiDisk, writes, host, hostToken, accepted, prompt,
                                                             question, unanswered, asked, chats, workers, ops,
                                                             opCount, retirement, disposed>>
  BY DEF Ai!Initialize, Ai!turnVars, Ai!askVars
<1>2. view \in Views /\ view.gen \in Nat /\ opCount \in Nat /\ aiDisk \in Ai!Prefs
  BY NumbersKnown DEF AiInv, PrefTypes
<1>3. /\ view' \in Views /\ view'.gen = view.gen /\ view'.entries = view.entries /\ view'.asking = view.asking
      /\ view'.status \in {"not-configured", "configured", "unavailable"}
  <2>1. PICK st \in {"not-configured", "configured", "unavailable"} : view' = [view EXCEPT !.status = st]
    BY DEF Ai!Initialize, Ai!ConfiguredStatus
  <2>2. st \in Ai!Statuses
    BY DEF Ai!Statuses
  <2> QED BY <1>2, <2>1, <2>2 DEF Views
<1>4. pref' \in Ai!Prefs /\ Fits(pref'.folder, pref'.chat)
  BY AiBounds DEF Ai!Initialize, AiInv, PrefTypes, Fits, Ai!NoPref, Ai!Prefs
<1>5. hostToken = 0 /\ opCount = 0 /\ prompt = Ai!NoTurn /\ accepted = 0
  BY <1>1 DEF AiInv, TokenShape
<1>6. question = 0 /\ view.asking = 0
  BY <1>1, <1>5 DEF AiInv, TurnShape
<1>7. AiTypes' /\ PrefTypes' /\ OpTypes' /\ WriteShape'
  BY <1>1, <1>3, <1>4 DEF AiInv, AiTypes, PrefTypes, OpTypes, WriteShape, Fits, Working
<1>8. TokenShape' /\ TurnShape' /\ TranscriptShape'
  BY <1>1, <1>3, <1>5, <1>6 DEF AiInv, TokenShape, TurnShape, TranscriptShape, Busy
<1>9. LatestShape'
  BY <1>1, <1>5 DEF LatestShape, Ai!Ops
<1>10. HolderShape'
  BY <1>1, <1>5 DEF AiInv, HolderShape, Holder, Working, Fits, Ai!Ops
<1>11. Ai!AgentsAreHeld'
  BY <1>1 DEF AiInv, Ai!AgentsAreHeld, Ai!At
<1> QED BY <1>2, <1>3, <1>7, <1>8, <1>9, <1>10, <1>11 DEF AiInv, Ai!GenerationGrows

(* A new operation begins while no agent is believed.                        *)
LEMMA BeginsKeeps ==
  ASSUME AiInv, hostToken' = 0, host' = 0, accepted' = 0, prompt' = Ai!NoTurn, question' = 0,
         unanswered' = unanswered \ {question}, UNCHANGED asked, opCount < MaxOps, opCount' = opCount + 1,
         NEW r \in OpRecords, ops' = [ops EXCEPT ![opCount + 1] = r], r.pc \in StepsOf(r.kind), r.kind # "none",
         r.pc # "launch", ~(r.kind = "start" /\ r.pc # "wait"), r.kind # "new",
         view' \in Views, view'.gen >= view.gen,
         ~disposed' => view.status # "loading",
         view'.status = "loading" => view.status = "loading",
         r.kind = "start" => view'.status = "starting" /\ view'.entries = {} /\ pref.folder # NoFolder,
         ~disposed' /\ view'.asking # 0 => view'.status = "running" /\ r.kind \in {"choose", "suspend"},
         r.kind \in {"choose", "suspend"} => view'.gen <= r.gen,
         r.kind = "choose" => r.folder # NoFolder, r.kind = "dispose" => disposed',
         retirement' \in 0..MaxOps, workers' \in [Ai!Ops -> {"none", "launching", "live", "dead"}],
         \A t \in Ai!Ops : workers'[t] \in {workers[t], "dead"},
         host # 0 => workers'[host] = "dead" \/ (r.tok = host /\ r.pc \in {"cancelTurn", "closeChat"}),
         disposed => disposed',
         UNCHANGED <<writes, pref, aiDisk, chats>>
  PROVE  AiInv' /\ Ai!GenerationGrows
<1>1. /\ OpTypes' /\ opCount' \in Ai!Ops /\ opCount' \in 0..MaxOps /\ ops'[opCount'] = r
      /\ \A p \in Ai!Ops \ {opCount'} : ops'[p] = ops[p]
      /\ ops[opCount'].kind = "none" /\ ops[opCount'].pc = "done" /\ opCount' # 0
  BY OpBegins
<1>2. \A p \in Ai!Ops : /\ p = opCount' => ~Working(p)'
                        /\ Working(p)' => Working(p) /\ ops'[p] = ops[p]
  <2>1. r.kind # "start" \/ r.pc = "wait"
    OBVIOUS
  <2> QED BY <1>1, <2>1 DEF Working
<1>3. Ai!NoTurn \in [tok : Nat, gen : Nat, chat : Nat] /\ 0 \in 0..MaxOps
  BY RestingKnown, AiBounds
<1>4. unanswered' = {question'} \ {0} /\ question' \in 0..asked' /\ asked' \in 0..MaxQuestions
  BY DEF AiInv, AiTypes
<1>5. AiTypes'
  BY <1>1, <1>3, <1>4 DEF AiInv, AiTypes
<1>6. PrefTypes'
  BY DEF AiInv, PrefTypes, Fits
<1>7. WriteShape'
  <2> DEFINE W == [op : Ai!Ops, pref : Ai!Prefs]
  <2>1. writes \in Seq(W) /\ \A i \in DOMAIN writes : ops[writes[i].op].pc = "save"
    BY DEF AiInv, WriteShape, Suits
  <2>2. \A i \in DOMAIN writes : writes[i] \in W
    <3> HIDE DEF W
    <3> QED BY <2>1
  <2>3. \A i \in DOMAIN writes : writes[i].op \in Ai!Ops
    BY <2>2
  <2>4. \A i \in DOMAIN writes : ops'[writes[i].op] = ops[writes[i].op]
    BY <1>1, <2>1, <2>3
  <2> QED BY <2>1, <2>4 DEF AiInv, WriteShape, Fits, Working
<1>8. TokenShape'
  BY DEF AiInv, TokenShape
<1>9. HolderShape'
  BY <1>2 DEF AiInv, HolderShape, Holder, Fits, Ai!Ops
<1>10. LatestShape'
  BY <1>1, <1>2 DEF LatestShape
<1>11. TurnShape' /\ TranscriptShape'
  BY <1>1 DEF TurnShape, TranscriptShape
<1>12. Ai!AgentsAreHeld'
  <2> SUFFICES ASSUME NEW t \in Ai!Ops, workers'[t] \in {"launching", "live"}
               PROVE  \/ ops'[t].pc = "launch"
                      \/ \E p \in Ai!Ops : ops'[p].tok = t /\ ops'[p].pc \in {"cancelTurn", "closeChat"}
    BY DEF Ai!AgentsAreHeld, Ai!At
  <2>1. CASE host = t
    BY <1>1, <2>1 DEF Ai!Ops
  <2>2. CASE host # t
    <3>1. ops[t].pc = "launch" \/ \E p \in Ai!Ops : ops[p].tok = t /\ ops[p].pc \in {"cancelTurn", "closeChat"}
      BY <2>2 DEF AiInv, Ai!AgentsAreHeld, Ai!At
    <3> QED BY <1>1, <3>1
  <2> QED BY <2>1, <2>2
<1> QED BY <1>1, <1>5, <1>6, <1>7, <1>8, <1>9, <1>10, <1>11, <1>12 DEF AiInv, Ai!GenerationGrows

(* The saves that wait.                                                      *)
LEMMA WritesKnown ==
  ASSUME WriteShape
  PROVE  \A i \in DOMAIN writes : writes[i] \in [op : Ai!Ops, pref : Ai!Prefs] /\ writes[i].op \in Ai!Ops
           /\ writes[i].pref \in Ai!Prefs
<1> DEFINE W == [op : Ai!Ops, pref : Ai!Prefs]
<1>1. writes \in Seq(W)
  BY DEF WriteShape
<1>2. \A i \in DOMAIN writes : writes[i] \in W
  <2> HIDE DEF W
  <2> QED BY <1>1
<1> QED BY <1>2

LEMMA WritesKept ==
  ASSUME AiInv, UNCHANGED writes, ChatsKept, NEW o \in Ai!Ops, ops[o].pc # "save",
         \A p \in Ai!Ops \ {o} : ops'[p] = ops[p]
  PROVE  WriteShape'
<1>1. WriteShape /\ \A i \in DOMAIN writes : writes[i].op \in Ai!Ops
  BY WritesKnown DEF AiInv
<1>2. \A i \in DOMAIN writes : ops'[writes[i].op] = ops[writes[i].op]
  BY <1>1 DEF WriteShape, Suits
<1>3. \A f, c : Fits(f, c) => (c # 0 => c \in DOMAIN chats' /\ chats'[c] = f)
  BY FitsKept
<1> QED BY <1>1, <1>2, <1>3 DEF WriteShape, Fits, Working

LEMMA WritesGrow ==
  ASSUME AiInv, ChatsKept, NEW o \in Ai!Ops, ops[o].pc # "save", \A p \in Ai!Ops \ {o} : ops'[p] = ops[p],
         NEW p \in Ai!Prefs, writes' = Append(writes, [op |-> o, pref |-> p]), Suits(p, ops'[o]),
         p.chat # 0 => p.chat \in DOMAIN chats' /\ chats'[p.chat] = p.folder
  PROVE  WriteShape'
<1> DEFINE W == [op : Ai!Ops, pref : Ai!Prefs]
           w == [op |-> o, pref |-> p]
<1>1. WriteShape /\ \A i \in DOMAIN writes : writes[i].op \in Ai!Ops
  BY WritesKnown DEF AiInv
<1>2. \A i \in DOMAIN writes : ops'[writes[i].op] = ops[writes[i].op] /\ writes[i].op # o
  BY <1>1 DEF WriteShape, Suits
<1>3. \A f, c : Fits(f, c) => (c # 0 => c \in DOMAIN chats' /\ chats'[c] = f)
  BY FitsKept
<1>4. writes \in Seq(W) /\ w \in W /\ w.op = o /\ w.pref = p /\ writes' = Append(writes, w)
  BY <1>1 DEF WriteShape
<1>5. /\ writes' \in Seq(W)
      /\ \A i \in DOMAIN writes' : \/ i \in DOMAIN writes /\ writes'[i] = writes[i]
                                   \/ i = Len(writes) + 1 /\ writes'[i] = w
  <2> HIDE DEF W, w
  <2> QED BY <1>4
<1> HIDE DEF w
<1>6. \A i \in DOMAIN writes' : writes'[i].op = o => i = Len(writes) + 1
  BY <1>2, <1>5
<1>7. \A i \in DOMAIN writes' : writes'[i].op # o => i \in DOMAIN writes /\ writes'[i] = writes[i]
  BY <1>4, <1>5
<1>8. \A i, j \in DOMAIN writes' : writes'[i].op = writes'[j].op => i = j
  BY <1>1, <1>6, <1>7 DEF WriteShape
<1>9. \A i \in DOMAIN writes' :
        /\ Suits(writes'[i].pref, ops'[writes'[i].op])
        /\ writes'[i].pref.chat # 0 => /\ writes'[i].pref.chat \in DOMAIN chats'
                                       /\ chats'[writes'[i].pref.chat] = writes'[i].pref.folder
  <2> SUFFICES ASSUME NEW i \in DOMAIN writes'
               PROVE  /\ Suits(writes'[i].pref, ops'[writes'[i].op])
                      /\ writes'[i].pref.chat # 0 => /\ writes'[i].pref.chat \in DOMAIN chats'
                                                     /\ chats'[writes'[i].pref.chat] = writes'[i].pref.folder
    OBVIOUS
  <2>1. CASE writes'[i].op = o
    BY <1>4, <1>5, <1>6, <2>1
  <2>2. CASE writes'[i].op # o
    BY <1>1, <1>2, <1>3, <1>7, <2>2 DEF WriteShape
  <2> QED BY <2>1, <2>2
<1> QED BY <1>5, <1>8, <1>9 DEF WriteShape, Fits

LEMMA WritesShrink ==
  ASSUME AiInv, writes # <<>>, writes' = Tail(writes), UNCHANGED chats, NEW o \in Ai!Ops, o = Head(writes).op,
         \A p \in Ai!Ops \ {o} : ops'[p] = ops[p]
  PROVE  WriteShape'
<1> DEFINE W == [op : Ai!Ops, pref : Ai!Prefs]
<1>1. WriteShape /\ writes \in Seq(W) /\ \A i \in DOMAIN writes : writes[i].op \in Ai!Ops
  BY WritesKnown DEF AiInv, WriteShape
<1>2. /\ writes' \in Seq(W) /\ 1 \in DOMAIN writes /\ Head(writes) = writes[1]
      /\ \A i \in DOMAIN writes' : i + 1 \in DOMAIN writes /\ writes'[i] = writes[i + 1] /\ i \in Nat \ {0}
  <2> HIDE DEF W
  <2> QED BY <1>1
<1>3. \A i \in DOMAIN writes' : i + 1 # 1
  BY <1>2
<1>4. \A i \in DOMAIN writes' : writes'[i].op # o /\ writes'[i].op \in Ai!Ops
  BY <1>1, <1>2, <1>3 DEF WriteShape
<1>5. \A i, j \in DOMAIN writes' : writes'[i].op = writes'[j].op => i = j
  <2> SUFFICES ASSUME NEW i \in DOMAIN writes', NEW j \in DOMAIN writes', writes'[i].op = writes'[j].op PROVE i = j
    OBVIOUS
  <2>1. i + 1 = j + 1
    BY <1>1, <1>2 DEF WriteShape
  <2> QED BY <1>2, <2>1
<1>6. \A i \in DOMAIN writes' : ops'[writes'[i].op] = ops[writes'[i].op]
  BY <1>4
<1> QED BY <1>1, <1>2, <1>5, <1>6 DEF WriteShape, Fits, Working

(* An operation that talks to the agent, and holds it or lost it.            *)
LEMMA TalksIs ==
  ASSUME AiInv, NEW o \in Ai!Ops, ops[o].pc \in {"launch", "resume", "close", "create"}
  PROVE  /\ Working(o) /\ ops[o].tok \in Ai!Ops /\ ops[o].pc # "save" /\ ops[o] \in OpRecords
         /\ ops[o].pc = "launch" => ops[o].kind = "start" /\ ops[o].tok = o
         /\ ops[o].pc = "resume" => ops[o].kind = "start"
<1>1. Working(o)
  BY DEF AiInv, OpTypes, StepsOf, OpRecords, OpKinds, Working
<1> QED BY <1>1, NumbersKnown DEF AiInv, HolderShape, Holder, OpTypes, StepsOf, Working

LEMMA HeldIs ==
  ASSUME AiInv, NEW o \in Ai!Ops, Working(o), Ai!HasToken(ops[o].tok)
  PROVE  /\ hostToken # 0 /\ hostToken \in Ai!Ops /\ Holding(o) /\ Ai!Current(o) /\ o = opCount /\ ~disposed
         /\ view.status = "starting" /\ prompt = Ai!NoTurn /\ pref.folder # NoFolder /\ pref.folder \in Folders
         /\ ops[o].pc # "launch" => host = hostToken /\ ops[o].folder = pref.folder
         /\ ops[o].pc = "launch" => host = 0 /\ accepted = 0 /\ view.entries = {}
         /\ ops[o].pc \in {"close", "create"} => accepted = 0 /\ view.entries = {}
         /\ ops[o].pc \in {"resume", "save"} => accepted = ops[o].chat /\ accepted # 0
<1>1. hostToken = ops[o].tok /\ hostToken \in Ai!Ops /\ hostToken # 0
  BY DEF Ai!HasToken, AiInv, HolderShape, Holder, Ai!Ops
<1>2. pref.folder # NoFolder /\ pref.folder \in Folders
  BY <1>1 DEF AiInv, TokenShape, PrefTypes, Ai!Prefs
<1> QED BY <1>1, <1>2 DEF Ai!HasToken, AiInv, HolderShape, Holder, Holding, Ai!Current

LEMMA LostIs ==
  ASSUME AiInv, NEW o \in Ai!Ops, Working(o), ~Ai!HasToken(ops[o].tok)
  PROVE  /\ ops[o].pc \notin {"cancelTurn", "closeChat"}
         /\ o = opCount /\ ~disposed => view.status \notin Busy
         /\ ops[o].pc = "launch" => hostToken # o
         /\ ~Holding(o)
<1>1. ops[o].tok \in Ai!Ops /\ (ops[o].pc = "launch" => ops[o].tok = o) /\ o # 0
  BY DEF AiInv, HolderShape, Holder, OpTypes, Ai!Ops
<1>2. hostToken # ops[o].tok
  <2>1. CASE disposed
    BY <1>1, <2>1 DEF AiInv, TokenShape, Ai!Ops
  <2>2. CASE ~disposed
    BY <2>2 DEF Ai!HasToken
  <2> QED BY <2>1, <2>2
<1> QED BY <1>1, <1>2 DEF AiInv, LatestShape, Working, Holding

LEMMA SameChats ==
  ASSUME AiInv, UNCHANGED chats
  PROVE  ChatsKept
BY DEF AiInv, AiTypes, ChatsKept

LEMMA KillIs ==
  ASSUME AiInv, NEW t \in Ai!Ops, Ai!Kill(t)
  PROVE  /\ workers' \in [Ai!Ops -> {"none", "launching", "live", "dead"}] /\ workers'[t] = "dead"
         /\ \A s \in Ai!Ops : workers'[s] \in {workers[s], "dead"}
BY DEF Ai!Kill, AiInv, AiTypes

LEMMA QuietWorkers ==
  ASSUME AiInv, UNCHANGED workers
  PROVE  /\ workers' \in [Ai!Ops -> {"none", "launching", "live", "dead"}]
         /\ \A s \in Ai!Ops : workers'[s] \in {workers[s], "dead"}
BY DEF AiInv, AiTypes

(* A save or a call ends quietly.                                            *)
LEMMA QuietEnd ==
  ASSUME AiInv, NEW o \in Ai!Ops, Working(o), ~Ai!HasToken(ops[o].tok), Ai!GoesTo(o, "done"),
         ops[o].pc = "launch" => workers'[o] = "dead",
         workers' \in [Ai!Ops -> {"none", "launching", "live", "dead"}],
         \A t \in Ai!Ops : workers'[t] \in {workers[t], "dead"}, ops[o].pc # "save", UNCHANGED writes,
         ChatsKept, UNCHANGED <<aiDisk, pref, view, host, hostToken, accepted, prompt, question, unanswered, asked,
                                opCount, retirement, disposed>>
  PROVE  AiInv' /\ Ai!GenerationGrows
<1>1. ops' = [ops EXCEPT ![o] = Ai!Resting] /\ OpTypes /\ opCount \in Nat
  BY DoneIs, NumbersKnown
<1>2. OpTypes' /\ \A p \in Ai!Ops \ {o} : ops'[p] = ops[p]
  BY <1>1, OpRests
<1>3. WriteShape'
  BY <1>2, WritesKept
<1>4. aiDisk' \in Ai!Prefs
        /\ (aiDisk'.chat # 0 => aiDisk'.chat \in DOMAIN chats' /\ chats'[aiDisk'.chat] = aiDisk'.folder)
  BY FitsKept DEF AiInv, PrefTypes
<1> QED BY <1>1, <1>3, <1>4, LostIs, EndsKeeps

LEMMA AgentUpKeeps ==
  ASSUME AiInv, NEW o \in Ai!Ops, Ai!AgentUp(o)
  PROVE  AiInv' /\ Ai!GenerationGrows
<1>1. /\ UNCHANGED <<writes, aiDisk, chats, pref, view, hostToken, prompt, question, unanswered, asked, opCount,
                     retirement, disposed>> /\ ops[o].pc = "launch"
  BY DEF Ai!AgentUp, Ai!At, Ai!saveVars, Ai!turnVars, Ai!askVars
<1>2. Working(o) /\ ops[o].tok = o /\ ops[o].pc # "save" /\ ops[o].kind = "start" /\ ops[o] \in OpRecords
        /\ ChatsKept
  BY <1>1, TalksIs, SameChats
<1>3. CASE Ai!HasToken(o)
  <2>1. /\ hostToken # 0 /\ hostToken = o /\ Holding(o) /\ Ai!Current(o) /\ accepted = 0 /\ view.entries = {}
        /\ pref.folder \in Folders
    BY <1>1, <1>2, <1>3, HeldIs DEF Ai!HasToken
  <2>2. /\ host' = o /\ accepted' = pref.chat
        /\ workers' = [workers EXCEPT ![o] = IF @ = "launching" THEN "live" ELSE @]
    BY <1>3, <2>1 DEF Ai!AgentUp
  <2> DEFINE r == [ops[o] EXCEPT !.folder = pref.folder, !.chat = pref.chat,
                                 !.pc = IF pref.chat # 0 THEN "resume" ELSE "create"]
  <2>3. /\ ops' = [ops EXCEPT ![o] = r]
    BY <1>3, <2>1 DEF Ai!AgentUp, AiInv, OpTypes
  <2>4. pref \in Ai!Prefs /\ pref.chat \in 0..MaxChats
    BY DEF AiInv, PrefTypes, Ai!Prefs
  <2>5. /\ r \in OpRecords /\ r.kind = ops[o].kind /\ r.tok = hostToken /\ r.folder = pref.folder
             /\ r.chat = pref.chat
        /\ r.pc = (IF pref.chat # 0 THEN "resume" ELSE "create")
    BY <1>2, <2>1, <2>4 DEF OpRecords, OpPcs
  <2> HIDE DEF r
  <2>6. r.pc \in StepsOf(r.kind)
    BY <1>2, <2>5 DEF StepsOf
  <2>7. pref.chat # 0 => pref.chat \in DOMAIN chats /\ chats[pref.chat] = pref.folder
    BY DEF AiInv, PrefTypes, Fits
  <2>8. /\ workers' \in [Ai!Ops -> {"none", "launching", "live", "dead"}]
        /\ \A t \in Ai!Ops : workers'[t] = workers[t] \/ t = hostToken
    BY <2>1, <2>2 DEF AiInv, AiTypes
  <2>9. WriteShape'
    <3>1. \A p \in Ai!Ops \ {o} : ops'[p] = ops[p]
      BY <2>3 DEF AiInv, OpTypes
    <3> QED BY <1>1, <1>2, <3>1, WritesKept
  <2>10. view' \in Views
    BY <1>1, NumbersKnown
  <2> QED BY <1>1, <1>2, <2>1, <2>2, <2>3, <2>5, <2>6, <2>7, <2>8, <2>9, <2>10, MovesKeeps
<1>4. CASE ~Ai!HasToken(o)
  <2>1. Ai!GoesTo(o, "done") /\ Ai!Kill(o) /\ UNCHANGED <<host, accepted>>
    BY <1>4 DEF Ai!AgentUp
  <2> QED BY <1>1, <1>2, <1>4, <2>1, KillIs, QuietEnd
<1> QED BY <1>3, <1>4

LEMMA ChatResumedKeeps ==
  ASSUME AiInv, NEW o \in Ai!Ops, Ai!Resumed(o)
  PROVE  AiInv' /\ Ai!GenerationGrows
<1>1. /\ UNCHANGED <<aiDisk, chats, pref, view, hostToken, host, accepted, workers, prompt, question, unanswered,
                     asked, opCount, retirement, disposed>> /\ ops[o].pc = "resume"
  BY DEF Ai!Resumed, Ai!At, Ai!turnVars, Ai!askVars
<1>2. Working(o) /\ ops[o].tok \in Ai!Ops /\ ops[o].pc # "save" /\ ops[o].kind = "start"
        /\ ops[o] \in OpRecords /\ ChatsKept
  BY <1>1, TalksIs, SameChats
<1>3. CASE Ai!HasToken(ops[o].tok)
  <2>1. /\ hostToken # 0 /\ Holding(o) /\ ops[o].folder = pref.folder /\ host = hostToken
        /\ accepted = ops[o].chat /\ accepted # 0 /\ pref.folder \in Folders /\ pref.folder # NoFolder
    BY <1>1, <1>2, <1>3, HeldIs
  <2> DEFINE r == [ops[o] EXCEPT !.pc = "save"]
             p == [folder |-> ops[o].folder, chat |-> ops[o].chat]
  <2>2. ops' = [ops EXCEPT ![o] = r] /\ writes' = Append(writes, [op |-> o, pref |-> p])
    BY <1>3 DEF Ai!Resumed, Ai!GoesTo, Ai!SaveAsked, AiInv, OpTypes
  <2>3. /\ r \in OpRecords /\ r.kind = "start" /\ r.tok = hostToken /\ r.folder = pref.folder /\ r.chat = accepted
        /\ r.pc = "save" /\ r.pc \in StepsOf(r.kind)
    BY <1>2, <2>1 DEF OpRecords, OpPcs, StepsOf, Holding
  <2>4. p \in Ai!Prefs /\ p.folder = r.folder /\ p.chat = r.chat
    BY <1>2 DEF OpRecords, Ai!Prefs
  <2> HIDE DEF r, p
  <2>5. accepted \in DOMAIN chats /\ chats[accepted] = pref.folder /\ view.entries \subseteq {accepted}
          /\ view \in Views
    BY <2>1, NumbersKnown DEF AiInv, TranscriptShape, AiTypes
  <2>6. WriteShape'
    <3>1. (\A q \in Ai!Ops \ {o} : ops'[q] = ops[q]) /\ ops'[o] = r
      BY <2>2 DEF AiInv, OpTypes
    <3>2. Suits(p, ops'[o]) /\ (p.chat # 0 => p.chat \in DOMAIN chats' /\ chats'[p.chat] = p.folder)
      BY <1>1, <2>1, <2>3, <2>4, <2>5, <3>1 DEF Suits
    <3> QED BY <1>2, <2>2, <2>4, <3>1, <3>2, WritesGrow
  <2> QED BY <1>1, <1>2, <2>1, <2>2, <2>3, <2>5, <2>6, QuietWorkers, MovesKeeps
<1>4. CASE ~Ai!HasToken(ops[o].tok)
  BY <1>1, <1>2, <1>4, QuietWorkers, QuietEnd DEF Ai!Resumed
<1> QED BY <1>3, <1>4

LEMMA AgentMissingKeeps ==
  ASSUME AiInv, NEW o \in Ai!Ops, Ai!AgentMissing(o)
  PROVE  AiInv' /\ Ai!GenerationGrows
<1>1. /\ UNCHANGED <<writes, aiDisk, chats, pref, host, accepted, prompt, question, unanswered, asked, opCount,
                     retirement, disposed>> /\ ops[o].pc = "launch" /\ Ai!GoesTo(o, "done") /\ Ai!Kill(o)
  BY DEF Ai!AgentMissing, Ai!At, Ai!saveVars, Ai!turnVars, Ai!askVars
<1>2. Working(o) /\ ops[o].tok = o /\ ops[o].pc # "save" /\ ChatsKept
  BY <1>1, TalksIs, SameChats
<1>3. CASE Ai!HasToken(o)
  <2>1. /\ hostToken # 0 /\ hostToken = o /\ Holding(o) /\ Ai!Current(o) /\ accepted = 0 /\ host = 0
             /\ prompt = Ai!NoTurn
        /\ view.status = "starting" /\ ~disposed
    BY <1>1, <1>2, <1>3, HeldIs DEF Ai!HasToken
  <2>2. question = 0 /\ view.asking = 0 /\ unanswered = {}
    BY <2>1 DEF AiInv, TurnShape, AiTypes
  <2>3. hostToken' = 0 /\ view' = [view EXCEPT !.status = "unavailable"]
    BY <1>3, <2>1 DEF Ai!AgentMissing
  <2>4. view' \in Views /\ view'.gen = view.gen /\ view'.status = "unavailable" /\ view'.asking = 0
          /\ view.gen \in Nat
    BY <2>2, <2>3, NumbersKnown DEF Views, Ai!Statuses
  <2>5. ops' = [ops EXCEPT ![o] = Ai!Resting] /\ opCount' <= MaxOps
    BY <1>1, DoneIs, NumbersKnown, AiBounds
  <2>6. WriteShape'
    <3>1. \A p \in Ai!Ops \ {o} : ops'[p] = ops[p]
      BY <2>5 DEF AiInv, OpTypes
    <3> QED BY <1>1, <1>2, <3>1, WritesKept
  <2>7. /\ workers' \in [Ai!Ops -> {"none", "launching", "live", "dead"}] /\ workers'[hostToken] = "dead"
        /\ \A t \in Ai!Ops : workers'[t] \in {workers[t], "dead"}
    BY <1>1, <2>1, KillIs
  <2>8. unanswered' = unanswered \ {question} /\ view'.gen >= view.gen
    BY <1>1, <2>2, <2>4
  <2> QED BY <1>1, <2>1, <2>2, <2>3, <2>4, <2>5, <2>6, <2>7, <2>8, LostKeeps
<1>4. CASE ~Ai!HasToken(o)
  <2>1. UNCHANGED <<hostToken, view>>
    BY <1>4 DEF Ai!AgentMissing
  <2> QED BY <1>1, <1>2, <1>4, <2>1, KillIs, QuietEnd
<1> QED BY <1>3, <1>4

(* The believed agent is given up.                                           *)
LEMMA FailIs ==
  ASSUME AiInv, Ai!FailHost, hostToken # 0, host = hostToken
  PROVE  /\ host' = 0 /\ hostToken' = 0 /\ accepted' = 0 /\ prompt' = Ai!NoTurn
         /\ question' = 0 /\ unanswered' = unanswered \ {question} /\ UNCHANGED asked
         /\ view' \in Views /\ view'.gen >= view.gen /\ view'.status = "error" /\ view'.asking = 0
         /\ workers' \in [Ai!Ops -> {"none", "launching", "live", "dead"}] /\ workers'[hostToken] = "dead"
         /\ \A t \in Ai!Ops : workers'[t] \in {workers[t], "dead"}
<1>1. view \in Views /\ view.gen \in Nat \ {0} /\ hostToken \in Ai!Ops
  BY NumbersKnown DEF Ai!Ops
<1>2. view' = [view EXCEPT !.gen = @ + 1, !.status = "error", !.asking = 0]
  BY DEF Ai!FailHost
<1>3. view' \in Views /\ view'.gen >= view.gen /\ view'.status = "error" /\ view'.asking = 0
  <2> DEFINE g == view.gen + 1
  <2>1. g \in Nat \ {0} /\ g >= view.gen /\ 0 \in 0..MaxQuestions
    BY <1>1, AiBounds
  <2>2. view' = [view EXCEPT !.gen = g, !.status = "error", !.asking = 0]
    BY <1>2
  <2> HIDE DEF g
  <2> QED BY <1>1, <2>1, <2>2 DEF Views, Ai!Statuses
<1>4. /\ workers' \in [Ai!Ops -> {"none", "launching", "live", "dead"}] /\ workers'[hostToken] = "dead"
      /\ \A t \in Ai!Ops : workers'[t] \in {workers[t], "dead"}
  BY <1>1 DEF Ai!FailHost, AiInv, AiTypes
<1> QED BY <1>3, <1>4 DEF Ai!FailHost, Ai!Detach, Ai!Settle

LEMMA CallFailsKeeps ==
  ASSUME AiInv, NEW o \in Ai!Ops, Ai!CallFails(o)
  PROVE  AiInv' /\ Ai!GenerationGrows
<1>1. /\ UNCHANGED <<writes, aiDisk, chats, pref, opCount, retirement, disposed>>
           /\ ops[o].pc \in {"resume", "close", "create"} /\ Ai!GoesTo(o, "done")
  BY DEF Ai!CallFails, Ai!At, Ai!saveVars
<1>2. Working(o) /\ ops[o].tok \in Ai!Ops /\ ops[o].pc # "save" /\ ops[o].pc # "launch" /\ ChatsKept
  BY <1>1, TalksIs, SameChats
<1>3. CASE Ai!HasToken(ops[o].tok)
  <2>1. hostToken # 0 /\ Holding(o) /\ Ai!Current(o) /\ host = hostToken
    BY <1>1, <1>2, <1>3, HeldIs
  <2>2. Ai!FailHost
    BY <1>3, <2>1 DEF Ai!CallFails
  <2>3. ops' = [ops EXCEPT ![o] = Ai!Resting] /\ opCount' <= MaxOps
    BY <1>1, DoneIs, NumbersKnown, AiBounds
  <2>4. WriteShape'
    <3>1. \A p \in Ai!Ops \ {o} : ops'[p] = ops[p]
      BY <2>3 DEF AiInv, OpTypes
    <3> QED BY <1>1, <1>2, <3>1, WritesKept
  <2> QED BY <1>1, <2>1, <2>2, <2>3, <2>4, FailIs, LostKeeps
<1>4. CASE ~Ai!HasToken(ops[o].tok)
  <2>1. /\ UNCHANGED <<view, host, hostToken, accepted, prompt, question, unanswered, asked, workers>>
    BY <1>4 DEF Ai!CallFails, Ai!askVars
  <2> QED BY <1>1, <1>2, <1>4, <2>1, QuietWorkers, QuietEnd
<1> QED BY <1>3, <1>4

LEMMA ConversationMissingKeeps ==
  ASSUME AiInv, NEW o \in Ai!Ops, Ai!ConversationMissing(o)
  PROVE  AiInv' /\ Ai!GenerationGrows
<1>1. /\ UNCHANGED <<writes, aiDisk, chats, pref, hostToken, host, workers, prompt, question, unanswered, asked,
                     opCount, retirement, disposed>> /\ ops[o].pc = "resume"
  BY DEF Ai!ConversationMissing, Ai!At, Ai!saveVars, Ai!turnVars, Ai!askVars
<1>2. Working(o) /\ ops[o].tok \in Ai!Ops /\ ops[o].pc # "save" /\ ops[o].kind = "start"
        /\ ops[o] \in OpRecords /\ ChatsKept
  BY <1>1, TalksIs, SameChats
<1>3. CASE Ai!HasToken(ops[o].tok)
  <2>1. hostToken # 0 /\ Holding(o) /\ ops[o].folder = pref.folder /\ host = hostToken
    BY <1>1, <1>2, <1>3, HeldIs
  <2> DEFINE r == [ops[o] EXCEPT !.pc = "create"]
  <2>2. ops' = [ops EXCEPT ![o] = r] /\ accepted' = 0 /\ view' = [view EXCEPT !.entries = {}]
    BY <1>3 DEF Ai!ConversationMissing, Ai!GoesTo, AiInv, OpTypes
  <2>3. /\ r \in OpRecords /\ r.kind = ops[o].kind /\ r.tok = hostToken /\ r.folder = pref.folder
        /\ r.pc = "create" /\ r.pc \in StepsOf(r.kind)
    BY <1>2, <2>1 DEF OpRecords, OpPcs, StepsOf, Holding
  <2> HIDE DEF r
  <2>4. view' \in Views /\ view'.gen = view.gen /\ view'.status = view.status /\ view'.asking = view.asking
          /\ view'.entries = {}
    BY <2>2, NumbersKnown DEF Views
  <2>5. WriteShape'
    <3>1. \A q \in Ai!Ops \ {o} : ops'[q] = ops[q]
      BY <2>2 DEF AiInv, OpTypes
    <3> QED BY <1>1, <1>2, <3>1, WritesKept
  <2> QED BY <1>1, <1>2, <2>1, <2>2, <2>3, <2>4, <2>5, QuietWorkers, MovesKeeps
<1>4. CASE ~Ai!HasToken(ops[o].tok)
  BY <1>1, <1>2, <1>4, QuietWorkers, QuietEnd DEF Ai!ConversationMissing
<1> QED BY <1>3, <1>4

LEMMA ClosedKeeps ==
  ASSUME AiInv, NEW o \in Ai!Ops, Ai!Closed(o)
  PROVE  AiInv' /\ Ai!GenerationGrows
<1>1. /\ UNCHANGED <<writes, aiDisk, chats, pref, hostToken, host, workers, view, accepted, prompt, question,
                     unanswered, asked, opCount, retirement,
                     disposed>> /\ ops[o].pc = "close" /\ ops[o].kind = "new"
  BY DEF Ai!Closed, Ai!At, Ai!saveVars, Ai!turnVars, Ai!askVars
<1>2. Working(o) /\ ops[o].tok \in Ai!Ops /\ ops[o].pc # "save" /\ ops[o] \in OpRecords /\ ChatsKept
  BY <1>1, TalksIs, SameChats
<1>3. CASE Ai!HasToken(ops[o].tok)
  <2>1. hostToken # 0 /\ Holding(o) /\ ops[o].folder = pref.folder /\ host = hostToken /\ accepted = 0
          /\ view.entries = {}
    BY <1>1, <1>2, <1>3, HeldIs
  <2> DEFINE r == [ops[o] EXCEPT !.pc = "create"]
  <2>2. ops' = [ops EXCEPT ![o] = r]
    BY <1>3 DEF Ai!Closed, Ai!GoesTo, AiInv, OpTypes
  <2>3. /\ r \in OpRecords /\ r.kind = "new" /\ r.tok = hostToken /\ r.folder = pref.folder
        /\ r.pc = "create" /\ r.pc \in StepsOf(r.kind)
    BY <1>1, <1>2, <2>1 DEF OpRecords, OpPcs, StepsOf, Holding
  <2> HIDE DEF r
  <2>4. view' \in Views
    BY <1>1, NumbersKnown
  <2>5. WriteShape'
    <3>1. \A q \in Ai!Ops \ {o} : ops'[q] = ops[q]
      BY <2>2 DEF AiInv, OpTypes
    <3> QED BY <1>1, <1>2, <3>1, WritesKept
  <2> QED BY <1>1, <1>2, <2>1, <2>2, <2>3, <2>4, <2>5, QuietWorkers, MovesKeeps
<1>4. CASE ~Ai!HasToken(ops[o].tok)
  BY <1>1, <1>2, <1>4, QuietWorkers, QuietEnd DEF Ai!Closed
<1> QED BY <1>3, <1>4

LEMMA CreatedKeeps ==
  ASSUME AiInv, NEW o \in Ai!Ops, Ai!Created(o)
  PROVE  AiInv' /\ Ai!GenerationGrows
<1>1. /\ UNCHANGED <<aiDisk, pref, hostToken, host, workers, view, prompt, question, unanswered, asked, opCount,
                     retirement, disposed>> /\ ops[o].pc = "create" /\ Len(chats) < MaxChats
      /\ chats' = Append(chats, ops[o].folder)
  BY DEF Ai!Created, Ai!At, Ai!turnVars, Ai!askVars
<1>2. Working(o) /\ ops[o].tok \in Ai!Ops /\ ops[o].pc # "save" /\ ops[o] \in OpRecords
  BY <1>1, TalksIs
<1>3. ops[o].folder \in Folders
  BY <1>1, <1>2 DEF AiInv, HolderShape, Holder, OpRecords
<1>4. /\ chats' \in Seq(Folders) /\ Len(chats') = Len(chats) + 1 /\ Len(chats') <= MaxChats
           /\ Len(chats') \in DOMAIN chats'
      /\ chats'[Len(chats')] = ops[o].folder /\ \A i \in DOMAIN chats : i \in DOMAIN chats' /\ chats'[i] = chats[i]
      /\ Len(chats') \in 0..MaxChats /\ Len(chats') # 0
  <2>1. chats \in Seq(Folders) /\ Len(chats) \in Nat
    BY DEF AiInv, AiTypes
  <2> QED BY <1>1, <1>3, <2>1, AiBounds
<1>5. ChatsKept
  BY <1>4 DEF ChatsKept
<1>6. CASE Ai!HasToken(ops[o].tok)
  <2>1. /\ hostToken # 0 /\ Holding(o) /\ ops[o].folder = pref.folder /\ host = hostToken /\ view.entries = {}
        /\ pref.folder # NoFolder
    BY <1>1, <1>2, <1>6, HeldIs
  <2> DEFINE n == Len(chats')
             r == [ops[o] EXCEPT !.pc = "save", !.chat = n]
             p == [folder |-> ops[o].folder, chat |-> n]
  <2>2. ops' = [ops EXCEPT ![o] = r] /\ writes' = Append(writes, [op |-> o, pref |-> p]) /\ accepted' = n
    BY <1>6 DEF Ai!Created, Ai!SaveAsked, AiInv, OpTypes
  <2> HIDE DEF n
  <2>3. /\ r \in OpRecords /\ r.kind = ops[o].kind /\ r.tok = hostToken /\ r.folder = pref.folder
             /\ r.chat = n /\ r.pc = "save"
    BY <1>2, <1>4, <2>1 DEF OpRecords, OpPcs, Holding, n
  <2>4. p \in Ai!Prefs /\ p.folder = r.folder /\ p.chat = n
    BY <1>2, <1>4 DEF OpRecords, Ai!Prefs, n
  <2> HIDE DEF r, p
  <2>5. r.pc \in StepsOf(r.kind)
    BY <1>2, <2>3 DEF StepsOf, Working
  <2>6. n \in DOMAIN chats' /\ n # 0 /\ chats'[n] = pref.folder /\ view' \in Views /\ view'.entries \subseteq {n}
    BY <1>1, <1>4, <2>1, NumbersKnown DEF n
  <2>7. WriteShape'
    <3>1. (\A q \in Ai!Ops \ {o} : ops'[q] = ops[q]) /\ ops'[o] = r
      BY <2>2 DEF AiInv, OpTypes
    <3>2. Suits(p, ops'[o]) /\ (p.chat # 0 => p.chat \in DOMAIN chats' /\ chats'[p.chat] = p.folder)
      BY <2>1, <2>3, <2>4, <2>6, <3>1 DEF Suits
    <3> QED BY <1>2, <1>5, <2>2, <2>4, <3>1, <3>2, WritesGrow
  <2> QED BY <1>1, <1>5, <2>1, <2>2, <2>3, <2>5, <2>6, <2>7, QuietWorkers, MovesKeeps
<1>7. CASE ~Ai!HasToken(ops[o].tok)
  BY <1>1, <1>2, <1>5, <1>7, QuietWorkers, QuietEnd DEF Ai!Created
<1> QED BY <1>6, <1>7

(* Nothing is believed while no agent is, and nobody is answered.            *)
LEMMA NobodyIs ==
  ASSUME AiInv, hostToken = 0
  PROVE  host = 0 /\ accepted = 0 /\ prompt = Ai!NoTurn /\ question = 0 /\ unanswered = {}
           /\ unanswered \ {question} = {}
BY DEF AiInv, TokenShape, TurnShape, AiTypes

LEMMA NewSessionKeeps ==
  ASSUME AiInv, Ai!NewSession
  PROVE  AiInv' /\ Ai!GenerationGrows
<1> DEFINE r == [Ai!Resting EXCEPT !.kind = "new", !.pc = "close", !.tok = host, !.folder = pref.folder]
<1>1. /\ UNCHANGED <<writes, aiDisk, chats, pref, hostToken, host, workers, retirement, disposed, asked>>
      /\ prompt' = Ai!NoTurn /\ accepted' = 0 /\ question' = 0 /\ unanswered' = unanswered \ {question}
      /\ view' = [gen |-> view.gen + 1, status |-> "starting", entries |-> {}, asking |-> 0]
      /\ view.status = "ready" /\ host # 0 /\ accepted # 0 /\ opCount < MaxOps /\ opCount' = opCount + 1
      /\ ops' = [ops EXCEPT ![opCount + 1] = r]
  BY DEF Ai!NewSession, Ai!Begins, Ai!Settle, Ai!saveVars
<1>2. /\ opCount \in Nat /\ host \in Ai!Ops /\ view.gen \in Nat \ {0} /\ host \in 0..MaxOps
           /\ retirement \in 0..MaxOps
  BY <1>1, NumbersKnown DEF Ai!Ops
<1>3. /\ hostToken = host /\ ~disposed /\ retirement = 0 /\ pref.folder # NoFolder /\ pref.folder \in Folders
      /\ host <= opCount /\ prompt = Ai!NoTurn /\ question = 0 /\ \A p \in Ai!Ops : ops[p].pc # "wait"
  BY <1>1 DEF AiInv, TokenShape, TurnShape, PrefTypes, Ai!Prefs
<1>4. /\ r \in OpRecords /\ r.kind = "new" /\ r.pc = "close" /\ r.tok = host /\ r.folder = pref.folder
      /\ r.pc \in StepsOf(r.kind)
  BY <1>2, <1>3, RestingKnown DEF Ai!Resting, OpRecords, OpKinds, OpPcs, StepsOf
<1> HIDE DEF r
<1>5. /\ OpTypes' /\ opCount' \in Ai!Ops /\ opCount' \in 0..MaxOps /\ ops'[opCount'] = r
      /\ \A p \in Ai!Ops \ {opCount'} : ops'[p] = ops[p]
      /\ ops[opCount'].kind = "none" /\ ops[opCount'].pc = "done" /\ opCount' # 0
  BY <1>1, <1>4, OpBegins
<1>6. \A p \in Ai!Ops : Working(p) => ops[p].tok # hostToken
  BY <1>1 DEF AiInv, HolderShape, Holder
<1>7. ChatsKept
  BY <1>1, SameChats
<1>8. WriteShape'
  BY <1>1, <1>5, <1>7, WritesKept
<1>9. AiTypes' /\ PrefTypes'
  <2>1. view' \in Views /\ view'.gen >= view.gen
    BY <1>1, <1>2, AiBounds DEF Views, Ai!Statuses
  <2> QED BY <1>1, <1>3, <1>5, <2>1, RestingKnown, AiBounds DEF AiInv, AiTypes, PrefTypes, Fits
<1>10. TokenShape'
  BY <1>1, <1>2, <1>3, <1>4, <1>5 DEF TokenShape
<1>11. HolderShape'
  <2> SUFFICES ASSUME NEW p \in Ai!Ops, Working(p)' PROVE Holder(p)'
    BY DEF HolderShape
  <2>1. CASE p = opCount'
    <3>1. r.tok <= opCount'
      BY <1>1, <1>2, <1>3, <1>4
    <3> QED BY <1>1, <1>2, <1>3, <1>4, <1>5, <2>1, <3>1 DEF Holder, Fits
  <2>2. CASE p # opCount'
    <3>1. ops'[p] = ops[p] /\ Working(p) /\ Holder(p) /\ ops[p].tok # hostToken
      BY <1>5, <1>6, <2>2 DEF Working, AiInv, HolderShape
    <3> QED BY <1>1, <3>1 DEF Holder, Fits
  <2> QED BY <2>1, <2>2
<1>12. LatestShape'
  BY <1>1, <1>3, <1>4, <1>5 DEF LatestShape, Ending, Busy
<1>13. TurnShape' /\ TranscriptShape'
  BY <1>1, <1>3, <1>4, <1>5 DEF TurnShape, TranscriptShape
<1>14. Ai!AgentsAreHeld'
  BY <1>1, <1>5 DEF AiInv, Ai!AgentsAreHeld, Ai!At
<1>15. view'.gen >= view.gen
  BY <1>1, <1>2
<1> QED BY <1>5, <1>8, <1>9, <1>10, <1>11, <1>12, <1>13, <1>14, <1>15 DEF AiInv, Ai!GenerationGrows

LEMMA StartKeeps ==
  ASSUME AiInv, Ai!Start
  PROVE  AiInv' /\ Ai!GenerationGrows
<1> DEFINE r == [Ai!Resting EXCEPT !.kind = "start", !.pc = "wait"]
<1>1. /\ UNCHANGED <<writes, aiDisk, chats, pref, hostToken, host, accepted, prompt, question, unanswered, workers,
                     retirement, disposed, asked>>
      /\ view' = [view EXCEPT !.status = "starting", !.entries = {}]
      /\ view.status # "loading" /\ view.status \notin {"running", "starting"} /\ pref.folder # NoFolder
      /\ ~(view.status = "ready" /\ host # 0 /\ accepted # 0) /\ ~disposed
      /\ opCount < MaxOps /\ opCount' = opCount + 1 /\ ops' = [ops EXCEPT ![opCount + 1] = r]
  BY DEF Ai!Start, Ai!Usable, Ai!Begins, Ai!saveVars, Ai!turnVars, Ai!askVars
<1>2. hostToken = 0
  BY <1>1 DEF AiInv, TokenShape
<1>3. host = 0 /\ accepted = 0 /\ prompt = Ai!NoTurn /\ question = 0 /\ unanswered = {}
        /\ unanswered \ {question} = {}
  BY <1>2, NobodyIs
<1>4. r \in OpRecords /\ r.kind = "start" /\ r.pc = "wait" /\ r.pc \in StepsOf(r.kind)
  BY RestingKnown DEF Ai!Resting, OpRecords, OpKinds, OpPcs, StepsOf
<1> HIDE DEF r
<1>5. view.asking = 0
  BY <1>1, <1>3 DEF AiInv, TurnShape
<1>6. /\ view' \in Views /\ view'.gen = view.gen /\ view'.status = "starting" /\ view'.entries = {}
           /\ view'.asking = 0
      /\ view.gen \in Nat
  BY <1>1, <1>5, NumbersKnown DEF Views, Ai!Statuses
<1>7. retirement' \in 0..MaxOps /\ view'.gen >= view.gen /\ unanswered' = unanswered \ {question}
  BY <1>1, <1>3, <1>6, NumbersKnown
<1> QED BY <1>1, <1>2, <1>3, <1>4, <1>6, <1>7, QuietWorkers, BeginsKeeps

LEMMA CancelPromptKeeps ==
  ASSUME AiInv, Ai!CancelPrompt
  PROVE  AiInv' /\ Ai!GenerationGrows
<1> DEFINE r == [Ai!Resting EXCEPT !.kind = "cancel", !.pc = "cancelTurn", !.tok = host, !.chat = prompt.chat]
<1>1. /\ UNCHANGED <<writes, aiDisk, chats, pref>> /\ hostToken' = 0 /\ host' = 0
      /\ accepted' = 0 /\ prompt' = Ai!NoTurn /\ question' = 0 /\ unanswered' = unanswered \ {question}
      /\ UNCHANGED <<workers, disposed, asked>> /\ retirement' = opCount'
      /\ view' = [view EXCEPT !.gen = @ + 1, !.asking = 0]
      /\ view.status = "running" /\ prompt # Ai!NoTurn /\ host # 0 /\ ~disposed
      /\ opCount < MaxOps /\ opCount' = opCount + 1 /\ ops' = [ops EXCEPT ![opCount + 1] = r]
  BY DEF Ai!CancelPrompt, Ai!Usable, Ai!Begins, Ai!Detach, Ai!Settle, Ai!saveVars
<1>2. /\ view \in Views /\ view.gen \in Nat \ {0} /\ host \in 0..MaxOps /\ opCount \in Nat
      /\ prompt.chat \in 0..MaxChats
  <2>1. prompt.chat = accepted /\ accepted \in {0} \cup DOMAIN chats /\ chats \in Seq(Folders)
          /\ Len(chats) <= MaxChats
    BY <1>1 DEF AiInv, TurnShape, AiTypes
  <2> QED BY <2>1, NumbersKnown, AiBounds
<1>3. r \in OpRecords /\ r.kind = "cancel" /\ r.pc = "cancelTurn" /\ r.pc \in StepsOf(r.kind) /\ r.tok = host
  BY <1>2, RestingKnown DEF Ai!Resting, OpRecords, OpKinds, OpPcs, StepsOf
<1> HIDE DEF r
<1>4. view' \in Views /\ view'.gen >= view.gen /\ view'.status = "running" /\ view'.asking = 0
  <2> DEFINE g == view.gen + 1
  <2>1. g \in Nat \ {0} /\ g >= view.gen /\ 0 \in 0..MaxQuestions /\ view' = [view EXCEPT !.gen = g, !.asking = 0]
    BY <1>1, <1>2, AiBounds
  <2> HIDE DEF g
  <2> QED BY <1>1, <1>2, <2>1 DEF Views, Ai!Statuses
<1>5. retirement' \in 0..MaxOps
  BY <1>1, <1>2, AiBounds
<1> QED BY <1>1, <1>3, <1>4, <1>5, QuietWorkers, BeginsKeeps

(* A new operation takes the agent down, or waits for another that does.     *)
LEMMA AgentRetiresKeeps ==
  ASSUME AiInv, opCount < MaxOps, opCount' = opCount + 1, NEW op \in OpRecords, Ai!Retires(opCount', op),
         op.kind \in {"choose", "suspend", "dispose"}, op.kind = "choose" => op.folder # NoFolder,
         op.kind # "dispose" => view.status # "loading" /\ op.gen = view.gen + 1,
         op.kind = "dispose" => disposed', disposed => disposed',
         UNCHANGED <<view, pref, aiDisk, writes, chats>>
  PROVE  AiInv' /\ Ai!GenerationGrows
<1>1. /\ opCount \in Nat /\ host \in 0..MaxOps /\ view.gen \in Nat /\ view \in Views /\ retirement \in 0..MaxOps
      /\ accepted \in 0..MaxChats /\ view'.gen >= view.gen
  <2>1. accepted \in {0} \cup DOMAIN chats /\ chats \in Seq(Folders) /\ Len(chats) <= MaxChats
    BY DEF AiInv, AiTypes
  <2> QED BY <2>1, NumbersKnown, AiBounds
<1>2. ~disposed' => ~disposed /\ op.kind \in {"choose", "suspend"} /\ view.gen <= op.gen
  BY <1>1
<1>3. ~disposed /\ view.asking # 0 => view.status = "running"
  BY DEF AiInv, TurnShape
<1>4. op.kind \in {"choose", "suspend"} => view.gen <= op.gen
  BY <1>1
<1>5. CASE retirement # 0
  <2> DEFINE r == [op EXCEPT !.pc = "wait"]
  <2>1. hostToken = 0
    BY <1>5 DEF AiInv, TokenShape
  <2>2. host = 0 /\ accepted = 0 /\ prompt = Ai!NoTurn /\ question = 0 /\ unanswered = {}
          /\ unanswered \ {question} = {}
    BY <2>1, NobodyIs
  <2>3. /\ ops' = [ops EXCEPT ![opCount + 1] = r] /\ UNCHANGED <<host, hostToken, accepted, prompt, question,
                                                                 unanswered, asked, workers, retirement>>
    BY <1>5 DEF Ai!Retires, Ai!askVars
  <2>4. r \in OpRecords /\ r.kind = op.kind /\ r.pc = "wait" /\ r.gen = op.gen /\ r.folder = op.folder
          /\ r.pc \in StepsOf(r.kind)
    BY DEF OpRecords, OpPcs, StepsOf
  <2> HIDE DEF r
  <2>5. unanswered' = unanswered \ {question}
    BY <2>2, <2>3
  <2> QED BY <1>1, <1>2, <1>3, <1>4, <2>1, <2>2, <2>3, <2>4, <2>5, QuietWorkers, BeginsKeeps
<1>6. CASE retirement = 0
  <2> DEFINE pc == IF host = 0 THEN "retired" ELSE Ai!RetirePc(prompt, accepted)
             r == [op EXCEPT !.pc = pc, !.tok = host, !.chat = accepted]
  <2>1. /\ ops' = [ops EXCEPT ![opCount + 1] = r]
        /\ host' = 0 /\ hostToken' = 0 /\ accepted' = 0 /\ prompt' = Ai!NoTurn
        /\ question' = 0 /\ unanswered' = unanswered \ {question} /\ UNCHANGED asked
        /\ retirement' = (IF pc = "retired" THEN 0 ELSE opCount')
        /\ workers' = [t \in Ai!Ops |-> IF t = host /\ pc = "retired" THEN "dead" ELSE workers[t]]
    BY <1>6 DEF Ai!Retires, Ai!Detach, Ai!Settle
  <2>2. pc \in {"cancelTurn", "closeChat", "retired"}
    BY DEF Ai!RetirePc
  <2> HIDE DEF pc
  <2>3. /\ r \in OpRecords /\ r.kind = op.kind /\ r.pc = pc /\ r.tok = host /\ r.gen = op.gen
             /\ r.folder = op.folder
        /\ r.pc \in StepsOf(r.kind)
    BY <1>1, <2>2 DEF OpRecords, OpPcs, StepsOf
  <2> HIDE DEF r
  <2>4. retirement' \in 0..MaxOps
    BY <1>1, <2>1, AiBounds
  <2>5. /\ workers' \in [Ai!Ops -> {"none", "launching", "live", "dead"}] /\ \A t \in Ai!Ops :
             workers'[t] \in {workers[t], "dead"}
        /\ host # 0 => workers'[host] = "dead" \/ pc \in {"cancelTurn", "closeChat"}
    <3>1. host # 0 => host \in Ai!Ops
      BY <1>1 DEF Ai!Ops
    <3> QED BY <2>1, <2>2, <3>1 DEF AiInv, AiTypes
  <2>6. /\ r.kind \notin {"none", "start", "new"} /\ r.pc # "launch" /\ view' \in Views
        /\ host # 0 => workers'[host] = "dead" \/ (r.tok = host /\ r.pc \in {"cancelTurn", "closeChat"})
        /\ r.kind = "choose" => r.folder # NoFolder
        /\ r.kind \in {"choose", "suspend"} => view'.gen <= r.gen
        /\ ~disposed' => view.status # "loading"
        /\ ~disposed' /\ view'.asking # 0 => view'.status = "running" /\ r.kind \in {"choose", "suspend"}
    BY <1>1, <1>2, <1>3, <1>4, <2>2, <2>3, <2>5
  <2> QED BY <1>1, <2>1, <2>3, <2>4, <2>5, <2>6, BeginsKeeps
<1> QED BY <1>5, <1>6

LEMMA TakesDownKeeps ==
  ASSUME AiInv, Ai!ChooseWorkspace \/ Ai!Suspend \/ Ai!Dispose
  PROVE  AiInv' /\ Ai!GenerationGrows
<1>1. opCount < MaxOps /\ opCount' = opCount + 1 /\ UNCHANGED <<view, pref, aiDisk, writes, chats>>
  BY DEF Ai!ChooseWorkspace, Ai!Suspend, Ai!Dispose, Ai!Superseding, Ai!saveVars
<1>2. view.gen \in Nat /\ view.gen + 1 \in Nat
  BY NumbersKnown
<1>3. CASE Ai!ChooseWorkspace
  <2>1. PICK f \in Folders :
               Ai!Retires(opCount', [Ai!Resting EXCEPT !.kind = "choose", !.gen = view.gen + 1, !.folder = f])
    BY <1>3 DEF Ai!ChooseWorkspace
  <2> DEFINE op == [Ai!Resting EXCEPT !.kind = "choose", !.gen = view.gen + 1, !.folder = f]
  <2>2. op \in OpRecords /\ op.kind = "choose" /\ op.gen = view.gen + 1 /\ op.folder # NoFolder
          /\ Ai!Retires(opCount', op)
    BY <1>2, <2>1, RestingKnown, AiBounds DEF Ai!Resting, OpRecords, OpKinds
  <2> HIDE DEF op
  <2> QED BY <1>1, <1>3, <2>2, AgentRetiresKeeps DEF Ai!ChooseWorkspace, Ai!Usable
<1>4. CASE Ai!Suspend
  <2> DEFINE op == [Ai!Resting EXCEPT !.kind = "suspend", !.gen = view.gen + 1]
  <2>1. op \in OpRecords /\ op.kind = "suspend" /\ op.gen = view.gen + 1 /\ Ai!Retires(opCount', op)
    BY <1>2, <1>4, RestingKnown DEF Ai!Suspend, Ai!Resting, OpRecords, OpKinds
  <2> HIDE DEF op
  <2> QED BY <1>1, <1>4, <2>1, AgentRetiresKeeps DEF Ai!Suspend, Ai!Usable
<1>5. CASE Ai!Dispose
  <2> DEFINE op == [Ai!Resting EXCEPT !.kind = "dispose"]
  <2>1. op \in OpRecords /\ op.kind = "dispose" /\ Ai!Retires(opCount', op)
    BY <1>5, RestingKnown DEF Ai!Dispose, Ai!Resting, OpRecords, OpKinds
  <2> HIDE DEF op
  <2> QED BY <1>1, <1>5, <2>1, AgentRetiresKeeps DEF Ai!Dispose
<1> QED BY <1>3, <1>4, <1>5

LEMMA TakingDownKeeps ==
  ASSUME AiInv, NEW o \in Ai!Ops, Ai!RetireWaited(o) \/ Ai!TurnCancelled(o) \/ Ai!ChatClosed(o)
  PROVE  AiInv' /\ Ai!GenerationGrows
<1>1. /\ UNCHANGED <<writes, aiDisk, chats, pref, view, opCount, disposed>>
  BY DEF Ai!RetireWaited, Ai!TurnCancelled, Ai!ChatClosed, Ai!saveVars
<1>2. ops[o] \in OpRecords /\ retirement \in 0..MaxOps /\ ops[o].pc \in StepsOf(ops[o].kind)
        /\ ops[o].kind \in OpKinds
  BY NumbersKnown DEF OpTypes, OpRecords
<1>3. CASE Ai!RetireWaited(o)
  <2>1. ops[o].kind \in {"choose", "suspend", "dispose"} /\ ops[o].pc = "wait" /\ retirement = 0
          /\ Ai!Retires(o, ops[o])
    BY <1>3 DEF Ai!RetireWaited, Ai!At
  <2>2. hostToken = 0
    BY <2>1 DEF AiInv, TokenShape
  <2>3. host = 0 /\ accepted = 0 /\ prompt = Ai!NoTurn /\ question = 0 /\ unanswered = {}
    BY <2>2, NobodyIs
  <2> DEFINE r == [ops[o] EXCEPT !.pc = "retired", !.tok = 0, !.chat = 0]
  <2>4. /\ ops' = [ops EXCEPT ![o] = r] /\ UNCHANGED <<host, hostToken, accepted, prompt, question, unanswered,
                                                       asked>> /\ retirement' = 0
        /\ workers' = [t \in Ai!Ops |-> workers[t]]
    BY <2>1, <2>2, <2>3 DEF Ai!Retires, Ai!Detach, Ai!Settle, Ai!Ops
  <2>5. UNCHANGED workers
    BY <2>4 DEF AiInv, AiTypes
  <2>6. r \in OpRecords /\ r.kind = ops[o].kind /\ r.gen = ops[o].gen /\ r.folder = ops[o].folder
          /\ r.pc = "retired"
    <3>1. 0 \in 0..MaxOps /\ 0 \in 0..MaxChats
      BY AiBounds
    <3> QED BY <1>2, <3>1 DEF OpRecords, OpPcs
  <2> HIDE DEF r
  <2>7. r.pc \in StepsOf(r.kind) /\ Ending(o)
    BY <2>1, <2>6 DEF StepsOf, Ending
  <2>8. WriteShape'
    <3>1. ops[o].pc # "save" /\ \A p \in Ai!Ops \ {o} : ops'[p] = ops[p]
      BY <2>1, <2>4 DEF AiInv, OpTypes
    <3> QED BY <1>1, <3>1, SameChats, WritesKept
  <2> QED BY <1>1, <2>1, <2>4, <2>5, <2>6, <2>7, <2>8, QuietWorkers, EndingKeeps
<1>4. CASE Ai!TurnCancelled(o) \/ Ai!ChatClosed(o)
  <2> DEFINE next == IF Ai!TurnCancelled(o) THEN "closeChat" ELSE "retired"
             r == [ops[o] EXCEPT !.pc = next]
  <2>1. /\ UNCHANGED <<host, hostToken, accepted, prompt, question, unanswered,
                       asked>> /\ ops[o].pc \in {"cancelTurn", "closeChat"}
    BY <1>4 DEF Ai!TurnCancelled, Ai!ChatClosed, Ai!turnVars, Ai!askVars, Ai!At
  <2>2. ops' = [ops EXCEPT ![o] = r]
    BY <1>4 DEF Ai!TurnCancelled, Ai!ChatClosed, Ai!GoesTo, AiInv, OpTypes
  <2>3. next \in {"closeChat", "retired"} /\ (next # "closeChat" => Ai!ChatClosed(o))
    BY <1>4
  <2>4. Ai!TurnCancelled(o) => next = "closeChat" /\ UNCHANGED <<workers, retirement>>
    BY DEF Ai!TurnCancelled
  <2> HIDE DEF next
  <2>5. /\ r \in OpRecords /\ r.kind = ops[o].kind /\ r.gen = ops[o].gen /\ r.folder = ops[o].folder /\ r.pc = next
        /\ r.tok = ops[o].tok
    BY <1>2, <2>3 DEF OpRecords, OpPcs
  <2> HIDE DEF r
  <2>6. Ending(o) /\ r.pc \in StepsOf(r.kind)
    BY <1>2, <2>1, <2>3, <2>5 DEF StepsOf, OpKinds, Ending
  <2>7. WriteShape'
    <3>1. ops[o].pc # "save" /\ \A p \in Ai!Ops \ {o} : ops'[p] = ops[p]
      BY <2>1, <2>2 DEF AiInv, OpTypes
    <3> QED BY <1>1, <3>1, SameChats, WritesKept
  <2>8. /\ workers' \in [Ai!Ops -> {"none", "launching", "live", "dead"}]
        /\ \A t \in Ai!Ops : workers'[t] \in {workers[t], "dead"}
        /\ Ai!ChatClosed(o) => \A t \in Ai!Ops : t = ops[o].tok => workers'[t] = "dead"
        /\ retirement' \in {retirement, 0}
    <3>1. CASE Ai!ChatClosed(o)
      BY <3>1 DEF Ai!ChatClosed, Ai!Kill, AiInv, AiTypes
    <3>2. CASE ~Ai!ChatClosed(o)
      BY <1>4, <2>4, <3>2, QuietWorkers
    <3> QED BY <3>1, <3>2
  <2>9. /\ r.pc # "wait"
        /\ \A t \in Ai!Ops : ops[o].tok = t /\ ops[o].pc \in {"cancelTurn", "closeChat"} =>
             workers'[t] = "dead" \/ (r.tok = t /\ r.pc \in {"cancelTurn", "closeChat"})
    BY <2>3, <2>5, <2>8
  <2> QED BY <1>1, <2>1, <2>2, <2>5, <2>6, <2>7, <2>8, <2>9, EndingKeeps
<1> QED BY <1>3, <1>4

LEMMA RetiredKeeps ==
  ASSUME AiInv, NEW o \in Ai!Ops, Ai!Retired(o)
  PROVE  AiInv' /\ Ai!GenerationGrows
<1>1. /\ UNCHANGED <<aiDisk, chats, pref, host, hostToken, accepted, prompt, question, unanswered, asked, workers,
                     opCount, retirement, disposed>> /\ ops[o].pc = "retired"
  BY DEF Ai!Retired, Ai!At, Ai!turnVars, Ai!askVars
<1>2. ops[o] \in OpRecords /\ opCount \in Nat /\ OpTypes /\ view \in Views /\ view.gen \in Nat \ {0}
        /\ ops[o].gen \in Nat
  BY NumbersKnown DEF OpRecords
<1>3. Ending(o) /\ ops[o].pc \notin {"cancelTurn", "closeChat", "launch", "save"}
  BY <1>1, <1>2 DEF OpTypes, StepsOf, OpRecords, OpKinds, Ending
<1>4. aiDisk' \in Ai!Prefs /\ Fits(aiDisk'.folder, aiDisk'.chat) /\ Fits(pref'.folder, pref'.chat)
        /\ pref' \in Ai!Prefs
  BY <1>1 DEF AiInv, PrefTypes
<1>5. CASE Ai!GoesTo(o, "done") /\ UNCHANGED writes
  <2>1. ops' = [ops EXCEPT ![o] = Ai!Resting]
    BY <1>5, DoneIs
  <2>2. WriteShape'
    <3>1. \A p \in Ai!Ops \ {o} : ops'[p] = ops[p]
      BY <2>1 DEF AiInv, OpTypes
    <3> QED BY <1>1, <1>3, <1>5, <3>1, SameChats, WritesKept
  <2>3. CASE ~Ai!Current(o)
    <3>1. UNCHANGED view /\ ~(o = opCount /\ ~disposed)
      BY <2>3 DEF Ai!Retired, Ai!Current
    <3>2. aiDisk'.chat # 0 => aiDisk'.chat \in DOMAIN chats' /\ chats'[aiDisk'.chat] = aiDisk'.folder
      BY <1>1, <1>4 DEF Fits
    <3> QED BY <1>1, <1>3, <1>4, <2>1, <2>2, <3>1, <3>2, SameChats, QuietWorkers, EndsKeeps
  <2>4. CASE Ai!Current(o)
    <3>1. o = opCount /\ ~disposed /\ ops[o].kind # "dispose"
            /\ (ops[o].kind \in {"choose", "suspend"} => view.gen <= ops[o].gen)
      BY <1>3, <2>4 DEF Ai!Current, AiInv, LatestShape
    <3>2. ops[o].kind # "choose"
      <4>1. ASSUME ops[o].kind = "choose" PROVE FALSE
        <5>1. Ai!GoesTo(o, "save")
          BY <2>4, <3>1, <4>1 DEF Ai!Retired
        <5>2. ops'[o].pc = "save"
          BY <1>2, <5>1 DEF Ai!GoesTo, OpTypes
        <5> QED BY <1>2, <2>1, <5>2, RestingKnown DEF OpTypes
      <4> QED BY <4>1
    <3>3. /\ view' \in Views /\ view'.gen >= view.gen /\ view'.asking = 0
          /\ view'.status \in {"not-configured", "configured", "error"}
      <4>1. view' = IF ops[o].kind = "suspend"
                    THEN [gen |-> ops[o].gen, status |-> Ai!ConfiguredStatus(pref), entries |-> {}, asking |-> 0]
                    ELSE [view EXCEPT !.status = "configured", !.asking = 0]
        BY <2>4, <3>1, <3>2 DEF Ai!Retired
      <4>2. 0 \in 0..MaxQuestions
        BY AiBounds
      <4>3. CASE ops[o].kind = "suspend"
        <5>1. ops[o].gen \in Nat \ {0} /\ ops[o].gen >= view.gen
          BY <1>2, <3>1, <4>3
        <5> QED BY <4>1, <4>2, <4>3, <5>1 DEF Views, Ai!Statuses, Ai!ConfiguredStatus
      <4>4. CASE ops[o].kind # "suspend"
        <5>1. view' = [view EXCEPT !.status = "configured", !.asking = 0]
          BY <4>1, <4>4
        <5>2. view' \in Views /\ view'.gen = view.gen /\ view'.asking = 0 /\ view'.status = "configured"
          BY <1>2, <4>2, <5>1 DEF Views, Ai!Statuses
        <5> QED BY <1>2, <5>2
      <4> QED BY <4>3, <4>4
    <3> QED BY <1>1, <1>3, <1>4, <2>1, <2>2, <3>1, <3>3, PublishesKeeps
  <2> QED BY <2>3, <2>4
<1>6. CASE ~(Ai!GoesTo(o, "done") /\ UNCHANGED writes)
  <2> DEFINE r == [ops[o] EXCEPT !.pc = "save"]
             p == [folder |-> ops[o].folder, chat |-> 0]
  <2>1. /\ ops[o].kind = "choose" /\ UNCHANGED view /\ ops' = [ops EXCEPT ![o] = r]
        /\ writes' = Append(writes, [op |-> o, pref |-> p])
    BY <1>2, <1>6 DEF Ai!Retired, Ai!GoesTo, Ai!SaveAsked, OpTypes
  <2>2. /\ r \in OpRecords /\ r.kind = "choose" /\ r.gen = ops[o].gen /\ r.folder = ops[o].folder /\ r.pc = "save"
        /\ r.pc \in StepsOf(r.kind)
    BY <1>2, <2>1 DEF OpRecords, OpPcs, StepsOf
  <2>3. p \in Ai!Prefs /\ p.chat = 0 /\ p.folder = ops[o].folder /\ ops[o].folder # NoFolder
    BY <1>2, <2>1, AiBounds DEF OpRecords, Ai!Prefs, OpTypes
  <2> HIDE DEF r, p
  <2>4. WriteShape'
    <3>1. (\A q \in Ai!Ops \ {o} : ops'[q] = ops[q]) /\ ops'[o] = r
      BY <2>1 DEF AiInv, OpTypes
    <3>2. Suits(p, ops'[o]) /\ p.folder # NoFolder
      BY <2>2, <2>3, <3>1 DEF Suits
    <3> QED BY <1>1, <1>3, <2>1, <2>3, <3>1, <3>2, SameChats, WritesGrow
  <2> QED BY <1>1, <1>3, <2>1, <2>2, <2>4, QuietWorkers, EndingKeeps
<1> QED BY <1>5, <1>6

(* A turn begins or ends.                                                    *)
LEMMA TurnKeeps ==
  ASSUME AiInv, hostToken # 0, view.status \in {"ready", "running"}, view' \in Views, view'.gen = view.gen,
         \/ prompt' = Ai!NoTurn /\ view'.status = "ready" /\ view'.entries = view.entries
         \/ /\ prompt' = [tok |-> hostToken, gen |-> view.gen, chat |-> accepted] /\ view'.status = "running"
            /\ view'.entries = view.entries \cup {accepted},
         question' = 0, unanswered' = {}, view'.asking = 0, UNCHANGED <<asked, writes, pref, aiDisk, host,
                                                                        hostToken,
                                                                        accepted, chats, workers, ops, opCount,
                                                                        retirement, disposed>>
  PROVE  AiInv' /\ Ai!GenerationGrows
<1>1. hostToken \in Nat /\ view.gen \in Nat
  BY NumbersKnown
<1>2. /\ host = hostToken /\ accepted # 0 /\ ~disposed /\ pref.folder # NoFolder
      /\ \A o \in Ai!Ops : ops[o].pc # "wait" /\ (o = opCount => ~Ending(o)) /\ ~Holding(o)
  BY DEF AiInv, TokenShape, LatestShape, HolderShape, Holder, Holding
<1>3. prompt' \in [tok : Nat, gen : Nat, chat : Nat] /\ accepted \in {0} \cup DOMAIN chats
  <2>1. accepted \in {0} \cup DOMAIN chats /\ chats \in Seq(Folders)
    BY DEF AiInv, AiTypes
  <2>2. accepted \in Nat
    BY <2>1
  <2> QED BY <1>1, <2>1, <2>2, RestingKnown
<1>4. AiTypes' /\ PrefTypes'
  <2>1. question' \in 0..asked' /\ unanswered' = {question'} \ {0} /\ asked' \in 0..MaxQuestions
    BY DEF AiInv, AiTypes
  <2> QED BY <1>3, <2>1 DEF AiInv, AiTypes, PrefTypes, Fits
<1>5. OpTypes' /\ WriteShape'
  BY DEF AiInv, OpTypes, WriteShape, Fits
<1>6. TokenShape'
  BY <1>2 DEF AiInv, TokenShape
<1>7. HolderShape'
  BY <1>2 DEF AiInv, HolderShape, Holder, Holding, Fits, Working
<1>8. LatestShape'
  BY <1>2 DEF AiInv, LatestShape, Ending, Working
<1>9. TurnShape'
  <2>1. CASE prompt' = Ai!NoTurn /\ view'.status = "ready"
    BY <2>1 DEF TurnShape, Busy
  <2>2. CASE prompt' = [tok |-> hostToken, gen |-> view.gen, chat |-> accepted] /\ view'.status = "running"
    <3>1. prompt' # Ai!NoTurn /\ prompt'.tok = host /\ prompt'.gen = view.gen /\ prompt'.chat = accepted
      BY <1>2, <2>2 DEF Ai!NoTurn
    <3> QED BY <1>2, <2>2, <3>1 DEF TurnShape, Busy
  <2> QED BY <2>1, <2>2
<1> TranscriptShape'
  BY <1>2 DEF AiInv, TranscriptShape
<1>10. Ai!AgentsAreHeld'
  BY DEF AiInv, Ai!AgentsAreHeld, Ai!At
<1> QED BY <1>1, <1>4, <1>5, <1>6, <1>7, <1>8, <1>9, <1>10 DEF AiInv, Ai!GenerationGrows

LEMMA QuietKeeps ==
  ASSUME AiInv, workers' \in [Ai!Ops -> {"none", "launching", "live", "dead"}],
         \A t \in Ai!Ops : workers'[t] \in {workers[t], "dead"},
         UNCHANGED <<view, prompt, question, unanswered, asked, writes, pref, aiDisk, host, hostToken,
                     accepted, chats,
                     ops, opCount, retirement, disposed>>
  PROVE  AiInv' /\ Ai!GenerationGrows
<1>1. AiTypes' /\ PrefTypes' /\ OpTypes' /\ WriteShape' /\ view.gen \in Nat
  BY NumbersKnown DEF AiInv, AiTypes, PrefTypes, OpTypes, WriteShape, Fits
<1>2. TokenShape' /\ HolderShape' /\ LatestShape'
  BY DEF AiInv, TokenShape, HolderShape, Holder, LatestShape, Working, Ending, Fits
<1>3. TurnShape' /\ TranscriptShape'
  BY DEF AiInv, TurnShape, TranscriptShape
<1>4. Ai!AgentsAreHeld'
  BY DEF AiInv, Ai!AgentsAreHeld, Ai!At
<1> QED BY <1>1, <1>2, <1>3, <1>4 DEF AiInv, Ai!GenerationGrows

LEMMA TurnsKeep ==
  ASSUME AiInv, NEW t, Ai!SendPrompt \/ Ai!PromptSucceeds(t) \/ Ai!PromptFails(t)
  PROVE  AiInv' /\ Ai!GenerationGrows
<1>1. /\ UNCHANGED <<writes, aiDisk, chats, pref, ops, retirement, disposed>>
  BY DEF Ai!SendPrompt, Ai!PromptSucceeds, Ai!PromptFails, Ai!saveVars
<1>2. view \in Views /\ view.gen \in Nat \ {0} /\ opCount \in Nat
  BY NumbersKnown
<1>3. CASE Ai!SendPrompt
  <2>1. /\ view.status = "ready" /\ host # 0 /\ accepted # 0 /\ prompt = Ai!NoTurn
        /\ prompt' = [tok |-> hostToken, gen |-> view.gen, chat |-> accepted]
        /\ view' = [view EXCEPT !.status = "running", !.entries = @ \cup {accepted}, !.asking = 0]
        /\ UNCHANGED <<host, hostToken, accepted, question, unanswered, asked, workers, opCount>>
    BY <1>3 DEF Ai!SendPrompt, Ai!askVars
  <2>2. hostToken # 0 /\ question = 0 /\ unanswered = {}
    BY <2>1 DEF AiInv, TokenShape, TurnShape, AiTypes
  <2>3. accepted \in 1..MaxChats /\ 0 \in 0..MaxQuestions
    <3>1. accepted \in {0} \cup DOMAIN chats /\ chats \in Seq(Folders) /\ Len(chats) <= MaxChats
      BY DEF AiInv, AiTypes
    <3> QED BY <2>1, <3>1, AiBounds
  <2>4. /\ view' \in Views /\ view'.gen = view.gen /\ view'.status = "running" /\ view'.asking = 0
        /\ view'.entries = view.entries \cup {accepted}
    BY <1>2, <2>1, <2>3 DEF Views, Ai!Statuses
  <2> QED BY <1>1, <2>1, <2>2, <2>4, TurnKeeps
<1>4. CASE Ai!Expected(t) /\ (Ai!PromptSucceeds(t) \/ Ai!PromptFails(t))
  <2>1. prompt = t /\ Ai!HasToken(t.tok) /\ view.gen = t.gen
    BY <1>4 DEF Ai!Expected
  <2>2. prompt # Ai!NoTurn
    BY <1>2, <2>1 DEF Ai!NoTurn
  <2>3. hostToken # 0 /\ host = hostToken /\ view.status = "running" /\ unanswered \ {question} = {}
    BY <2>2 DEF AiInv, TurnShape, TokenShape, AiTypes
  <2>4. CASE Ai!PromptSucceeds(t)
    <3>1. /\ prompt' = Ai!NoTurn /\ question' = 0 /\ unanswered' = unanswered \ {question} /\ UNCHANGED asked
          /\ view' = [view EXCEPT !.status = "ready", !.asking = 0]
          /\ UNCHANGED <<host, hostToken, accepted, workers, opCount>>
      BY <1>4, <2>4 DEF Ai!PromptSucceeds, Ai!Settle
    <3>2. 0 \in 0..MaxQuestions
      BY AiBounds
    <3>3. /\ view' \in Views /\ view'.gen = view.gen /\ view'.status = "ready" /\ view'.asking = 0
          /\ view'.entries = view.entries
      BY <1>2, <3>1, <3>2 DEF Views, Ai!Statuses
    <3> QED BY <1>1, <2>3, <3>1, <3>3, TurnKeeps
  <2>5. CASE Ai!PromptFails(t)
    <3>1. Ai!FailHost /\ opCount < MaxOps /\ opCount' = opCount + 1
      BY <1>4, <2>5 DEF Ai!PromptFails, Ai!Superseding
    <3>2. WriteShape' /\ opCount' <= MaxOps
      BY <1>1, <1>2, <3>1, AiBounds DEF AiInv, WriteShape, Fits
    <3> QED BY <1>1, <2>3, <3>1, <3>2, FailIs, LostKeeps
  <2> QED BY <1>4, <2>4, <2>5
<1>5. CASE ~Ai!Expected(t) /\ (Ai!PromptSucceeds(t) \/ Ai!PromptFails(t))
  <2>1. /\ UNCHANGED <<prompt, question, unanswered, asked, view, host, hostToken, accepted, workers, opCount>>
    BY <1>5 DEF Ai!PromptSucceeds, Ai!PromptFails, Ai!askVars
  <2> QED BY <1>1, <2>1, QuietWorkers, QuietKeeps
<1> QED BY <1>3, <1>4, <1>5

LEMMA TalksKeep ==
  ASSUME AiInv, NEW t \in Ai!Ops, NEW chat \in 1..MaxChats, NEW a,
         Ai!HostEvent(t, chat) \/ Ai!HostAsks(t, chat) \/ Ai!RespondPermission
           \/ (a \in unanswered /\ Ai!AskAborts(a))
  PROVE  AiInv' /\ Ai!GenerationGrows
<1>1. /\ UNCHANGED <<writes, aiDisk, chats, pref, ops, retirement, disposed, host, hostToken, accepted, prompt,
                     workers, opCount>>
  BY DEF Ai!HostEvent, Ai!HostAsks, Ai!RespondPermission, Ai!AskAborts, Ai!saveVars, Ai!turnVars
<1>2. view \in Views /\ view.asking \in 0..MaxQuestions /\ asked \in 0..MaxQuestions /\ asked \in Nat
        /\ 0 \in 0..MaxQuestions
      /\ chat # 0 /\ t # 0 /\ unanswered = {question} \ {0} /\ question \in 0..asked
  BY NumbersKnown, AiBounds DEF Views, AiInv, AiTypes, Ai!Ops
<1>3. question # 0 => hostToken # 0 /\ ~disposed /\ prompt # Ai!NoTurn /\ view.asking = question
  BY DEF AiInv, TurnShape, TokenShape
<1>4. ~disposed /\ hostToken # 0 /\ question = 0 => view.asking = 0
  BY DEF AiInv, TurnShape, LatestShape, Ending
<1>5. CASE Ai!HostEvent(t, chat)
  <2>1. /\ hostToken # 0 /\ ~disposed /\ chat = accepted /\ view' = [view EXCEPT !.entries = @ \cup {chat}]
        /\ UNCHANGED <<question, unanswered, asked>>
    BY <1>2, <1>5 DEF Ai!HostEvent, Ai!HasToken, Ai!askVars
  <2>2. /\ view' \in Views /\ view'.gen = view.gen /\ view'.status = view.status /\ view'.asking = view.asking
        /\ accepted # 0 /\ view'.entries = view.entries \cup {accepted}
    BY <1>2, <2>1 DEF Views
  <2>3. view'.asking = question' /\ asked' \in 0..MaxQuestions /\ question' \in 0..asked'
    BY <1>2, <1>3, <1>4, <2>1, <2>2
  <2>4. unanswered' = {question'} \ {0} /\ (question' # 0 => prompt # Ai!NoTurn)
    BY <1>2, <1>3, <2>1
  <2> QED BY <1>1, <2>1, <2>2, <2>3, <2>4, TalkKeeps
<1>6. CASE Ai!HostAsks(t, chat)
  <2>1. /\ hostToken # 0 /\ ~disposed /\ prompt # Ai!NoTurn /\ chat = prompt.chat /\ asked' = asked + 1
             /\ asked < MaxQuestions
    BY <1>2, <1>6 DEF Ai!HostAsks, Ai!HasToken
  <2>2. chat = accepted
    BY <2>1 DEF AiInv, TurnShape
  <2>3. asked' \in 0..MaxQuestions /\ 0 \in 0..asked' /\ asked' \in 0..asked' /\ asked' # 0
    BY <1>2, <2>1, AiBounds
  <2>4. /\ question' \in {0, asked'} /\ unanswered' = {question'} \ {0}
        /\ view' = [view EXCEPT !.entries = @ \cup {chat}, !.asking = question']
    <3>1. CASE /\ question' = asked' /\ unanswered' = (unanswered \ {question}) \cup {asked'}
               /\ view' = [view EXCEPT !.entries = @ \cup {chat}, !.asking = asked']
      BY <1>2, <2>3, <3>1
    <3>2. CASE /\ question' = 0 /\ unanswered' = unanswered \ {question}
               /\ view' = [view EXCEPT !.entries = @ \cup {chat}, !.asking = IF question # 0 THEN 0 ELSE @]
      <4>1. (IF question # 0 THEN 0 ELSE view.asking) = 0
        BY <1>4, <2>1
      <4> QED BY <1>2, <3>2, <4>1
    <3> QED BY <1>6, <3>1, <3>2 DEF Ai!HostAsks
  <2>5. /\ view' \in Views /\ view'.gen = view.gen /\ view'.status = view.status /\ view'.asking = question'
        /\ accepted # 0 /\ view'.entries = view.entries \cup {accepted} /\ question' \in 0..asked'
    BY <1>2, <2>2, <2>3, <2>4 DEF Views
  <2> QED BY <1>1, <2>1, <2>3, <2>4, <2>5, TalkKeeps
<1>7. CASE Ai!RespondPermission \/ (a \in unanswered /\ Ai!AskAborts(a))
  <2>1. question # 0 /\ question' = 0 /\ unanswered' = unanswered \ {question} /\ UNCHANGED asked
    BY <1>2, <1>7 DEF Ai!RespondPermission, Ai!AskAborts, Ai!Settle
  <2>2. view' = [view EXCEPT !.asking = 0]
    BY <1>3, <1>7, <2>1 DEF Ai!RespondPermission, Ai!AskAborts
  <2>3. /\ view' \in Views /\ view'.gen = view.gen /\ view'.status = view.status /\ view'.asking = 0
        /\ view'.entries = view.entries
    BY <1>2, <2>2 DEF Views
  <2>4. unanswered' = {question'} \ {0} /\ asked' \in 0..MaxQuestions /\ question' \in 0..asked'
    BY <1>2, <2>1
  <2> QED BY <1>1, <1>3, <2>1, <2>3, <2>4, TalkKeeps
<1> QED BY <1>5, <1>6, <1>7

LEMMA WorkerDiesKeeps ==
  ASSUME AiInv, NEW t \in Ai!Ops, Ai!WorkerDies(t)
  PROVE  AiInv' /\ Ai!GenerationGrows
<1>1. /\ UNCHANGED <<writes, aiDisk, chats, pref, ops, opCount, retirement, disposed>> /\ Ai!Kill(t)
  BY DEF Ai!WorkerDies, Ai!saveVars
<1>2. /\ workers' \in [Ai!Ops -> {"none", "launching", "live", "dead"}] /\ workers'[t] = "dead"
      /\ \A s \in Ai!Ops : workers'[s] \in {workers[s], "dead"}
  BY <1>1, KillIs
<1>3. CASE Ai!HasToken(t)
  <2>1. /\ hostToken = t /\ hostToken # 0
        /\ host' = 0 /\ hostToken' = 0 /\ accepted' = 0 /\ prompt' = Ai!NoTurn
        /\ question' = 0 /\ unanswered' = unanswered \ {question} /\ UNCHANGED asked
        /\ view' = [view EXCEPT !.gen = @ + 1, !.status = "error", !.asking = 0]
    BY <1>3 DEF Ai!WorkerDies, Ai!HasToken, Ai!Settle, Ai!Detach, Ai!Ops
  <2>2. view' \in Views /\ view'.gen >= view.gen /\ view'.status = "error" /\ view'.asking = 0
    <3> DEFINE g == view.gen + 1
    <3>1. view \in Views /\ g \in Nat \ {0} /\ g >= view.gen /\ 0 \in 0..MaxQuestions
      BY NumbersKnown, AiBounds
    <3>2. view' = [view EXCEPT !.gen = g, !.status = "error", !.asking = 0]
      BY <2>1
    <3> HIDE DEF g
    <3> QED BY <3>1, <3>2 DEF Views, Ai!Statuses
  <2>3. WriteShape' /\ opCount' <= MaxOps
    BY <1>1, NumbersKnown, AiBounds DEF AiInv, WriteShape, Fits
  <2> QED BY <1>1, <1>2, <2>1, <2>2, <2>3, LostKeeps
<1>4. CASE ~Ai!HasToken(t)
  <2>1. /\ UNCHANGED <<prompt, question, unanswered, asked, view, host, hostToken, accepted>>
    BY <1>4 DEF Ai!WorkerDies, Ai!askVars
  <2> QED BY <1>1, <1>2, <2>1, QuietKeeps
<1> QED BY <1>3, <1>4

LEMMA StartLaunchesKeeps ==
  ASSUME AiInv, NEW o \in Ai!Ops, o \in Ai!Woken, \A p \in Ai!Woken : o <= p, Ai!StartLaunches(o)
  PROVE  AiInv' /\ Ai!GenerationGrows
<1>1. /\ UNCHANGED <<writes, aiDisk, chats, pref, view, host, prompt, question, unanswered, asked, opCount,
                     retirement,
                     disposed>> /\ ops[o].kind = "start" /\ ops[o].pc = "wait" /\ retirement = 0
  BY DEF Ai!StartLaunches, Ai!At, Ai!saveVars, Ai!turnVars, Ai!askVars
<1>2. /\ ops[o] \in OpRecords /\ OpTypes /\ opCount \in Nat /\ view \in Views /\ view.gen \in Nat
           /\ o \in Nat /\ o # 0
      /\ o \in 0..MaxOps
  BY NumbersKnown, AiBounds DEF Ai!Ops
<1>3. CASE ~Ai!Current(o)
  <2>1. Ai!GoesTo(o, "done") /\ UNCHANGED <<hostToken, accepted, workers>> /\ ~(o = opCount /\ ~disposed)
    BY <1>3 DEF Ai!StartLaunches, Ai!Current
  <2>2. ops' = [ops EXCEPT ![o] = Ai!Resting]
    BY <2>1, DoneIs
  <2>3. WriteShape'
    <3>1. \A p \in Ai!Ops \ {o} : ops'[p] = ops[p]
      BY <2>2 DEF AiInv, OpTypes
    <3> QED BY <1>1, <3>1, SameChats, WritesKept
  <2>4. aiDisk' \in Ai!Prefs
          /\ (aiDisk'.chat # 0 => aiDisk'.chat \in DOMAIN chats' /\ chats'[aiDisk'.chat] = aiDisk'.folder)
    BY <1>1 DEF AiInv, PrefTypes, Fits
  <2> QED BY <1>1, <2>1, <2>2, <2>3, <2>4, SameChats, QuietWorkers, EndsKeeps
<1>4. CASE Ai!Current(o)
  <2>1. o = opCount /\ ~disposed
    BY <1>4 DEF Ai!Current
  <2>2. view.status = "starting" /\ hostToken = 0 /\ view.entries = {} /\ pref.folder # NoFolder
    BY <1>1, <2>1 DEF AiInv, LatestShape
  <2>3. host = 0 /\ accepted = 0 /\ prompt = Ai!NoTurn /\ question = 0 /\ unanswered = {}
    BY <2>2, NobodyIs
  <2> DEFINE r == [ops[o] EXCEPT !.pc = "launch", !.tok = o]
  <2>4. /\ ops' = [ops EXCEPT ![o] = r] /\ hostToken' = o /\ accepted' = 0
        /\ workers' = [workers EXCEPT ![o] = "launching"]
    BY <1>2, <1>4 DEF Ai!StartLaunches, Ai!Launches, OpTypes
  <2>5. r \in OpRecords /\ r.kind = "start" /\ r.pc = "launch" /\ r.tok = o
    BY <1>1, <1>2 DEF OpRecords, OpPcs
  <2> HIDE DEF r
  <2>6. OpTypes' /\ ops'[o] = r /\ \A p \in Ai!Ops \ {o} : ops'[p] = ops[p]
    <3>1. ~(o > opCount) /\ r.pc \in StepsOf(r.kind) /\ r.kind # "choose"
      BY <1>2, <2>1, <2>5 DEF StepsOf
    <3> QED BY <1>1, <1>2, <2>4, <2>5, <3>1, OpPut
  <2>7. \A p \in Ai!Ops \ {o} : ops[p].pc # "wait"
    <3> SUFFICES ASSUME NEW p \in Ai!Ops \ {o}, ops[p].pc = "wait" PROVE FALSE
      OBVIOUS
    <3>1. o <= p
      BY <1>1 DEF Ai!Woken, Ai!At
    <3>2. ~(p > opCount)
      BY <1>2 DEF OpTypes, StepsOf
    <3>3. p \in Nat
      BY NumbersKnown
    <3> QED BY <1>2, <2>1, <3>1, <3>2, <3>3
  <2>8. \A p \in Ai!Ops \ {o} : Working(p) => ops[p].tok # o
    <3> SUFFICES ASSUME NEW p \in Ai!Ops \ {o}, Working(p), ops[p].tok = o PROVE FALSE
      OBVIOUS
    <3>1. o <= p /\ p \in Nat
      BY NumbersKnown DEF AiInv, HolderShape, Holder
    <3>2. ~(p > opCount)
      BY <1>2 DEF OpTypes, Working
    <3> QED BY <1>2, <2>1, <3>1, <3>2
  <2>9. \A p \in Ai!Ops : Working(p)' => p = o \/ (Working(p) /\ ops'[p] = ops[p])
    BY <2>6 DEF Working
  <2>10. WriteShape'
    BY <1>1, <2>6, SameChats, WritesKept
  <2>11. AiTypes' /\ PrefTypes'
    BY <1>1, <1>2, <2>4 DEF AiInv, AiTypes, PrefTypes, Fits
  <2>12. TokenShape'
    BY <1>1, <1>2, <2>1, <2>2, <2>3, <2>4, <2>5, <2>6, <2>7 DEF TokenShape
  <2>13. HolderShape'
    <3> SUFFICES ASSUME NEW p \in Ai!Ops, Working(p)' PROVE Holder(p)'
      BY DEF HolderShape
    <3>1. CASE p = o
      <4>1. r.tok <= o
        BY <1>2, <2>5
      <4> QED BY <1>1, <2>1, <2>2, <2>3, <2>4, <2>5, <2>6, <3>1, <4>1 DEF Holder, Fits
    <3>2. CASE p # o
      <4>1. ops'[p] = ops[p] /\ Holder(p) /\ ops[p].tok # o
        BY <2>8, <2>9, <3>2 DEF AiInv, HolderShape
      <4> QED BY <1>1, <2>4, <4>1 DEF Holder, Fits
    <3> QED BY <3>1, <3>2
  <2>14. LatestShape'
    BY <1>1, <1>2, <2>1, <2>4, <2>5, <2>6 DEF LatestShape, Ending
  <2>15. TurnShape' /\ TranscriptShape'
    BY <1>1, <2>1, <2>3, <2>4, <2>5, <2>6 DEF AiInv, TurnShape, TranscriptShape
  <2>16. Ai!AgentsAreHeld'
    <3> SUFFICES ASSUME NEW s \in Ai!Ops, workers'[s] \in {"launching", "live"}
                 PROVE  \/ ops'[s].pc = "launch"
                        \/ \E p \in Ai!Ops : ops'[p].tok = s /\ ops'[p].pc \in {"cancelTurn", "closeChat"}
      BY DEF Ai!AgentsAreHeld, Ai!At
    <3>1. CASE s = o
      BY <2>5, <2>6, <3>1
    <3>2. CASE s # o
      <4>1. workers[s] \in {"launching", "live"} /\ host # s
        BY <2>3, <2>4, <3>2 DEF Ai!Ops
      <4>2. ops[s].pc = "launch" \/ \E p \in Ai!Ops : ops[p].tok = s /\ ops[p].pc \in {"cancelTurn", "closeChat"}
        BY <4>1 DEF AiInv, Ai!AgentsAreHeld, Ai!At
      <4> QED BY <1>1, <2>6, <3>2, <4>2
    <3> QED BY <3>1, <3>2
  <2> QED BY <1>1, <1>2, <2>6, <2>10, <2>11, <2>12, <2>13, <2>14, <2>15, <2>16 DEF AiInv, Ai!GenerationGrows
<1> QED BY <1>3, <1>4

(* The oldest save is written or fails.                                      *)
LEMMA SavedKeeps ==
  ASSUME AiInv, NEW o \in Ai!Ops, Working(o), Ai!HasToken(ops[o].tok), ops[o].pc = "save",
         ops' = [ops EXCEPT ![o] = Ai!Resting],
         pref' \in Ai!Prefs, pref'.folder = ops[o].folder, pref'.chat = ops[o].chat, aiDisk' = pref', WriteShape',
         view' \in Views, view'.gen = view.gen, view'.status = "ready", view'.entries = view.entries,
         view'.asking = view.asking,
         UNCHANGED <<host, hostToken, accepted, prompt, question, unanswered, asked, chats, workers, opCount,
                     retirement, disposed>>
  PROVE  AiInv' /\ Ai!GenerationGrows
<1>1. OpTypes /\ opCount \in Nat /\ view.gen \in Nat /\ Ai!Resting.kind = "none" /\ Ai!Resting.pc = "done"
  BY NumbersKnown, RestingKnown
<1>2. /\ hostToken # 0 /\ host = hostToken /\ Holding(o) /\ o = opCount /\ ~disposed /\ prompt = Ai!NoTurn
      /\ ops[o].folder = pref.folder /\ pref.folder # NoFolder /\ accepted = ops[o].chat /\ accepted # 0
  BY HeldIs
<1>3. OpTypes' /\ ops'[o] = Ai!Resting /\ \A p \in Ai!Ops \ {o} : ops'[p] = ops[p]
  BY <1>1, OpRests
<1>4. question = 0 /\ view.asking = 0
  BY <1>2, HeldIs DEF AiInv, TurnShape
<1>5. \A p \in Ai!Ops : Working(p)' => Working(p) /\ ops'[p] = ops[p] /\ ops[p].tok # hostToken
  BY <1>1, <1>2, <1>3 DEF Working, AiInv, HolderShape, Holder
<1>6. chats[accepted] = pref.folder /\ accepted \in DOMAIN chats
  BY <1>2 DEF AiInv, TranscriptShape, AiTypes
<1>7. AiTypes' /\ PrefTypes'
  BY <1>2, <1>6 DEF AiInv, AiTypes, PrefTypes, Fits
<1>8. TokenShape'
  BY <1>1, <1>2, <1>3 DEF AiInv, TokenShape
<1>9. HolderShape'
  BY <1>5 DEF AiInv, HolderShape, Holder, Fits
<1>10. LatestShape'
  BY <1>1, <1>2, <1>3 DEF LatestShape, Ending, Working
<1>11. TurnShape' /\ TranscriptShape'
  BY <1>2, <1>4, <1>6 DEF AiInv, TurnShape, TranscriptShape, Busy
<1>12. Ai!AgentsAreHeld'
  BY <1>2, <1>3 DEF AiInv, Ai!AgentsAreHeld, Ai!At
<1> QED BY <1>1, <1>3, <1>7, <1>8, <1>9, <1>10, <1>11, <1>12 DEF AiInv, Ai!GenerationGrows

LEMMA WriteKeeps ==
  ASSUME AiInv, Ai!Write
  PROVE  AiInv' /\ Ai!GenerationGrows
<1> DEFINE w == Head(writes)
           o == w.op
<1>1. /\ writes # <<>> /\ writes' = Tail(writes) /\ Ai!GoesTo(o, "done") /\ UNCHANGED <<chats, opCount, retirement,
                                                                                        disposed>>
  BY DEF Ai!Write
<1>2. w \in [op : Ai!Ops, pref : Ai!Prefs] /\ Suits(w.pref, ops[w.op]) /\ Fits(w.pref.folder, w.pref.chat)
  <2>1. WriteShape /\ 1 \in DOMAIN writes /\ Head(writes) = writes[1]
    <3> DEFINE W == [op : Ai!Ops, pref : Ai!Prefs]
    <3>1. writes \in Seq(W)
      BY DEF AiInv, WriteShape
    <3> HIDE DEF W
    <3> QED BY <1>1, <3>1 DEF AiInv
  <2> QED BY <2>1, WritesKnown DEF WriteShape
<1>3. o \in Ai!Ops /\ w.pref \in Ai!Prefs /\ ops[o].pc = "save" /\ Suits(w.pref, ops[o])
  BY <1>2 DEF Suits
<1> HIDE DEF w
<1>4. ops' = [ops EXCEPT ![o] = Ai!Resting]
  BY <1>1, <1>3, DoneIs
<1>5. WriteShape'
  <2>1. \A p \in Ai!Ops \ {o} : ops'[p] = ops[p]
    BY <1>4 DEF AiInv, OpTypes
  <2> QED BY <1>1, <1>3, <2>1, WritesShrink DEF w
<1>6. /\ pref \in Ai!Prefs /\ aiDisk \in Ai!Prefs /\ Fits(pref.folder, pref.chat)
           /\ Fits(aiDisk.folder, aiDisk.chat)
      /\ view \in Views /\ view.gen \in Nat \ {0} /\ ops[o] \in OpRecords /\ ops[o].kind \in OpKinds
      /\ ops[o].pc \in StepsOf(ops[o].kind) /\ ops[o].gen \in Nat /\ 0 \in 0..MaxQuestions
  BY <1>3, NumbersKnown, AiBounds DEF AiInv, PrefTypes, OpTypes, OpRecords
<1>7. ops[o].kind = "choose" \/ Working(o)
  BY <1>3, <1>6 DEF StepsOf, OpKinds, Working
<1>8. aiDisk' \in {aiDisk, w.pref}
  BY DEF Ai!Write, w
<1>9. aiDisk' \in Ai!Prefs /\ Fits(aiDisk'.folder, aiDisk'.chat)
  BY <1>2, <1>3, <1>6, <1>8
<1>10. aiDisk'.chat # 0 => aiDisk'.chat \in DOMAIN chats' /\ chats'[aiDisk'.chat] = aiDisk'.folder
  BY <1>1, <1>9 DEF Fits
<1>11. CASE ops[o].kind = "choose"
  <2>1. /\ UNCHANGED <<host, hostToken, accepted, prompt, question, unanswered, asked, workers>>
    BY <1>11 DEF Ai!Write, w, Ai!askVars
  <2>2. Ending(o)
    BY <1>11 DEF Ending
  <2>3. CASE Ai!Current(o)
    <3>1. o = opCount /\ ~disposed /\ view.gen <= ops[o].gen
      BY <1>3, <1>11, <2>3 DEF Ai!Current, AiInv, LatestShape
    <3>2. \/ /\ pref' = w.pref
             /\ view' = [gen |-> ops[o].gen, status |-> "configured", entries |-> {}, asking |-> 0]
          \/ /\ pref' = pref
             /\ view' = [view EXCEPT !.gen = ops[o].gen, !.asking = 0,
                                     !.status = IF pref.folder = NoFolder THEN "not-configured" ELSE "error"]
      BY <1>11, <2>3 DEF Ai!Write, w
    <3>3. ops[o].gen \in Nat \ {0}
      BY <1>6, <3>1
    <3>4. /\ view' \in Views /\ view'.gen = ops[o].gen /\ view'.asking = 0
          /\ view'.status \in {"not-configured", "configured", "error"}
      <4> DEFINE g == ops[o].gen
                 st == IF pref.folder = NoFolder THEN "not-configured" ELSE "error"
      <4>1. \/ view' = [view EXCEPT !.gen = g, !.asking = 0, !.status = st]
            \/ view' = [gen |-> g, status |-> "configured", entries |-> {}, asking |-> 0]
        BY <3>2
      <4>2. g \in Nat \ {0} /\ st \in {"not-configured", "error"} /\ st \in Ai!Statuses
              /\ "configured" \in Ai!Statuses
        BY <3>3 DEF Ai!Statuses
      <4> HIDE DEF g, st
      <4>3. CASE view' = [view EXCEPT !.gen = g, !.asking = 0, !.status = st]
        <5>1. view' \in Views
          BY <1>6, <4>2, <4>3 DEF Views
        <5>2. view'.gen = g /\ view'.asking = 0 /\ view'.status = st
          BY <1>6, <4>3 DEF Views
        <5> QED BY <4>2, <5>1, <5>2 DEF g
      <4>4. CASE view' = [gen |-> g, status |-> "configured", entries |-> {}, asking |-> 0]
        <5>1. view' \in Views
          BY <1>6, <4>2, <4>4 DEF Views
        <5> QED BY <4>4, <5>1 DEF g
      <4> QED BY <4>1, <4>3, <4>4
    <3>5. pref' \in Ai!Prefs /\ Fits(pref'.folder, pref'.chat)
      BY <1>2, <1>3, <1>6, <3>2
    <3>6. view'.gen >= view.gen /\ ops[o].pc \notin {"cancelTurn", "closeChat"}
      BY <1>3, <1>6, <3>1, <3>4
    <3> QED BY <1>1, <1>3, <1>4, <1>5, <1>9, <2>1, <2>2, <3>1, <3>4, <3>5, <3>6, PublishesKeeps
  <2>4. CASE ~Ai!Current(o)
    <3>1. pref' = pref /\ view' = view /\ ~(o = opCount /\ ~disposed)
      BY <1>11, <2>4 DEF Ai!Write, w, Ai!Current
    <3> QED BY <1>1, <1>3, <1>4, <1>5, <1>9, <1>10, <2>1, <3>1, SameChats, QuietWorkers, EndsKeeps
  <2> QED BY <2>3, <2>4
<1>12. CASE Working(o) /\ Ai!HasToken(ops[o].tok)
  <2>1. Ai!Current(o) /\ ops[o].kind # "choose" /\ hostToken # 0 /\ host = hostToken /\ Holding(o)
    BY <1>3, <1>12, HeldIs DEF Working
  <2>2. CASE aiDisk' = w.pref /\ pref' = w.pref /\ view' = [view EXCEPT !.status = "ready"]
             /\ UNCHANGED <<host, hostToken, accepted, prompt, Ai!askVars, workers>>
    <3>1. view' \in Views /\ view'.gen = view.gen /\ view'.status = "ready" /\ view'.entries = view.entries
            /\ view'.asking = view.asking
      BY <1>6, <2>2 DEF Views, Ai!Statuses
    <3>2. pref' \in Ai!Prefs /\ pref'.folder = ops[o].folder /\ pref'.chat = ops[o].chat /\ aiDisk' = pref'
      BY <1>3, <1>12, <2>2 DEF Suits, Working
    <3> QED BY <1>1, <1>3, <1>4, <1>5, <1>12, <2>2, <3>1, <3>2, SavedKeeps DEF Ai!askVars
  <2>3. CASE Ai!FailHost /\ UNCHANGED <<pref, aiDisk>>
    <3>1. opCount' <= MaxOps
      BY <1>1, NumbersKnown, AiBounds
    <3> QED BY <1>1, <1>3, <1>4, <1>5, <2>1, <2>3, <3>1, FailIs, LostKeeps
  <2> QED BY <1>12, <2>1, <2>2, <2>3 DEF Ai!Write, w
<1>13. CASE Working(o) /\ ~Ai!HasToken(ops[o].tok)
  <2>1. ops[o].kind # "choose"
    BY <1>13 DEF Working
  <2>2. /\ pref' = pref /\ view' = view /\ UNCHANGED <<host, hostToken, accepted, prompt, question, unanswered,
                                                       asked, workers>>
    BY <1>13, <2>1 DEF Ai!Write, w, Ai!askVars
  <2> QED BY <1>1, <1>3, <1>4, <1>5, <1>9, <1>10, <1>13, <2>2, SameChats, QuietWorkers, LostIs, EndsKeeps
<1> QED BY <1>7, <1>11, <1>12, <1>13

(* Among the operations that are woken there is an earliest.                 *)
LEMMA FirstWoken ==
  ASSUME NEW W \in SUBSET Ai!Ops, W # {}
  PROVE  (CHOOSE o \in W : \A p \in W : o <= p) \in W /\ \A q \in W : (CHOOSE o \in W : \A p \in W : o <= p) <= q
<1>1. W \in SUBSET Nat
  BY DEF Ai!Ops
<1>2. PICK x \in W : \A y \in W : ~(<<y, x>> \in OpToRel(<, Nat))
  BY <1>1, NatLessThanWellFounded, WFMin
<1>3. \A y \in W : ~(y < x) /\ x \in Nat /\ y \in Nat
  BY <1>1, <1>2 DEF OpToRel
<1>4. \A y \in W : x <= y
  BY <1>3
<1> QED BY <1>4

(* Every step keeps the invariant, and the view never goes back.             *)
LEMMA AiStep ==
  ASSUME AiInv, disposed \in BOOLEAN, Ai!Next \/ UNCHANGED AiVars
  PROVE  AiInv' /\ Ai!GenerationGrows
<1>1. CASE UNCHANGED AiVars
  BY <1>1, QuietWorkers, QuietKeeps DEF AiVars
<1>2. CASE Ai!Woken # {} /\ Ai!Wakes(CHOOSE o \in Ai!Woken : \A p \in Ai!Woken : o <= p)
  <2> DEFINE m == CHOOSE o \in Ai!Woken : \A p \in Ai!Woken : o <= p
  <2>1. m \in Ai!Woken /\ (\A p \in Ai!Woken : m <= p) /\ Ai!Wakes(m)
    BY <1>2, FirstWoken DEF Ai!Woken
  <2> HIDE DEF m
  <2>2. m \in Ai!Ops
    BY <2>1 DEF Ai!Woken
  <2> QED BY <2>1, <2>2, StartLaunchesKeeps, TakingDownKeeps, RetiredKeeps DEF Ai!Wakes
<1>3. CASE Ai!Write \/ \E o \in Ai!Ops : Ai!Step(o)
  BY <1>3, WriteKeeps, AgentUpKeeps, AgentMissingKeeps, CallFailsKeeps, ChatResumedKeeps, ConversationMissingKeeps,
     CreatedKeeps, ClosedKeeps, TakingDownKeeps DEF Ai!Step
<1>4. CASE Ai!Requests
  <2>1. CASE Ai!RespondPermission
    <3>1. 1 \in 1..MaxChats /\ opCount \in Nat
      BY AiBounds, NumbersKnown
    <3>2. question # 0
      BY <2>1 DEF Ai!RespondPermission
    <3>3. hostToken \in Ai!Ops
      BY <3>2, NumbersKnown DEF AiInv, TurnShape, Ai!Ops
    <3> QED BY <2>1, <3>1, <3>3, TalksKeep
  <2>2. CASE Ai!SendPrompt
    BY <2>2, TurnsKeep
  <2> QED BY <1>4, <2>1, <2>2, InitializeKeeps, StartKeeps, NewSessionKeeps, TakesDownKeeps,
             CancelPromptKeeps DEF Ai!Requests
<1>5. CASE Ai!Agents
  <2>1. CASE \E t \in inflight : Ai!PromptSucceeds(t) \/ Ai!PromptFails(t)
    BY <2>1, TurnsKeep
  <2>2. CASE \E t \in Ai!Ops : Ai!WorkerDies(t)
    BY <2>2, WorkerDiesKeeps
  <2>3. CASE \E t \in Ai!Ops, chat \in 1..MaxChats : Ai!HostEvent(t, chat) \/ Ai!HostAsks(t, chat)
    BY <2>3, TalksKeep
  <2>4. CASE \E a \in unanswered : Ai!AskAborts(a)
    <3>1. PICK a \in unanswered : Ai!AskAborts(a)
      BY <2>4
    <3>2. question # 0
      BY <3>1 DEF Ai!AskAborts, AiInv, AiTypes
    <3>3. hostToken \in Ai!Ops /\ 1 \in 1..MaxChats
      BY <3>2, NumbersKnown, AiBounds DEF AiInv, TurnShape, Ai!Ops
    <3> QED BY <3>1, <3>3, TalksKeep
  <2> QED BY <1>5, <2>1, <2>2, <2>3, <2>4 DEF Ai!Agents
<1> QED BY <1>1, <1>2, <1>3, <1>4, <1>5 DEF Ai!Next, Ai!Progress

LEMMA DisposedTyped ==
  ASSUME disposed \in BOOLEAN, Ai!Next \/ UNCHANGED AiVars
  PROVE  disposed' \in BOOLEAN
<1>1. disposed' = disposed \/ disposed' = TRUE
  <2>1. \A o \in Ai!Ops : Ai!Wakes(o) \/ Ai!Step(o) => disposed' = disposed
    BY DEF Ai!Wakes, Ai!Step, Ai!StartLaunches, Ai!RetireWaited, Ai!Retired, Ai!AgentUp, Ai!AgentMissing,
           Ai!CallFails, Ai!Resumed,
           Ai!ConversationMissing, Ai!Created, Ai!Closed, Ai!TurnCancelled, Ai!ChatClosed
  <2>2. CASE Ai!Woken # {} /\ Ai!Wakes(CHOOSE o \in Ai!Woken : \A p \in Ai!Woken : o <= p)
    <3>1. (CHOOSE o \in Ai!Woken : \A p \in Ai!Woken : o <= p) \in Ai!Ops
      BY <2>2, FirstWoken DEF Ai!Woken
    <3> QED BY <2>1, <2>2, <3>1
  <2>3. CASE ~(Ai!Woken # {} /\ Ai!Wakes(CHOOSE o \in Ai!Woken : \A p \in Ai!Woken : o <= p))
    BY <2>1, <2>3 DEF Ai!Next, Ai!Progress, Ai!Write, Ai!Requests, Ai!Agents, Ai!Initialize, Ai!Start,
                      Ai!NewSession, Ai!ChooseWorkspace, Ai!Suspend, Ai!Dispose,
           Ai!SendPrompt, Ai!CancelPrompt, Ai!RespondPermission, Ai!PromptSucceeds, Ai!PromptFails,
           Ai!WorkerDies, Ai!HostEvent,
           Ai!HostAsks, Ai!AskAborts, AiVars
  <2> QED BY <2>2, <2>3
<1> QED BY <1>1, Zenon

(* What the agent's invariant gives.                                         *)
LEMMA AiSafe ==
  ASSUME AiInv, disposed \in BOOLEAN
  PROVE  Ai!TypeOK /\ Ai!AgentsAreHeld /\ Ai!QuestionsAreLive /\ Ai!TranscriptIsItsOwn /\ Ai!BusyIsHeld
<1>1. /\ accepted \in 0..MaxChats /\ question \in 0..MaxQuestions /\ unanswered \subseteq 1..MaxQuestions
  <2>1. accepted \in {0} \cup DOMAIN chats /\ chats \in Seq(Folders) /\ Len(chats) <= MaxChats
    BY DEF AiInv, AiTypes
  <2>2. question \in 0..asked /\ asked \in 0..MaxQuestions /\ unanswered = {question} \ {0}
    BY DEF AiInv, AiTypes
  <2>3. accepted \in 0..MaxChats
    BY <2>1, AiBounds
  <2>4. question \in 0..MaxQuestions
    BY <2>2, AiBounds
  <2> QED BY <2>2, <2>3, <2>4, AiBounds
<1>2. Ai!TypeOK
  <2>1. disposed \in BOOLEAN
    OBVIOUS
  <2>2. /\ writes \in Seq([op : Ai!Ops, pref : Ai!Prefs])
             /\ {host, hostToken, retirement, opCount} \subseteq 0..MaxOps
        /\ pref \in Ai!Prefs /\ aiDisk \in Ai!Prefs /\ asked \in 0..MaxQuestions /\ chats \in Seq(Folders)
             /\ Len(chats) <= MaxChats
        /\ workers \in [Ai!Ops -> {"none", "launching", "live", "dead"}]
    BY DEF AiInv, WriteShape, PrefTypes, AiTypes
  <2>3. view \in [gen : Nat \ {0}, status : Ai!Statuses, entries : SUBSET (1..MaxChats), asking : 0..MaxQuestions]
    BY DEF AiInv, AiTypes, Views
  <2> QED BY <1>1, <2>1, <2>2, <2>3, Zenon DEF Ai!TypeOK
<1>3. \A o \in Ai!Ops : ops[o].pc = "done" => ops[o].kind = "none"
  BY NumbersKnown DEF OpTypes, StepsOf, OpRecords, OpKinds
<1>4. \A o \in Ai!Ops : ops[o].kind \in {"choose", "suspend"} =>
        ops[o].pc \in {"wait", "cancelTurn", "closeChat", "retired", "save"}
  BY NumbersKnown DEF OpTypes, StepsOf
<1>5. Ai!QuestionsAreLive
  BY <1>4 DEF AiInv, TurnShape, AiTypes, Ai!QuestionsAreLive
<1>6. Ai!BusyIsHeld
  BY <1>3 DEF AiInv, TurnShape, Ai!BusyIsHeld, Busy, Ai!Current, Ai!At
<1>7. Ai!TranscriptIsItsOwn
  BY DEF AiInv, TranscriptShape, PrefTypes, Fits, Ai!TranscriptIsItsOwn
<1> QED BY <1>2, <1>5, <1>6, <1>7 DEF AiInv

-----------------------------------------------------------------------------
(* The parts side by side: the part a behaviour runs keeps its invariant,  *)
(* and nothing else moves. The Hermes adapter is among them only for what  *)
(* it must reach in the end, and nothing is claimed of it here.            *)
WorkersParts == {"lifecycle", "signin", "ai", "updater", "download", "window", "quitting", "hermes"}
WorkersInv ==
  /\ part \in WorkersParts
  /\ part = "lifecycle" => LifecycleInv
  /\ part = "signin" => SignInv /\ Flags
  /\ part = "ai" => AiInv /\ disposed \in BOOLEAN
  /\ part \in {"updater", "download"} => UpdaterInv /\ installing \in BOOLEAN
  /\ part \in {"window", "quitting"} => WindowInv

LEMMA WorkersInit == Init => WorkersInv
BY LifecycleStarts, SignStarts, FlagsStart, AiStarts, UpdaterStarts, WindowStarts
   DEF Init, WorkersInv, WorkersParts

(* The chosen part takes a step of its own, or rests.                      *)
LEMMA WorkersMove ==
  ASSUME part \in WorkersParts, [Next]_vars
  PROVE  /\ part' = part
         /\ part = "lifecycle" => [Lifecycle!Next]_LifecycleVars
         /\ part = "signin" => SignIn!Next \/ UNCHANGED SignInVars
         /\ part = "ai" => Ai!Next \/ UNCHANGED AiVars
         /\ part \in {"updater", "download"} => [Updates!Next]_UpdatesVars
         /\ part \in {"window", "quitting"} => [Window!Next]_WindowVars
<1>1. CASE UNCHANGED vars
  BY <1>1 DEF vars
<1>2. CASE Next
  BY <1>2 DEF Next, OthersRest
<1> QED BY <1>1, <1>2

LEMMA WorkersStep ==
  ASSUME WorkersInv, [Next]_vars
  PROVE  WorkersInv'
<1>1. part' = part /\ part \in WorkersParts
  BY WorkersMove DEF WorkersInv
<1>2. part = "lifecycle" => LifecycleInv'
  BY WorkersMove, LifecycleStep DEF WorkersInv
<1>3. part = "signin" => SignInv' /\ Flags'
  BY WorkersMove, SignStep, FlagsKept DEF WorkersInv
<1>4. part = "ai" => AiInv' /\ disposed' \in BOOLEAN
  BY WorkersMove, AiStep, DisposedTyped DEF WorkersInv
<1>5. part \in {"updater", "download"} => UpdaterInv' /\ installing' \in BOOLEAN
  BY WorkersMove, UpdaterStep, InstallingTyped DEF WorkersInv
<1>6. part \in {"window", "quitting"} => WindowInv'
  BY WorkersMove, WindowStep DEF WorkersInv
<1> QED BY <1>1, <1>2, <1>3, <1>4, <1>5, <1>6 DEF WorkersInv

(* The invariant of every worker, under every interleaving of its tasks,   *)
(* callbacks, timers and crashes with what the member asks: which session  *)
(* is open, what the sign-in file and the queue say of each other, whose   *)
(* agent is held, what the updater downloads and which window is loaded.   *)
THEOREM WorkersInductive == Spec => []WorkersInv
<1>1. Init => WorkersInv
  BY WorkersInit
<1>2. WorkersInv /\ [Next]_vars => WorkersInv'
  BY WorkersStep
<1> QED BY <1>1, <1>2, PTL DEF Spec

(* For any number of logins, refreshes and failed cleanups, at most one    *)
(* session's resources are open, an identity is published only when its    *)
(* session is ready, and no result of one login reaches another's session. *)
THEOREM SessionsNeverOverlapHolds == Spec => []SessionsNeverOverlap
<1>1. WorkersInv => SessionsNeverOverlap
  <2> SUFFICES ASSUME WorkersInv PROVE SessionsNeverOverlap
    OBVIOUS
  <2>1. part = "lifecycle" => /\ Lifecycle!TypeOK /\ Lifecycle!PublishedIsReady
                              /\ Lifecycle!OneSessionAtATime /\ Lifecycle!NothingCrossesALogin
    BY LifecycleSafe DEF WorkersInv
  <2>2. part = "signin" => SignIn!TypeOK
    BY SignSafe DEF WorkersInv
  <2>3. part = "ai" => Ai!TypeOK
    BY AiSafe DEF WorkersInv
  <2>4. part \in {"updater", "download"} => Updates!TypeOK
    BY UpdaterSafe DEF WorkersInv
  <2>5. part \in {"window", "quitting"} => Window!TypeOK
    BY WindowSafe DEF WorkersInv
  <2> QED BY <2>1, <2>2, <2>3, <2>4, <2>5 DEF SessionsNeverOverlap, TypeOK
<1> QED BY WorkersInductive, <1>1, PTL

(* However starts, turns, choices of a folder and failed writes of the      *)
(* preference interleave, an agent process that runs is held or about to be *)
(* closed, a busy status has its turn or operation, the transcript is the   *)
(* held conversation's, resumed only in its own folder, and a question on   *)
(* the screen is one the agent waits for.                                  *)
THEOREM AgentsHoldAlways == Spec => []AgentsHold
<1>1. WorkersInv => AgentsHold
  BY AiSafe DEF WorkersInv, AgentsHold
<1> QED BY WorkersInductive, <1>1, PTL

(* Whatever the updater's events and the member's checks do together, one   *)
(* download is under way and only a staged build is offered; whatever       *)
(* callbacks of closed windows still arrive, one window is open, what is    *)
(* sent goes to a loaded renderer of the main window, and the process is    *)
(* gone only once its services are torn down.                              *)
THEOREM OneAtATimeHolds == Spec => []OneAtATime
<1>1. WorkersInv => OneAtATime
  BY UpdaterSafe, WindowSafe DEF WorkersInv, OneAtATime
<1> QED BY WorkersInductive, <1>1, PTL

(* No step takes back what is over: a sign-in the member gave up is never   *)
(* exchanged and none is exchanged twice, the generations of the agent's    *)
(* view and of the window's bindings only grow, and a build the platform    *)
(* refused is never checked again.                                         *)
THEOREM NothingGoesBackHolds == Spec => NothingGoesBack
<1> DEFINE Forward ==
      /\ part = "signin" => SignIn!SupersededStaysOut /\ SignIn!ConsumedOnce
      /\ part = "ai" => Ai!GenerationGrows
      /\ part \in {"updater", "download"} => Updates!UnsupportedIsFinal
      /\ part \in {"window", "quitting"} => Window!FreshGeneration
<1>1. WorkersInv /\ [Next]_vars => [Forward]_vars
  <2> SUFFICES ASSUME WorkersInv, [Next]_vars PROVE Forward
    OBVIOUS
  <2>1. part = "signin" => SignIn!SupersededStaysOut /\ SignIn!ConsumedOnce
    BY WorkersMove, SignStep, SignSafe DEF WorkersInv
  <2>2. part = "ai" => Ai!GenerationGrows
    BY WorkersMove, AiStep DEF WorkersInv
  <2>3. part \in {"updater", "download"} => Updates!UnsupportedIsFinal
    BY WorkersMove, UpdaterStep DEF WorkersInv
  <2>4. part \in {"window", "quitting"} => Window!FreshGeneration
    BY WorkersMove, WindowStep DEF WorkersInv
  <2> QED BY <2>1, <2>2, <2>3, <2>4
<1>2. Spec => [][Forward]_vars
  BY WorkersInductive, <1>1, PTL DEF Spec
<1> QED BY <1>2 DEF NothingGoesBack

=============================================================================
