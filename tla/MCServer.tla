------------------------------ MODULE MCServer ------------------------------
(* The server's identity and lifecycle modules side by side: each behaviour runs one of   *)
(* them, chosen in the initial state, so one run explores them without their product.    *)
EXTENDS Naturals, FiniteSets, TLC

CONSTANTS
  Sessions, Owners, Guests, Agent, Asking, Nobody, Subjects, LinkTTL, SessionTTL,
  WindowTTL, MaxLinks, MaxSessions, MaxTokens, MaxNow, MaxDeliveries, MaxChanges,
  TransactionTTL, HandoffTTL, LinkedTTL, EventTTL, MaxTransactions, MaxHandoffs,
  MaxLinked, MaxClock, MaxMembers, MaxInvitations, MaxDays, MaxRetries, MaxAborts,
  MaxBegun, MaxTeam, MaxEnrollments, MaxAsked, MaxHappenings, MaxSeats, MaxCredentials,
  MaxTime, TTL, MaxStarts, MaxPosts, WindowPosts, MaxRuns, MaxFaults, Processes, Jobs,
  OnBoot, SingleFlight, Files, Revised, Recorded

VARIABLES
  part,  \* the part this behaviour runs
  now, member, links, sessions, history, issued, reached, window, requests, madeBy,
  changes, clock, admitting, transactions, handoffs, linked, events, provider, handlers,
  recon, spent, madeFrom, day, roster, usernames, invitations, bindings, sessions_,
  acts, activatedBy, aborts, begun, today, policy, owners, inviter, channel,
  enrollments, trail, children, tx, granted, redeemed, aborted, started, time, bot,
  hook, credentials, others, manages, archived, work, posts, silenced, replaced,
  attempts, starts, phase, pool, hub, ready, timers, running, guard, closing, armed,
  code, lock, recorded, seen, executed, runs, faults

\* what the old and the new release ship: a corrected first migration and a third one
Version(n, s) == [name |-> n, sum |-> s]
Shipping == [p \in {"old", "new"} |->
  IF p = "old" THEN <<Version(1, 1), Version(2, 1)>>
  ELSE <<Version(1, 2), Version(2, 1), Version(3, 1)>>]
Correction == [name |-> 1, original |-> 1, corrected |-> 2]
Established == {Version(1, 1)}

Devices == INSTANCE DeviceSessions WITH
  Requests <- Sessions
AuthKit == INSTANCE AuthKitServer WITH
  Handlers <- Sessions, Upstream <- Subjects, NoUpstream <- Nobody
Admitting == INSTANCE Admission
Enrolling == INSTANCE AgentEnrollment WITH
  Requesting <- Asking, Inviter <- Agent, MaxMembers <- MaxTeam, MaxBegun <- MaxAsked
Hooks == INSTANCE ChannelWebhooks WITH
  MaxMembers <- MaxSeats
Process == INSTANCE ServerProcess

\* what the bounds and the names are: what every proof of a part starts from
ASSUME DevicesBounds ==
  /\ MaxLinks \in Nat /\ MaxSessions \in Nat /\ MaxTokens \in Nat /\ MaxNow \in Nat
  /\ LinkTTL \in Nat /\ SessionTTL \in Nat /\ WindowTTL \in Nat
  /\ MaxDeliveries \in Nat /\ MaxChanges \in Nat
ASSUME AuthKitBounds ==
  /\ MaxTransactions \in Nat /\ MaxHandoffs \in Nat /\ MaxLinked \in Nat /\ MaxClock \in Nat
  /\ TransactionTTL \in Nat /\ HandoffTTL \in Nat /\ LinkedTTL \in Nat /\ EventTTL \in Nat
  /\ Nobody \notin Subjects
ASSUME AdmissionBounds ==
  /\ MaxMembers \in Nat /\ MaxInvitations \in Nat /\ MaxDays \in Nat /\ MaxRetries \in Nat
  /\ MaxAborts \in Nat /\ MaxBegun \in Nat
  /\ IsFiniteSet(Owners) /\ IsFiniteSet(Guests) /\ Owners # {}
  /\ Cardinality(Owners) <= MaxMembers
  /\ Agent \notin Owners \cup Guests /\ Nobody \notin Owners \cup Guests \cup {Agent}
ASSUME EnrollmentBounds ==
  /\ MaxEnrollments \in Nat /\ MaxTeam \in Nat /\ MaxDays \in Nat /\ MaxRetries \in Nat
  /\ MaxAborts \in Nat /\ MaxAsked \in Nat /\ MaxHappenings \in Nat
  /\ IsFiniteSet(Owners) /\ Asking \in Owners /\ Agent \notin Owners
  /\ Nobody \notin Owners \cup {Agent} /\ Cardinality(Owners) + 1 <= MaxTeam
ASSUME WebhookBounds ==
  /\ MaxCredentials \in Nat /\ MaxSeats \in Nat \ {0} /\ MaxTime \in Nat /\ TTL \in Nat
  /\ MaxStarts \in Nat /\ MaxPosts \in Nat /\ WindowPosts \in Nat
ASSUME ProcessBounds ==
  /\ MaxRuns \in Nat \ {0} /\ MaxFaults \in Nat /\ OnBoot \subseteq Jobs /\ SingleFlight \subseteq Jobs
  /\ \A a, b \in SingleFlight : a = b
  /\ Process!Free \notin Processes
  /\ \A a, b \in Recorded : a.name = b.name => a = b

DevicesVars == <<
  now, member, links, sessions, history, issued, reached, window, requests, madeBy,
  changes>>
AuthKitVars == <<
  clock, admitting, transactions, handoffs, linked, events, provider, handlers, recon,
  spent, madeFrom>>
AdmittingVars == <<
  day, roster, usernames, invitations, bindings, sessions_, acts, activatedBy, aborts,
  begun>>
EnrollingVars == <<
  today, policy, owners, inviter, channel, enrollments, trail, children, tx, granted,
  redeemed, aborted, started>>
HooksVars == <<
  time, bot, hook, credentials, others, manages, archived, work, posts, silenced,
  replaced, attempts, starts>>
ProcessVars == <<
  phase, pool, hub, ready, timers, running, guard, closing, armed, code, lock, recorded,
  seen, executed, runs, faults>>
vars == <<part, DevicesVars, AuthKitVars, AdmittingVars, EnrollingVars, HooksVars, ProcessVars>>

\* a part that is not chosen rests
DevicesRests ==
  /\ now = 0 /\ member = FALSE /\ links = 0 /\ sessions = 0 /\ history = 0
  /\ issued = 0 /\ reached = 0 /\ window = 0 /\ requests = 0 /\ madeBy = 0
  /\ changes = 0
AuthKitRests ==
  /\ clock = 0 /\ admitting = FALSE /\ transactions = 0 /\ handoffs = 0 /\ linked = 0
  /\ events = 0 /\ provider = 0 /\ handlers = 0 /\ recon = 0 /\ spent = 0
  /\ madeFrom = 0
AdmittingRests ==
  /\ day = 0 /\ roster = 0 /\ usernames = 0 /\ invitations = 0 /\ bindings = 0
  /\ sessions_ = 0 /\ acts = 0 /\ activatedBy = 0 /\ aborts = 0 /\ begun = 0
EnrollingRests ==
  /\ today = 0 /\ policy = 0 /\ owners = 0 /\ inviter = 0 /\ channel = 0
  /\ enrollments = 0 /\ trail = 0 /\ children = 0 /\ tx = 0 /\ granted = 0
  /\ redeemed = 0 /\ aborted = 0 /\ started = 0
HooksRests ==
  /\ time = 0 /\ bot = 0 /\ hook = 0 /\ credentials = 0 /\ others = 0 /\ manages = 0
  /\ archived = 0 /\ work = 0 /\ posts = 0 /\ silenced = 0 /\ replaced = 0
  /\ attempts = 0 /\ starts = 0
ProcessRests ==
  /\ phase = 0 /\ pool = 0 /\ hub = 0 /\ ready = 0 /\ timers = 0 /\ running = 0
  /\ guard = 0 /\ closing = 0 /\ armed = 0 /\ code = 0 /\ lock = 0 /\ recorded = 0
  /\ seen = 0 /\ executed = 0 /\ runs = 0 /\ faults = 0

Init ==
  \/ part = "devices" /\ Devices!Init /\ AuthKitRests /\ AdmittingRests /\ EnrollingRests /\ HooksRests /\ ProcessRests
  \/ part = "authkit" /\ AuthKit!Init /\ DevicesRests /\ AdmittingRests /\ EnrollingRests /\ HooksRests /\ ProcessRests
  \/ part = "admission" /\ Admitting!Init /\ DevicesRests /\ AuthKitRests /\ EnrollingRests /\ HooksRests /\ ProcessRests
  \/ part = "enrollment" /\ Enrolling!Init /\ DevicesRests /\ AuthKitRests /\ AdmittingRests /\ HooksRests /\ ProcessRests
  \/ part = "webhooks" /\ Hooks!Init /\ DevicesRests /\ AuthKitRests /\ AdmittingRests /\ EnrollingRests /\ ProcessRests
  \/ part = "process" /\ Process!Init /\ DevicesRests /\ AuthKitRests /\ AdmittingRests /\ EnrollingRests /\ HooksRests

OthersRest(chosen) ==
  /\ UNCHANGED part
  /\ chosen # "devices" => UNCHANGED DevicesVars
  /\ chosen # "authkit" => UNCHANGED AuthKitVars
  /\ chosen # "admission" => UNCHANGED AdmittingVars
  /\ chosen # "enrollment" => UNCHANGED EnrollingVars
  /\ chosen # "webhooks" => UNCHANGED HooksVars
  /\ chosen # "process" => UNCHANGED ProcessVars

Next ==
  \/ part = "devices" /\ Devices!Next /\ OthersRest("devices")
  \/ part = "authkit" /\ AuthKit!Next /\ OthersRest("authkit")
  \/ part = "admission" /\ Admitting!Next /\ OthersRest("admission")
  \/ part = "enrollment" /\ Enrolling!Next /\ OthersRest("enrollment")
  \/ part = "webhooks" /\ Hooks!Next /\ OthersRest("webhooks")
  \/ part = "process" /\ Process!Next /\ OthersRest("process")

Spec == Init /\ [][Next]_vars


Symmetry == Permutations(Sessions) \cup Permutations(Guests)

---------------------------------------------------------------------------
(* Each part keeps its types. *)
TypeOK ==
  /\ part = "devices" => Devices!TypeOK
  /\ part = "authkit" => AuthKit!TypeOK
  /\ part = "admission" => Admitting!TypeOK
  /\ part = "enrollment" => Enrolling!TypeOK
  /\ part = "webhooks" => Hooks!TypeOK
  /\ part = "process" => Process!TypeOK

(* A sign-in link makes one session and a code or a handoff is used once, however their   *)
(* redemptions interleave; a refresh that lost a race never ends the lineage, while one    *)
(* with a credential replaced before it began always does.                               *)
SignInsAreSingle ==
  /\ TypeOK
  /\ part = "devices" => Devices!LinkSpentOnce
  /\ part = "devices" => Devices!RaceIsNotReuse
  /\ part = "devices" => Devices!ReuseEndsLineage
  /\ part = "authkit" => AuthKit!OneUse

(* A session the provider ended is ended here whichever of the webhook and the exchange    *)
(* came first, and reconciliation ends only those the provider did end.                   *)
RevocationsReach ==
  /\ part = "authkit" => AuthKit!RevocationReachesAll
  /\ part = "authkit" => AuthKit!ReconcileIsJust

(* The capacity and the last owner survive every interleaving of activations, demotions   *)
(* and retries; an owner's operation commits only while its asker is one, an invitation is *)
(* activated once, an agent only while policy, requester, seat and room allow it, and the  *)
(* audit trail is one chain to the enrollment's status.                                   *)
AdmissionHolds ==
  /\ part = "admission" => Admitting!CapacityHeld
  /\ part = "admission" => Admitting!KeepsAnOwner
  /\ part = "admission" => Admitting!ActsAsOwner
  /\ part = "admission" => Admitting!ActivatedOnce
  /\ part = "enrollment" => Enrolling!PolicyGoverns
  /\ part = "enrollment" => Enrolling!ActivatedWhileAllowed
  /\ part = "enrollment" => Enrolling!OneAgent
  /\ part = "enrollment" => Enrolling!AuditChains

(* A webhook's message commits only with the current credential of an enabled webhook of   *)
(* an open channel, and nothing it replaced posts after the rotation was answered.         *)
PostsAreCurrent ==
  /\ part = "webhooks" => Hooks!PostsAreCurrent
  /\ part = "webhooks" => Hooks!WebhookHolds

(* Whatever processes start, crash or are signalled together, a migration takes effect     *)
(* once, one that serves has all it ships, one that ended has nothing open, and none that   *)
(* still listens comes past the end of its pool.                                         *)
ProcessesClose ==
  /\ part = "process" => Process!MigratedOnce
  /\ part = "process" => Process!EndsClosed
  /\ part = "process" => Process!ClosesOnlyAfterLoss

(* What ended stays as it ended: a revoked session or a replaced credential, an invitation *)
(* or an enrollment, a subject's user, a draining process.                               *)
EndsStayEnded == 
  [][/\ part = "devices" => Devices!RevokedIsFinal
     /\ part = "authkit" => AuthKit!RevokedStaysSo
     /\ part = "admission" => Admitting!BoundForGood /\ Admitting!EndsAreFinal
     /\ part = "enrollment" => Enrolling!EndedIsFinal
     /\ part = "process" => Process!DrainIsFinal]_vars

=============================================================================
