----------------------- MODULE RealtimeClient_proofs -----------------------
(***************************************************************************)
(* The realtime transport is safe for any number of events, scopes,        *)
(* generations and sockets and any budgets.  The inductive invariant says   *)
(* what a running transport waits for, how far the renderer is when a       *)
(* socket delivers to it, and what a retained recovery still forbids; no    *)
(* part of it mentions the bounds except the two of the types.             *)
(***************************************************************************)
EXTENDS RealtimeClient, FiniteSetTheorems, TLAPS

Running == ~stopped /\ ~incompatible

SocketRecords == [epoch: Epochs, scope: 1..MaxSessions, user: {"own", "other"},
                  next: Positions, replayed: Positions, greeted: BOOLEAN, gone: BOOLEAN]

Flags ==
  /\ stopped \in BOOLEAN /\ incompatible \in BOOLEAN /\ ready \in BOOLEAN
  /\ windowless \in BOOLEAN /\ up \in BOOLEAN /\ gap \in BOOLEAN /\ foreign \in BOOLEAN

Typed ==
  /\ sessions \in 0..MaxSessions /\ scope \in 0..sessions /\ held \in 0..sessions
  /\ cursor \in Positions /\ received \in Positions /\ durable \in Positions
  /\ recovery \in Positions \cup {None} /\ overflowAt \in Positions \cup {None}
  /\ epoch \in Nat /\ requests \subseteq Epochs
  /\ ticket \in Epochs \cup {None} /\ timer \in Epochs \cup {None}
  /\ sockets \in Seq(SocketRecords) /\ connection \in 0..Len(sockets)
  /\ \A a \in acks : a.scope \in 1..sessions /\ a.cursor \in Positions

(* Generations begin only where the callers' bound leaves room for the stop. *)
EpochBound ==
  /\ epoch <= MaxEpoch + 2
  /\ ~stopped => epoch <= MaxEpoch + 1
  /\ stopped /\ scope # 0 /\ recovery = None => epoch <= MaxEpoch

(* What is delivered and not acknowledged stays within the budget. *)
WithinBudget ==
  /\ pendingDelivery \subseteq [socket: DOMAIN sockets, position: Positions]
  /\ IsFiniteSet(pendingDelivery)
  /\ Cardinality(pendingDelivery) <= MaxPending

(* A running transport waits for one thing, which its generation began. *)
WaitsForOne ==
  /\ ~Running => ticket = None /\ timer = None /\ connection = 0
  /\ Running =>
       /\ \/ ticket # None /\ timer = None /\ connection = 0
          \/ ticket = None /\ timer # None /\ connection = 0
          \/ ticket = None /\ timer = None /\ connection # 0
       /\ ticket # None => ticket = epoch /\ ticket \in requests
       /\ timer # None => timer = epoch
       /\ connection # 0 => scope # 0 /\ sockets[connection].scope = scope
                            /\ sockets[connection].epoch = epoch

(* Acknowledgements, under way or applied, are of what is persisted. *)
Acknowledged ==
  /\ cursor <= durable /\ durable <= received
  /\ \A a \in acks : a.cursor <= durable

(* A renderer that is gone holds no scope, nor one of a transport that only *)
(* observes.                                                               *)
Present == (~up => held = 0) /\ (windowless => held = 0)

(* The renderer has applied everything before the next event that the       *)
(* connection would deliver to it.                                         *)
Contiguous ==
  connection # 0 =>
    LET c == sockets[connection] IN
    /\ c.replayed <= c.next
    /\ c.greeted => c.replayed = c.next /\ c.user = "own"
    /\ c.scope = held => c.replayed <= received

(* A recovery stops the transport, and until the session is reset a cursor  *)
(* that is not held back by one has passed the overflow.                   *)
Latched ==
  /\ recovery # None => stopped /\ recovery = overflowAt
  /\ recovery = None /\ overflowAt # None => overflowAt < cursor

IInv ==
  /\ Typed /\ Flags /\ EpochBound /\ WithinBudget /\ WaitsForOne /\ Acknowledged /\ Present
  /\ Contiguous /\ Latched
  /\ ~gap /\ ~foreign

-----------------------------------------------------------------------------
USE ClientAssumption DEF Positions, Epochs

LEMMA Types == IInv => TypeOK
<1> SUFFICES ASSUME IInv PROVE TypeOK
  OBVIOUS
<1>1. {stopped, incompatible, ready, windowless, up, gap, foreign} \subseteq BOOLEAN
  BY Zenon DEF IInv, Flags
<1>2. Typed /\ epoch \in Epochs
  BY DEF IInv, Typed, EpochBound
<1> QED BY <1>1, <1>2 DEF IInv, Typed, WithinBudget, SocketRecords, TypeOK

LEMMA InitIInv == Init => IInv
<1> SUFFICES ASSUME Init PROVE IInv
  OBVIOUS
<1>1. IsFiniteSet(pendingDelivery) /\ Cardinality(pendingDelivery) = 0
  BY FS_EmptySet DEF Init
<1>2. Typed
  BY DEF Init, Typed
<1>5. Flags
  BY DEF Init, Flags
<1>3. EpochBound /\ WithinBudget /\ WaitsForOne /\ Acknowledged /\ Present
  BY <1>1 DEF Init, EpochBound, WithinBudget, WaitsForOne, Acknowledged, Present, Running
<1>4. Contiguous /\ Latched /\ ~gap /\ ~foreign
  BY DEF Init, Contiguous, Latched
<1> QED BY <1>2, <1>3, <1>4, <1>5 DEF IInv

(* What an empty budget is within, and what a part of one within is within. *)
LEMMA BudgetOfPart ==
  ASSUME WithinBudget, sockets' = sockets, pendingDelivery' \subseteq pendingDelivery
  PROVE  WithinBudget'
<1>1. IsFiniteSet(pendingDelivery') /\ Cardinality(pendingDelivery') <= Cardinality(pendingDelivery)
  BY FS_Subset DEF WithinBudget
<1>2. Cardinality(pendingDelivery') \in Nat /\ Cardinality(pendingDelivery) \in Nat
  BY <1>1, FS_CardinalityType DEF WithinBudget
<1> QED BY <1>1, <1>2 DEF WithinBudget

LEMMA SocketTyped ==
  ASSUME Typed, NEW i \in DOMAIN sockets
  PROVE  /\ i \in Nat \ {0} /\ i <= Len(sockets) /\ sockets[i] \in SocketRecords
         /\ sockets[i].scope \in Nat \ {0} /\ sockets[i].epoch \in Epochs
         /\ sockets[i].next \in Positions /\ sockets[i].replayed \in Positions
<1>1. i \in 1..Len(sockets) /\ Len(sockets) \in Nat /\ sockets[i] \in SocketRecords
  BY DEF Typed
<1> QED BY <1>1 DEF SocketRecords

-----------------------------------------------------------------------------
(* What the renderer and the window do.                                    *)

LEMMA PrepareKeeps == IInv /\ Prepare => IInv'
<1> SUFFICES ASSUME IInv, Prepare PROVE IInv'
  OBVIOUS
<1> USE DEF Prepare, Retire
<1>1. Typed'
  BY DEF IInv, Typed, EpochBound
<1>5. Flags'
  BY DEF IInv, Flags
<1>6. EpochBound'
  BY DEF IInv, Typed, EpochBound
<1>2. WithinBudget'
  BY BudgetOfPart DEF IInv
<1>3. WaitsForOne' /\ Acknowledged' /\ Present'
  BY DEF IInv, Typed, WaitsForOne, Running, Acknowledged, Present
<1>4. Contiguous' /\ Latched' /\ ~gap' /\ ~foreign'
  BY DEF IInv, Typed, Contiguous, Latched, Acknowledged
<1> QED BY <1>1, <1>2, <1>3, <1>4, <1>5, <1>6 DEF IInv

LEMMA ActivateKeeps == IInv /\ Activate => IInv'
<1> SUFFICES ASSUME IInv, Activate PROVE IInv'
  OBVIOUS
<1> USE DEF Activate, genVars, activityVars, latchVars, rendererVars, deliveryVars
<1>1. CASE ActivateRecovery
  <2> USE <1>1 DEF ActivateRecovery
  <2>1. Typed' /\ EpochBound'
    BY DEF IInv, Typed, EpochBound
  <2>2. WithinBudget'
    BY BudgetOfPart DEF IInv
  <2>3. WaitsForOne' /\ Acknowledged' /\ Present'
    BY DEF IInv, Typed, WaitsForOne, Running, Acknowledged, Present
  <2>4. Contiguous' /\ Latched' /\ Flags' /\ ~gap' /\ ~foreign'
    BY DEF IInv, Typed, Flags, Contiguous, Latched
  <2> QED BY <2>1, <2>2, <2>3, <2>4 DEF IInv
<1>2. CASE ActivateGeneration
  <2> USE <1>2 DEF ActivateGeneration, BeginEpoch
  <2>0. epoch + 1 \in Epochs /\ epoch \in Nat /\ epoch <= MaxEpoch /\ epoch + 1 # None
    BY DEF IInv, Typed, EpochBound
  <2>1. Typed'
    BY <2>0 DEF IInv, Typed
  <2>5. EpochBound'
    BY <2>0 DEF IInv, EpochBound
  <2>2. WithinBudget'
    BY BudgetOfPart DEF IInv
  <2>3. WaitsForOne' /\ Acknowledged' /\ Present'
    BY <2>0 DEF IInv, Typed, WaitsForOne, Running, Acknowledged, Present
  <2>4. Contiguous' /\ Latched' /\ Flags' /\ ~gap' /\ ~foreign'
    BY DEF IInv, Typed, Flags, Contiguous, Latched
  <2> QED BY <2>1, <2>2, <2>3, <2>4, <2>5 DEF IInv
<1> QED BY <1>1, <1>2

LEMMA StopKeeps ==
  ASSUME IInv, Stop
  PROVE  IInv'
<1> USE DEF Stop, Retire, genVars, activityVars, modeVars, latchVars, rendererVars, deliveryVars
<1>1. Typed'
  BY DEF IInv, Typed
<1>2. EpochBound'
  BY DEF IInv, Typed, EpochBound
<1>3. WithinBudget'
  BY BudgetOfPart DEF IInv
<1>4. WaitsForOne'
  BY DEF IInv, Typed, WaitsForOne, Running
<1>5. Acknowledged' /\ Present'
  BY DEF IInv, Typed, Acknowledged, Present
<1>6. Contiguous'
  BY DEF IInv, Typed, Contiguous, Acknowledged, Present
<1>7. Latched' /\ Flags' /\ ~gap' /\ ~foreign'
  BY DEF IInv, Typed, Flags, Latched, Acknowledged
<1> QED BY <1>1, <1>2, <1>3, <1>4, <1>5, <1>6, <1>7 DEF IInv

LEMMA ResetSessionKeeps ==
  ASSUME IInv, ResetSession
  PROVE  IInv'
<1> USE DEF ResetSession, Reset, Retire, genVars, activityVars, modeVars, latchVars, rendererVars, deliveryVars
<1>1. Typed'
  BY DEF IInv, Typed
<1>2. EpochBound'
  BY DEF IInv, Typed, EpochBound
<1>3. WithinBudget'
  BY BudgetOfPart DEF IInv
<1>4. WaitsForOne'
  BY DEF IInv, Typed, WaitsForOne, Running
<1>5. Acknowledged' /\ Present'
  BY DEF IInv, Typed, Acknowledged, Present
<1>6. Contiguous'
  BY DEF IInv, Typed, Contiguous, Acknowledged, Present
<1>7. Latched' /\ Flags' /\ ~gap' /\ ~foreign'
  BY DEF IInv, Typed, Flags, Latched, Acknowledged
<1> QED BY <1>1, <1>2, <1>3, <1>4, <1>5, <1>6, <1>7 DEF IInv

LEMMA ConsumerUnavailableKeeps ==
  ASSUME IInv, ConsumerUnavailable
  PROVE  IInv'
<1> USE DEF ConsumerUnavailable, genVars, activityVars, modeVars, latchVars, rendererVars, deliveryVars
<1>1. Typed'
  BY DEF IInv, Typed
<1>2. EpochBound'
  BY DEF IInv, Typed, EpochBound
<1>3. WithinBudget'
  BY BudgetOfPart DEF IInv
<1>4. WaitsForOne'
  BY DEF IInv, Typed, WaitsForOne, Running
<1>5. Acknowledged' /\ Present'
  BY DEF IInv, Typed, Acknowledged, Present
<1>6. Contiguous'
  BY DEF IInv, Typed, Contiguous, Acknowledged, Present
<1>7. Latched' /\ Flags' /\ ~gap' /\ ~foreign'
  BY DEF IInv, Typed, Flags, Latched, Acknowledged
<1> QED BY <1>1, <1>2, <1>3, <1>4, <1>5, <1>6, <1>7 DEF IInv

LEMMA PersistKeeps ==
  ASSUME IInv, Persist
  PROVE  IInv'
<1> USE DEF Persist, TransportUnchanged, genVars, activityVars, modeVars, latchVars, rendererVars, deliveryVars
<1>1. Typed'
  BY DEF IInv, Typed
<1>2. EpochBound'
  BY DEF IInv, Typed, EpochBound
<1>3. WithinBudget'
  BY BudgetOfPart DEF IInv
<1>4. WaitsForOne'
  BY DEF IInv, Typed, WaitsForOne, Running
<1>5. Acknowledged' /\ Present'
  BY DEF IInv, Typed, Acknowledged, Present
<1>6. Contiguous'
  BY DEF IInv, Typed, Contiguous, Acknowledged, Present
<1>7. Latched' /\ Flags' /\ ~gap' /\ ~foreign'
  BY DEF IInv, Typed, Flags, Latched, Acknowledged
<1> QED BY <1>1, <1>2, <1>3, <1>4, <1>5, <1>6, <1>7 DEF IInv

LEMMA CatchUpKeeps ==
  ASSUME IInv, CatchUp
  PROVE  IInv'
<1> USE DEF CatchUp, TransportUnchanged, Larger, genVars, activityVars, modeVars, latchVars, rendererVars, deliveryVars
<1>1. Typed'
  BY DEF IInv, Typed
<1>2. EpochBound'
  BY DEF IInv, Typed, EpochBound
<1>3. WithinBudget'
  BY BudgetOfPart DEF IInv
<1>4. WaitsForOne'
  BY DEF IInv, Typed, WaitsForOne, Running
<1>5. Acknowledged' /\ Present'
  BY DEF IInv, Typed, Acknowledged, Present
<1>0. connection # 0 => sockets[connection].scope # 0 /\ sockets[connection].replayed \in Nat
  BY SocketTyped DEF IInv, Typed
<1>6. Contiguous'
  BY <1>0 DEF IInv, Typed, Contiguous, Acknowledged, Present
<1>7. Latched' /\ Flags' /\ ~gap' /\ ~foreign'
  BY DEF IInv, Typed, Flags, Latched, Acknowledged
<1> QED BY <1>1, <1>2, <1>3, <1>4, <1>5, <1>6, <1>7 DEF IInv

LEMMA RendererGoneKeeps ==
  ASSUME IInv, RendererGone
  PROVE  IInv'
<1> USE DEF RendererGone, TransportUnchanged, genVars, activityVars, modeVars, latchVars, rendererVars, deliveryVars
<1>1. Typed'
  BY DEF IInv, Typed
<1>2. EpochBound'
  BY DEF IInv, Typed, EpochBound
<1>3. WithinBudget'
  BY BudgetOfPart DEF IInv
<1>4. WaitsForOne'
  BY DEF IInv, Typed, WaitsForOne, Running
<1>5. Acknowledged' /\ Present'
  BY DEF IInv, Typed, Acknowledged, Present
<1>0. connection # 0 => sockets[connection].scope # 0 /\ sockets[connection].replayed \in Nat
  BY SocketTyped DEF IInv, Typed
<1>6. Contiguous'
  BY <1>0 DEF IInv, Typed, Contiguous, Acknowledged, Present
<1>7. Latched' /\ Flags' /\ ~gap' /\ ~foreign'
  BY DEF IInv, Typed, Flags, Latched, Acknowledged
<1> QED BY <1>1, <1>2, <1>3, <1>4, <1>5, <1>6, <1>7 DEF IInv

LEMMA RendererLoadsKeeps ==
  ASSUME IInv, RendererLoads
  PROVE  IInv'
<1> USE DEF RendererLoads, TransportUnchanged, genVars, activityVars, modeVars, latchVars, rendererVars, deliveryVars
<1>1. Typed'
  BY DEF IInv, Typed
<1>2. EpochBound'
  BY DEF IInv, Typed, EpochBound
<1>3. WithinBudget'
  BY BudgetOfPart DEF IInv
<1>4. WaitsForOne'
  BY DEF IInv, Typed, WaitsForOne, Running
<1>5. Acknowledged' /\ Present'
  BY DEF IInv, Typed, Acknowledged, Present
<1>6. Contiguous'
  BY DEF IInv, Typed, Contiguous, Acknowledged, Present
<1>7. Latched' /\ Flags' /\ ~gap' /\ ~foreign'
  BY DEF IInv, Typed, Flags, Latched, Acknowledged
<1> QED BY <1>1, <1>2, <1>3, <1>4, <1>5, <1>6, <1>7 DEF IInv

LEMMA AcknowledgeKeeps ==
  ASSUME IInv, NEW a \in acks, Acknowledge(a)
  PROVE  IInv'
<1> USE DEF Acknowledge, Unacknowledged, Larger, genVars, activityVars, modeVars, latchVars, rendererVars, deliveryVars
<1>1. Typed'
  BY DEF IInv, Typed
<1>2. EpochBound'
  BY DEF IInv, Typed, EpochBound
<1>3. WithinBudget'
  BY BudgetOfPart DEF IInv
<1>4. WaitsForOne'
  BY DEF IInv, Typed, WaitsForOne, Running
<1>5. Acknowledged' /\ Present'
  BY DEF IInv, Typed, Acknowledged, Present
<1>6. Contiguous'
  BY DEF IInv, Typed, Contiguous, Acknowledged, Present
<1>7. Latched' /\ Flags' /\ ~gap' /\ ~foreign'
  BY DEF IInv, Typed, Flags, Latched, Acknowledged
<1> QED BY <1>1, <1>2, <1>3, <1>4, <1>5, <1>6, <1>7 DEF IInv

LEMMA LateTicketKeeps ==
  ASSUME IInv, NEW e \in requests, LateTicket(e)
  PROVE  IInv'
<1> USE DEF LateTicket, Settled, OwnsTicket, IsCurrentEpoch, genVars, activityVars, modeVars, latchVars, rendererVars, deliveryVars
<1>1. Typed'
  BY DEF IInv, Typed
<1>2. EpochBound'
  BY DEF IInv, Typed, EpochBound
<1>3. WithinBudget'
  BY BudgetOfPart DEF IInv
<1>4. WaitsForOne'
  BY DEF IInv, Typed, WaitsForOne, Running
<1>5. Acknowledged' /\ Present'
  BY DEF IInv, Typed, Acknowledged, Present
<1>6. Contiguous'
  BY DEF IInv, Typed, Contiguous, Acknowledged, Present
<1>7. Latched' /\ Flags' /\ ~gap' /\ ~foreign'
  BY DEF IInv, Typed, Flags, Latched, Acknowledged
<1> QED BY <1>1, <1>2, <1>3, <1>4, <1>5, <1>6, <1>7 DEF IInv

LEMMA TimerFiresKeeps ==
  ASSUME IInv, TimerFires
  PROVE  IInv'
<1> USE DEF TimerFires, IsCurrentEpoch, genVars, activityVars, modeVars, latchVars, rendererVars, deliveryVars
<1>1. Typed'
  BY DEF IInv, Typed
<1>2. EpochBound'
  BY DEF IInv, Typed, EpochBound
<1>3. WithinBudget'
  BY BudgetOfPart DEF IInv
<1>4. WaitsForOne'
  BY DEF IInv, Typed, WaitsForOne, Running
<1>5. Acknowledged' /\ Present'
  BY DEF IInv, Typed, Acknowledged, Present
<1>6. Contiguous'
  BY DEF IInv, Typed, Contiguous, Acknowledged, Present
<1>7. Latched' /\ Flags' /\ ~gap' /\ ~foreign'
  BY DEF IInv, Typed, Flags, Latched, Acknowledged
<1> QED BY <1>1, <1>2, <1>3, <1>4, <1>5, <1>6, <1>7 DEF IInv

LEMMA ObserveOnlyKeeps ==
  ASSUME IInv, ObserveOnly
  PROVE  IInv'
<1> USE DEF ObserveOnly, genVars, activityVars, latchVars, rendererVars, deliveryVars
<1>0. held = 0 /\ epoch \in Nat /\ epoch < MaxEpoch
  BY DEF IInv, Typed, Present
<1>1. CASE ObserveOn
  <2> USE <1>1 DEF ObserveOn
  <2>1. Typed' /\ EpochBound' /\ Flags'
    BY DEF IInv, Typed, EpochBound, Flags
  <2>2. WithinBudget'
    BY BudgetOfPart DEF IInv
  <2>3. WaitsForOne' /\ Acknowledged' /\ Present'
    BY <1>0 DEF IInv, Typed, WaitsForOne, Running, Acknowledged, Present
  <2>4. Contiguous' /\ Latched' /\ ~gap' /\ ~foreign'
    BY DEF IInv, Typed, Contiguous, Latched
  <2> QED BY <2>1, <2>2, <2>3, <2>4 DEF IInv
<1>2. CASE ObserveScope
  <2> USE <1>2 DEF ObserveScope, BeginEpoch
  <2>0. epoch + 1 \in Epochs /\ epoch + 1 # None
    BY <1>0
  <2>1. Typed'
    BY <1>0, <2>0 DEF IInv, Typed
  <2>5. EpochBound'
    BY <1>0, <2>0 DEF IInv, EpochBound
  <2>6. Flags'
    BY DEF IInv, Flags
  <2>2. WithinBudget'
    BY BudgetOfPart DEF IInv
  <2>3. WaitsForOne' /\ Acknowledged' /\ Present'
    BY <1>0, <2>0 DEF IInv, Typed, WaitsForOne, Running, Acknowledged, Present
  <2>4. Contiguous' /\ Latched' /\ ~gap' /\ ~foreign'
    BY DEF IInv, Typed, Contiguous, Latched
  <2> QED BY <2>1, <2>2, <2>3, <2>4, <2>5, <2>6 DEF IInv
<1>3. CASE ObserveAnew
  <2> USE <1>3 DEF ObserveAnew, BeginEpoch
  <2>0. epoch + 2 \in Epochs /\ epoch + 2 # None
    BY <1>0
  <2>1. Typed'
    BY <1>0, <2>0 DEF IInv, Typed
  <2>5. EpochBound'
    BY <1>0, <2>0 DEF IInv, EpochBound
  <2>6. Flags'
    BY DEF IInv, Flags
  <2>2. WithinBudget'
    BY BudgetOfPart DEF IInv
  <2>3. WaitsForOne' /\ Acknowledged' /\ Present'
    BY <1>0, <2>0 DEF IInv, Typed, WaitsForOne, Running, Acknowledged, Present
  <2>4. Contiguous' /\ Latched' /\ ~gap' /\ ~foreign'
    BY DEF IInv, Typed, Contiguous, Latched
  <2> QED BY <2>1, <2>2, <2>3, <2>4, <2>5, <2>6 DEF IInv
<1> QED BY <1>1, <1>2, <1>3

-----------------------------------------------------------------------------
(* Tickets and sockets.                                                    *)

LEMMA OpenSocketKeeps ==
  ASSUME IInv, NEW e \in requests, NEW user \in {"own", "other"}, OpenSocket(e, user)
  PROVE  IInv'
<1> DEFINE new == Socket(user)
<1> USE DEF OpenSocket, Settled, OwnsTicket, IsCurrentEpoch, genVars, modeVars, latchVars,
            rendererVars, deliveryVars
<1>1. /\ new \in SocketRecords /\ new.scope = scope /\ new.epoch = epoch /\ new.next = cursor
      /\ new.replayed = cursor /\ ~new.greeted
  BY DEF IInv, Typed, EpochBound, Socket, SocketRecords
<1> HIDE DEF new
<1>2. /\ sockets' = Append(sockets, new) /\ Len(sockets') = Len(sockets) + 1
      /\ sockets' \in Seq(SocketRecords) /\ connection' = Len(sockets')
      /\ sockets'[connection'] = new /\ DOMAIN sockets \subseteq DOMAIN sockets'
  BY <1>1, SMTT(30) DEF IInv, Typed, new
<1>3. Typed' /\ Flags'
  BY <1>2 DEF IInv, Typed, Flags
<1>4. EpochBound'
  BY DEF IInv, Typed, EpochBound
<1>5. WithinBudget'
  BY <1>2 DEF IInv, WithinBudget
<1>6. WaitsForOne'
  BY <1>1, <1>2 DEF IInv, Typed, WaitsForOne, Running
<1>7. Acknowledged' /\ Present' /\ Latched' /\ ~gap' /\ ~foreign'
  BY DEF IInv, Acknowledged, Present, Latched
<1>8. Contiguous'
  BY <1>1, <1>2 DEF IInv, Typed, Contiguous, Acknowledged
<1> QED BY <1>3, <1>4, <1>5, <1>6, <1>7, <1>8 DEF IInv

LEMMA TicketFailsKeeps ==
  ASSUME IInv, NEW e \in requests, TicketFails(e)
  PROVE  IInv'
<1> USE DEF TicketFails, Settled, OwnsTicket, IsCurrentEpoch, genVars, modeVars, latchVars,
            rendererVars, deliveryVars
<1>0. Running /\ ticket = epoch /\ e = epoch /\ timer = None /\ connection = 0 /\ epoch \in Nat
  BY DEF IInv, Typed, WaitsForOne, Running
<1>1. WithinBudget' /\ Acknowledged'
  BY BudgetOfPart DEF IInv, Acknowledged, Schedule, Reset, Retire
<1>2. CASE Schedule(e)
  <2> USE <1>2 DEF Schedule
  <2>1. Typed' /\ Flags' /\ EpochBound'
    BY <1>0 DEF IInv, Typed, Flags, EpochBound
  <2>2. WaitsForOne' /\ Present' /\ Contiguous' /\ Latched' /\ ~gap' /\ ~foreign'
    BY <1>0 DEF IInv, Typed, WaitsForOne, Running, Present, Contiguous, Latched
  <2> QED BY <1>1, <2>1, <2>2 DEF IInv
<1>3. CASE incompatible' = TRUE /\ UNCHANGED <<epoch, stopped, timer, connection, modeVars,
                  latchVars, pendingDelivery, sessions, cursor>>
  <2> USE <1>3
  <2>1. Typed' /\ Flags' /\ EpochBound'
    BY <1>0 DEF IInv, Typed, Flags, EpochBound
  <2>2. WaitsForOne' /\ Present' /\ Contiguous' /\ Latched' /\ ~gap' /\ ~foreign'
    BY <1>0 DEF IInv, Typed, WaitsForOne, Running, Present, Contiguous, Latched
  <2> QED BY <1>1, <2>1, <2>2 DEF IInv
<1>4. CASE Reset
  <2> USE <1>4 DEF Reset, Retire
  <2>0. epoch + 1 <= MaxEpoch + 2
    BY <1>0 DEF IInv, EpochBound, Running
  <2>1. Typed' /\ EpochBound'
    BY <1>0, <2>0 DEF IInv, Typed, EpochBound
  <2>3. Flags'
    BY DEF IInv, Flags
  <2>2. WaitsForOne' /\ Present' /\ Contiguous' /\ Latched' /\ ~gap' /\ ~foreign'
    BY <1>0 DEF IInv, Typed, WaitsForOne, Running, Present, Contiguous, Latched
  <2> QED BY <1>1, <2>1, <2>2, <2>3 DEF IInv
<1> QED BY <1>2, <1>3, <1>4

-----------------------------------------------------------------------------
(* Frames.  A frame changes the record of its own socket and no other.      *)

LEMMA SocketsKeep ==
  ASSUME Typed, NEW i \in DOMAIN sockets, NEW r \in SocketRecords,
         sockets' = [sockets EXCEPT ![i] = r]
  PROVE  /\ sockets' \in Seq(SocketRecords) /\ Len(sockets') = Len(sockets)
         /\ DOMAIN sockets' = DOMAIN sockets /\ sockets'[i] = r
         /\ \A j \in DOMAIN sockets : j # i => sockets'[j] = sockets[j]
  BY SMTT(30) DEF Typed

(* What is delivered at once is finite and of this socket. *)
LEMMA PendingTyped ==
  ASSUME Typed, WithinBudget, NEW i \in DOMAIN sockets, NEW first \in Nat, NEW last \in Positions
  PROVE  /\ Pending(i, first, last) \subseteq [socket: DOMAIN sockets, position: Positions]
         /\ IsFiniteSet(Pending(i, first, last))
         /\ Cardinality(Pending(i, first, last)) \in Nat
<1> DEFINE S == {q \in first..last : q > cursor}
           f == [p \in S |-> [socket |-> i, position |-> p]]
<1>0. IsFiniteSet(first..last) /\ S \in SUBSET (first..last)
  BY FS_Interval
<1>1. IsFiniteSet(S)
  BY <1>0, FS_Subset
<1>2. f \in Surjection(S, Fresh(i, first, last))
  BY DEF Surjection, Fresh
<1>3. IsFiniteSet(Fresh(i, first, last))
  BY <1>1, <1>2, FS_Surjection
<1>4. Fresh(i, first, last) \subseteq [socket: DOMAIN sockets, position: Positions]
  BY DEF Fresh, Typed
<1>5. IsFiniteSet(Pending(i, first, last))
  BY <1>3, FS_Union DEF Pending, WithinBudget
<1> QED BY <1>4, <1>5, FS_CardinalityType DEF Pending, WithinBudget

(* The active socket is the connection of a running transport. *)
LEMMA ActiveConnection ==
  ASSUME IInv, NEW i \in DOMAIN sockets
  PROVE  IsActive(i) <=> connection = i
  BY SocketTyped DEF IInv, Typed, IsActive, IsCurrentEpoch, WaitsForOne, Running

(* Events that continue what the active socket has replayed and that are    *)
(* for the user cross without a gap.                                       *)
LEMMA CrossKeeps ==
  ASSUME IInv, NEW i \in DOMAIN sockets, IsActive(i), NEW first \in Nat, NEW last \in Positions,
         first <= last => first = sockets[i].replayed + 1 /\ sockets[i].user = "own",
         Cross(i, first, last)
  PROVE  /\ gap' = FALSE /\ foreign' = FALSE
         /\ received' \in Positions /\ received <= received'
         /\ first <= last /\ sockets[i].scope = held => last <= received'
<1>1. i # 0 /\ connection = i /\ sockets[i].replayed \in Nat /\ received \in Positions
  <2>1. Typed
    BY DEF IInv
  <2>2. connection = i
    BY DEF IsActive
  <2> QED BY <2>1, <2>2, SocketTyped, SMTT(30) DEF Typed
<1>2. first <= last /\ sockets[i].scope = held => first <= received + 1
  BY <1>1 DEF IInv, Contiguous
<1>4. first <= last /\ sockets[i].scope = held => ~(first > received + 1)
  BY <1>1, <1>2
<1>3. gap' = FALSE /\ foreign' = FALSE
  <2>1. gap' \in BOOLEAN /\ foreign' \in BOOLEAN
    BY Zenon DEF Cross
  <2>2. ~gap' /\ ~foreign'
    BY <1>4, Zenon DEF IInv, Cross
  <2> QED BY <2>1, <2>2, Zenon
<1> QED BY <1>1, <1>3 DEF Cross, Larger

(* A generation that stops by itself leaves nothing that it was waiting     *)
(* for, and room for the next one.                                         *)
LEMMA StopsKeep ==
  ASSUME IInv, Running, StopGeneration, UNCHANGED requests
  PROVE  /\ epoch' \in Nat /\ epoch' <= MaxEpoch + 2 /\ stopped' = TRUE /\ incompatible' = FALSE
         /\ ticket' = None /\ timer' = None /\ connection' = 0 /\ WaitsForOne' /\ Contiguous'
<1>1. epoch \in Nat /\ epoch <= MaxEpoch + 1
  BY DEF IInv, Typed, EpochBound, Running
<1>2. /\ epoch' \in Nat /\ epoch' <= MaxEpoch + 2 /\ stopped' = TRUE /\ incompatible' = FALSE
      /\ ticket' = None /\ timer' = None /\ connection' = 0
  BY <1>1 DEF StopGeneration
<1> QED BY <1>2 DEF WaitsForOne, Contiguous, Running

LEMMA DeliverKeeps ==
  ASSUME IInv, NEW i \in DOMAIN sockets, IsActive(i),
         NEW first \in Nat \ {0}, NEW last \in Positions, NEW control \in {0, 1},
         NEW r \in SocketRecords, sockets' = [sockets EXCEPT ![i] = r],
         r.epoch = sockets[i].epoch, r.scope = sockets[i].scope,
         first <= last =>
           first = sockets[i].replayed + 1 /\ sockets[i].user = "own" /\ r.replayed = last,
         last < first => r.replayed = sockets[i].replayed,
         r.replayed <= r.next,
         r.greeted => r.replayed = r.next /\ r.user = "own",
         Deliver(i, first, last, control),
         UNCHANGED <<requests, acks, rendererVars>>
  PROVE  IInv'
<1> USE DEF genVars, activityVars, modeVars, latchVars, rendererVars, deliveryVars
<1>1. Typed /\ Flags /\ WithinBudget
  BY DEF IInv
<1>2. /\ sockets' \in Seq(SocketRecords) /\ Len(sockets') = Len(sockets)
      /\ DOMAIN sockets' = DOMAIN sockets /\ sockets'[i] = r
  BY <1>1, SocketsKeep
<1>3. connection = i /\ i # 0 /\ Running /\ scope # 0 /\ sockets[i].scope = scope
      /\ sockets[i].epoch = epoch /\ sockets[i].scope \in Nat \ {0}
  BY <1>1, SocketTyped DEF IsActive, IsCurrentEpoch, Running
<1>4. sockets[i].replayed \in Nat /\ (sockets[i].scope = held => sockets[i].replayed <= received)
  BY <1>1, <1>3, SocketTyped DEF IInv, Contiguous
<1>5. CASE windowless
  <2>1. /\ UNCHANGED <<received, gap, foreign, genVars, activityVars, modeVars, latchVars,
                       pendingDelivery, sessions, cursor>>
        /\ held = 0
    BY <1>5 DEF Deliver, Nothing, IInv, Present
  <2>2. Typed' /\ WithinBudget'
    BY <1>1, <1>2, <2>1 DEF Typed, WithinBudget
  <2>3. Flags' /\ EpochBound' /\ Acknowledged' /\ Present' /\ Latched' /\ ~gap' /\ ~foreign'
    BY <2>1 DEF IInv, Flags, EpochBound, Acknowledged, Present, Latched
  <2>4. WaitsForOne' /\ Contiguous'
    BY <1>2, <1>3, <2>1 DEF IInv, WaitsForOne, Running, Contiguous
  <2> QED BY <2>2, <2>3, <2>4 DEF IInv
<1>6. CASE ~windowless /\ DeliverAll(i, first, last)
  <2>1. UNCHANGED <<genVars, activityVars, modeVars, latchVars, sessions, cursor>>
        /\ Cross(i, first, last)
    BY <1>6 DEF DeliverAll
  <2>2. /\ gap' = FALSE /\ foreign' = FALSE
        /\ received' \in Positions /\ received <= received'
        /\ first <= last /\ sockets[i].scope = held => last <= received'
    BY <2>1, CrossKeeps
  <2>3. Typed'
    BY <1>1, <1>2, <2>1, <2>2 DEF Typed
  <2>4. WithinBudget'
    BY <1>1, <1>2, <1>6, PendingTyped DEF DeliverAll, WithinBudget
  <2>5. Flags' /\ EpochBound' /\ Present' /\ Latched'
    BY <2>1, <2>2 DEF IInv, Flags, EpochBound, Present, Latched
  <2>6. Acknowledged'
    BY <1>1, <2>1, <2>2, SMTT(30) DEF IInv, Typed, Acknowledged
  <2>7. WaitsForOne'
    BY <1>2, <1>3, <2>1 DEF IInv, WaitsForOne, Running
  <2>8. r.scope = held => r.replayed <= received'
    <3>1. received \in Nat /\ received' \in Nat /\ first \in Nat /\ last \in Nat
      BY <1>1, <2>2 DEF Typed
    <3>2. CASE first <= last
      BY <3>1, <3>2, <2>2
    <3>3. CASE last < first
      BY <3>1, <3>3, <1>4, <2>2
    <3> QED BY <3>1, <3>2, <3>3
  <2>9. Contiguous'
    BY <1>2, <1>3, <2>1, <2>8 DEF Contiguous
  <2> QED BY <2>2, <2>3, <2>4, <2>5, <2>6, <2>7, <2>9 DEF IInv
<1>7. ASSUME ~windowless, NEW at \in first..(last + control), DeliverSome(i, first, last, at)
      PROVE  IInv'
  <2> DEFINE upTo == IF at > last THEN last ELSE at
  <2>1. at - 1 \in Positions /\ upTo \in Positions /\ at - 1 <= last /\ first \in Nat
    OBVIOUS
  <2>2. Cross(i, first, at - 1) /\ Cardinality(Pending(i, first, at - 1)) <= MaxPending
    BY <1>7 DEF DeliverSome
  <2>3. /\ gap' = FALSE /\ foreign' = FALSE
        /\ received' \in Positions /\ received <= received'
    <3>1. first <= at - 1 => first = sockets[i].replayed + 1 /\ sockets[i].user = "own"
      BY <2>1
    <3> QED BY <2>1, <2>2, <3>1, CrossKeeps
  <2>4. ASSUME NEW k \in Positions, Cardinality(Pending(i, first, k)) <= MaxPending,
               pendingDelivery' = Pending(i, first, k)
        PROVE  WithinBudget'
    BY <1>1, <1>2, <2>1, <2>4, PendingTyped DEF WithinBudget
  <2>5. Acknowledged /\ cursor \in Positions /\ received \in Positions /\ durable \in Positions
    BY DEF IInv, Typed
  <2>6. ASSUME UNCHANGED cursor PROVE Acknowledged'
    BY <2>3, <2>5, <2>6 DEF Acknowledged
  <2>7. CASE RequireRecovery /\ pendingDelivery' = Pending(i, first, at - 1)
    <3>0. StopGeneration /\ UNCHANGED <<scope, windowless, sessions, cursor>>
          /\ recovery' = cursor /\ overflowAt' = cursor /\ ready' = Accepts
      BY <2>7 DEF RequireRecovery
    <3>1. /\ epoch' \in Nat /\ epoch' <= MaxEpoch + 2 /\ stopped' = TRUE /\ incompatible' = FALSE
          /\ ticket' = None /\ timer' = None /\ connection' = 0 /\ WaitsForOne' /\ Contiguous'
      BY <1>3, <3>0, StopsKeep
    <3>2. Typed'
      BY <1>1, <1>2, <2>3, <3>0, <3>1 DEF Typed
    <3>3. Flags'
      BY <1>1, <2>3, <3>0, <3>1 DEF Flags, Accepts
    <3>4. EpochBound' /\ Present' /\ Latched'
      BY <3>0, <3>1, <2>5 DEF IInv, EpochBound, Present, Latched
    <3>5. WithinBudget' /\ Acknowledged'
      BY <2>1, <2>2, <2>4, <2>6, <2>7, <3>0
    <3> QED BY <2>3, <3>1, <3>2, <3>3, <3>4, <3>5 DEF IInv
  <2>8. CASE /\ ~(Cardinality(Pending(i, first, upTo)) > MaxPending)
             /\ Pause /\ pendingDelivery' = Pending(i, first, upTo)
    <3>0. StopGeneration /\ UNCHANGED <<recovery, overflowAt, sessions, cursor>>
          /\ scope' = 0 /\ ready' = FALSE /\ windowless' = FALSE
      BY <2>8 DEF Pause
    <3>1. /\ epoch' \in Nat /\ epoch' <= MaxEpoch + 2 /\ stopped' = TRUE /\ incompatible' = FALSE
          /\ ticket' = None /\ timer' = None /\ connection' = 0 /\ WaitsForOne' /\ Contiguous'
      BY <1>3, <3>0, StopsKeep
    <3>2. Typed'
      BY <1>1, <1>2, <2>3, <3>0, <3>1 DEF Typed
    <3>3. Flags'
      BY <1>1, <2>3, <3>0, <3>1 DEF Flags
    <3>4. EpochBound' /\ Present' /\ Latched'
      BY <3>0, <3>1, <2>5 DEF IInv, EpochBound, Present, Latched
    <3>5. Cardinality(Pending(i, first, upTo)) \in Nat
      BY <1>1, <2>1, PendingTyped
    <3>6. WithinBudget' /\ Acknowledged'
      BY <2>1, <2>4, <2>6, <2>8, <3>0, <3>5
    <3> QED BY <2>3, <3>1, <3>2, <3>3, <3>4, <3>6 DEF IInv
  <2>9. CASE /\ ~(Cardinality(Pending(i, first, upTo)) > MaxPending)
             /\ connection' = 0 /\ timer' = epoch
             /\ pendingDelivery' = Pending(i, first, upTo)
             /\ UNCHANGED <<genVars, ticket, modeVars, latchVars, sessions, cursor>>
    <3>0. epoch \in Epochs /\ epoch # None /\ ticket = None
      BY <1>3 DEF IInv, Typed, EpochBound, Running, WaitsForOne
    <3>1. Typed'
      BY <1>1, <1>2, <2>3, <2>9, <3>0 DEF Typed
    <3>2. Flags' /\ EpochBound' /\ Present' /\ Latched'
      BY <2>9, <2>3 DEF IInv, Flags, EpochBound, Present, Latched
    <3>3. WaitsForOne' /\ Contiguous'
      BY <1>3, <2>9, <3>0 DEF WaitsForOne, Contiguous, Running
    <3>5. Cardinality(Pending(i, first, upTo)) \in Nat
      BY <1>1, <2>1, PendingTyped
    <3>6. WithinBudget' /\ Acknowledged'
      BY <2>1, <2>4, <2>6, <2>9, <3>5
    <3> QED BY <2>3, <3>1, <3>2, <3>3, <3>6 DEF IInv
  <2> QED BY <1>7, <2>7, <2>8, <2>9, Zenon DEF DeliverSome
<1> QED BY <1>5, <1>6, <1>7 DEF Deliver

(* A frame that delivers nothing and leaves the transport as it is. *)
LEMMA DroppedKeeps ==
  ASSUME IInv, NEW i \in DOMAIN sockets, NEW r \in SocketRecords,
         sockets' = [sockets EXCEPT ![i] = r],
         r.epoch = sockets[i].epoch, r.scope = sockets[i].scope,
         connection = i =>
           /\ r.replayed = sockets[i].replayed /\ r.replayed <= r.next
           /\ r.greeted => r.replayed = r.next /\ r.user = "own",
         Dropped, UNCHANGED <<requests, acks, rendererVars>>
  PROVE  IInv'
<1> USE DEF Dropped, Nothing, genVars, activityVars, modeVars, latchVars, rendererVars, deliveryVars
<1>1. Typed /\ WithinBudget
  BY DEF IInv
<1>2. /\ sockets' \in Seq(SocketRecords) /\ Len(sockets') = Len(sockets)
      /\ DOMAIN sockets' = DOMAIN sockets /\ sockets'[i] = r
      /\ \A j \in DOMAIN sockets : j # i => sockets'[j] = sockets[j]
  BY <1>1, SocketsKeep
<1>3. connection # 0 => connection \in DOMAIN sockets
  BY <1>1, SMTT(30) DEF Typed
<1>4. Typed' /\ WithinBudget'
  BY <1>1, <1>2 DEF Typed, WithinBudget
<1>5. Flags' /\ EpochBound' /\ Acknowledged' /\ Present' /\ Latched' /\ ~gap' /\ ~foreign'
  BY DEF IInv, Flags, EpochBound, Acknowledged, Present, Latched
<1>6. CASE connection = i
  <2>1. WaitsForOne' /\ Contiguous'
    BY <1>2, <1>3, <1>6 DEF IInv, WaitsForOne, Running, Contiguous
  <2> QED BY <1>4, <1>5, <2>1 DEF IInv
<1>7. CASE connection # i
  <2>1. WaitsForOne' /\ Contiguous'
    BY <1>2, <1>3, <1>7 DEF IInv, WaitsForOne, Running, Contiguous
  <2> QED BY <1>4, <1>5, <2>1 DEF IInv
<1> QED BY <1>6, <1>7

(* A frame that stops its generation and retains a recovery. *)
LEMMA RecoveryKeeps ==
  ASSUME IInv, NEW i \in DOMAIN sockets, IsActive(i), NEW r \in SocketRecords,
         sockets' = [sockets EXCEPT ![i] = r],
         RequireRecovery \/ RetainWindowless, Nothing, UNCHANGED pendingDelivery,
         UNCHANGED <<requests, acks, rendererVars>>
  PROVE  IInv'
<1> USE DEF Nothing, rendererVars, deliveryVars
<1>1. Typed /\ WithinBudget /\ Flags
  BY DEF IInv
<1>2. /\ sockets' \in Seq(SocketRecords) /\ Len(sockets') = Len(sockets)
      /\ DOMAIN sockets' = DOMAIN sockets
  BY <1>1, SocketsKeep
<1>3. Running
  BY DEF IsActive, IsCurrentEpoch, Running
<1>4. /\ StopGeneration /\ UNCHANGED <<windowless, sessions, cursor>>
      /\ scope' \in {0, scope} /\ recovery' = cursor /\ overflowAt' = cursor
      /\ ready' \in BOOLEAN
  BY <1>1 DEF RequireRecovery, RetainWindowless, Accepts, Flags
<1>5. /\ epoch' \in Nat /\ epoch' <= MaxEpoch + 2 /\ stopped' = TRUE /\ incompatible' = FALSE
      /\ ticket' = None /\ timer' = None /\ connection' = 0 /\ WaitsForOne' /\ Contiguous'
  BY <1>3, <1>4, StopsKeep
<1>9. scope' \in 0..sessions
  BY <1>1, <1>4, SMTT(30) DEF Typed
<1>6. Typed'
  BY <1>1, <1>2, <1>4, <1>5, <1>9 DEF Typed
<1>10. WithinBudget'
  BY <1>1, <1>2 DEF WithinBudget
<1>7. Flags'
  BY <1>1, <1>4, <1>5 DEF Flags
<1>8. EpochBound' /\ Acknowledged' /\ Present' /\ Latched' /\ ~gap' /\ ~foreign'
  BY <1>1, <1>4, <1>5 DEF IInv, Typed, EpochBound, Acknowledged, Present, Latched
<1> QED BY <1>5, <1>6, <1>7, <1>8, <1>10 DEF IInv

LEMMA EventFrameKeeps ==
  ASSUME IInv, NEW i \in DOMAIN sockets, EventFrame(i), UNCHANGED <<requests, acks, rendererVars>>
  PROVE  IInv'
<1> DEFINE p == sockets[i].next + 1
           heldOn == [sockets[i] EXCEPT !.next = p]
           passed == [sockets[i] EXCEPT !.next = p, !.replayed = p]
<1>1. Typed /\ sockets[i] \in SocketRecords /\ p \in Positions /\ p \in Nat \ {0}
  BY SocketTyped DEF IInv, EventFrame
<1>2. sockets \in Seq(SocketRecords)
  BY <1>1 DEF Typed
<1>3. /\ heldOn \in SocketRecords /\ heldOn.epoch = sockets[i].epoch
      /\ heldOn.scope = sockets[i].scope /\ heldOn.replayed = sockets[i].replayed
      /\ heldOn.next = p /\ heldOn.greeted = sockets[i].greeted
      /\ passed \in SocketRecords /\ passed.epoch = sockets[i].epoch
      /\ passed.scope = sockets[i].scope /\ passed.replayed = p /\ passed.next = p
      /\ passed.user = sockets[i].user /\ passed.greeted = sockets[i].greeted
  BY <1>1 DEF SocketRecords
<1>4. /\ IsActive(i) <=> connection = i
      /\ IsActive(i) => /\ sockets[i].replayed <= sockets[i].next
                        /\ sockets[i].greeted =>
                             sockets[i].replayed = sockets[i].next /\ sockets[i].user = "own"
  BY <1>1, SocketTyped, ActiveConnection DEF IInv, Contiguous
<1>5. CASE IsActive(i) /\ ~sockets[i].greeted
  <2>1. Hold(i, p)
    BY <1>5 DEF EventFrame
  <2>2. sockets' = [sockets EXCEPT ![i] = heldOn]
    BY <2>1, <1>2 DEF Hold
  <2>3. sockets[i].replayed <= p
    BY <1>1, <1>4, <1>5, SocketTyped
  <2>4. CASE RequireRecovery /\ Nothing /\ UNCHANGED pendingDelivery
    BY <1>3, <1>5, <2>2, <2>4, RecoveryKeeps
  <2>5. CASE Dropped
    BY <1>3, <1>5, <2>2, <2>3, <2>5, DroppedKeeps
  <2> QED BY <2>1, <2>4, <2>5 DEF Hold
<1>6. CASE ~(IsActive(i) /\ ~sockets[i].greeted)
  <2>1. /\ sockets' = [sockets EXCEPT ![i].next = p, ![i].replayed = p]
        /\ IF IsActive(i) THEN Deliver(i, p, p, 0) ELSE Dropped
    BY <1>6 DEF EventFrame
  <2>2. sockets' = [sockets EXCEPT ![i] = passed]
    BY <2>1, <1>2
  <2>3. CASE IsActive(i)
    <3>1. p = sockets[i].replayed + 1 /\ sockets[i].user = "own" /\ p <= p /\ ~(p < p)
      BY <1>1, <1>4, <1>6, <2>3
    <3>2. Deliver(i, p, p, 0)
      BY <2>1, <2>3
    <3> HIDE DEF p, passed
    <3> QED BY <1>1, <1>3, <2>2, <2>3, <3>1, <3>2, DeliverKeeps
  <2>4. CASE ~IsActive(i)
    BY <1>3, <1>4, <2>1, <2>2, <2>4, DroppedKeeps
  <2> QED BY <2>3, <2>4
<1> QED BY <1>5, <1>6

LEMMA ConnectedFrameKeeps ==
  ASSUME IInv, NEW i \in DOMAIN sockets, ConnectedFrame(i),
         UNCHANGED <<requests, acks, rendererVars>>
  PROVE  IInv'
<1> DEFINE r == [sockets[i] EXCEPT !.greeted = TRUE, !.replayed = sockets[i].next]
<1>1. Typed /\ sockets[i] \in SocketRecords /\ sockets \in Seq(SocketRecords)
      /\ sockets[i].next \in Positions /\ sockets[i].replayed \in Positions /\ i \in Nat \ {0}
  BY SocketTyped DEF IInv, Typed
<1>2. /\ r \in SocketRecords /\ r.epoch = sockets[i].epoch /\ r.scope = sockets[i].scope
      /\ r.replayed = sockets[i].next /\ r.next = sockets[i].next /\ r.user = sockets[i].user
  BY <1>1 DEF SocketRecords
<1>3. sockets' = [sockets EXCEPT ![i] = r]
  BY <1>1 DEF ConnectedFrame
<1>4. /\ IsActive(i) <=> connection = i
      /\ connection = i => sockets[i].replayed <= sockets[i].next
  BY <1>1, ActiveConnection DEF IInv, Contiguous
<1>5. CASE ~IsActive(i)
  <2>1. Dropped
    BY <1>5 DEF ConnectedFrame
  <2> HIDE DEF r
  <2> QED BY <1>2, <1>3, <1>4, <1>5, <2>1, DroppedKeeps
<1>6. CASE IsActive(i) /\ sockets[i].user # "own"
  <2>1. FailIncompatible
    BY <1>6 DEF ConnectedFrame
  <2> USE <2>1 DEF FailIncompatible, Nothing, modeVars, latchVars, deliveryVars, rendererVars
  <2>2. sockets' \in Seq(SocketRecords) /\ Len(sockets') = Len(sockets)
        /\ DOMAIN sockets' = DOMAIN sockets
    BY <1>1, <1>2, <1>3, SocketsKeep
  <2>3. ticket = None /\ timer = None
    BY <1>1, <1>4, <1>6 DEF IInv, IsActive, IsCurrentEpoch, WaitsForOne, Running
  <2>4. Typed' /\ WithinBudget'
    BY <1>1, <2>2 DEF IInv, Typed, WithinBudget
  <2>5. Flags' /\ EpochBound' /\ Acknowledged' /\ Present' /\ Latched' /\ ~gap' /\ ~foreign'
    BY DEF IInv, Flags, EpochBound, Acknowledged, Present, Latched
  <2>6. WaitsForOne' /\ Contiguous'
    BY <2>3 DEF WaitsForOne, Running, Contiguous
  <2> QED BY <2>4, <2>5, <2>6 DEF IInv
<1>7. CASE IsActive(i) /\ sockets[i].user = "own"
  <2> DEFINE first == sockets[i].replayed + 1
             last == sockets[i].next
  <2>1. Deliver(i, first, last, 1)
    BY <1>7 DEF ConnectedFrame
  <2>2. first \in Nat \ {0} /\ last \in Positions /\ (last < first => last = sockets[i].replayed)
    BY <1>1, <1>4, <1>7
  <2>3. r.replayed <= r.next /\ r.replayed = r.next /\ r.user = "own" /\ r.replayed = last
        /\ first = sockets[i].replayed + 1
    BY <1>1, <1>2, <1>7
  <2> HIDE DEF r, first, last
  <2> QED BY <1>2, <1>3, <1>7, <2>1, <2>2, <2>3, DeliverKeeps
<1> QED BY <1>5, <1>6, <1>7

LEMMA ResyncFrameKeeps ==
  ASSUME IInv, NEW i \in DOMAIN sockets, ResyncFrame(i), UNCHANGED <<requests, acks, rendererVars>>
  PROVE  IInv'
<1> DEFINE r == sockets[i]
<1>1. Typed /\ r \in SocketRecords /\ sockets \in Seq(SocketRecords) /\ IsActive(i)
      /\ i # 0 /\ connection = i
  BY SocketTyped DEF IInv, Typed, ResyncFrame, IsActive
<1>2. sockets' = [sockets EXCEPT ![i] = r]
  BY <1>1 DEF ResyncFrame
<1>3. r.replayed <= r.next /\ (r.greeted => r.replayed = r.next /\ r.user = "own")
  BY <1>1 DEF IInv, Contiguous
<1>4. CASE windowless
  <2>1. RetainWindowless /\ Nothing /\ UNCHANGED pendingDelivery
    BY <1>4 DEF ResyncFrame, RetainWindowless
  <2> QED BY <1>1, <1>2, <2>1, RecoveryKeeps
<1>5. CASE ~windowless
  <2>1. Deliver(i, 1, 0, 1)
    BY <1>5 DEF ResyncFrame
  <2>2. 1 \in Nat \ {0} /\ 0 \in Positions /\ ~(1 <= 0) /\ 0 < 1
    OBVIOUS
  <2> QED BY <1>1, <1>2, <1>3, <2>1, <2>2, DeliverKeeps
<1> QED BY <1>4, <1>5

LEMMA BrokenKeeps ==
  ASSUME IInv, NEW i \in DOMAIN sockets, Broken(i), UNCHANGED <<requests, acks, rendererVars>>
  PROVE  IInv'
<1> USE DEF Nothing, deliveryVars, rendererVars
<1> DEFINE r == [sockets[i] EXCEPT !.gone = TRUE]
<1>1. Typed /\ sockets[i] \in SocketRecords /\ sockets \in Seq(SocketRecords)
      /\ WithinBudget /\ Flags
  BY SocketTyped DEF IInv, Typed
<1>2. /\ r \in SocketRecords /\ r.epoch = sockets[i].epoch /\ r.scope = sockets[i].scope
      /\ r.replayed = sockets[i].replayed /\ r.next = sockets[i].next
      /\ r.user = sockets[i].user /\ r.greeted = sockets[i].greeted
  BY <1>1 DEF SocketRecords
<1>3. sockets' = [sockets EXCEPT ![i] = r] /\ Nothing
  BY <1>1 DEF Broken
<1> HIDE DEF r
<1>4. sockets' \in Seq(SocketRecords) /\ Len(sockets') = Len(sockets)
      /\ DOMAIN sockets' = DOMAIN sockets
  BY <1>1, <1>2, <1>3, SocketsKeep
<1>5. CASE ~IsActive(i)
  <2>1. Dropped
    BY <1>5 DEF Broken, Dropped
  <2>2. connection # i
    BY <1>5, ActiveConnection
  <2> QED BY <1>2, <1>3, <2>1, <2>2, DroppedKeeps
<1>6. ASSUME IsActive(i) PROVE Running /\ ticket = None /\ timer = None /\ epoch \in Nat
                               /\ sockets[i].epoch = epoch /\ connection # 0
  <2>1. connection = i /\ i # 0
    BY <1>1, <1>6, SocketTyped DEF IsActive
  <2> QED BY <1>6, <2>1 DEF IInv, Typed, IsActive, IsCurrentEpoch, WaitsForOne, Running
<1>7. CASE IsActive(i) /\ Schedule(sockets[i].epoch) /\ UNCHANGED ticket
  <2> USE <1>7 DEF Schedule, genVars, modeVars, latchVars
  <2>1. timer' = epoch /\ connection' = 0
    BY <1>6 DEF IsActive
  <2>2. epoch \in Epochs /\ epoch # None
    BY <1>6 DEF IInv, EpochBound, Running
  <2>6. WithinBudget'
    BY <1>1, <1>4 DEF WithinBudget
  <2>8. UNCHANGED <<sessions, scope, held, cursor, received, durable, recovery, overflowAt,
                    epoch, requests, ticket, acks>>
    BY <1>3, <1>7
  <2>9. /\ sockets' \in Seq(SocketRecords) /\ timer' \in Epochs \cup {None}
        /\ connection' \in 0..Len(sockets')
    BY <1>1, <1>4, <2>1, <2>2
  <2>3. Typed'
    <3>1. Typed
      BY DEF IInv
    <3> HIDE <1>7
    <3> QED BY <2>8, <2>9, <3>1 DEF Typed
  <2>4. Flags' /\ EpochBound' /\ Acknowledged' /\ Present' /\ Latched' /\ ~gap' /\ ~foreign'
    BY <1>3 DEF IInv, Flags, EpochBound, Acknowledged, Present, Latched
  <2>5. WaitsForOne' /\ Contiguous'
    BY <1>6, <2>1, <2>2 DEF WaitsForOne, Running, Contiguous
  <2> QED BY <2>3, <2>4, <2>5, <2>6 DEF IInv
<1>8. CASE IsActive(i) /\ Reset
  <2>1. /\ epoch' = epoch + 1 /\ stopped' = TRUE /\ incompatible' = FALSE
        /\ scope' = 0 /\ ready' = FALSE /\ windowless' = FALSE /\ pendingDelivery' = {}
        /\ recovery' = None /\ ticket' = None /\ timer' = None /\ connection' = 0
        /\ overflowAt' = None /\ UNCHANGED <<sessions, cursor>>
    BY <1>8 DEF Reset, Retire
  <2>2. epoch' \in Nat /\ epoch' <= MaxEpoch + 2
    BY <1>6, <1>8, <2>1 DEF IInv, EpochBound, Running
  <2>3. Typed'
    BY <1>1, <1>3, <1>4, <2>1, <2>2 DEF Typed
  <2>4. WithinBudget'
    BY <1>1, <2>1, FS_EmptySet DEF WithinBudget
  <2>5. Flags'
    BY <1>1, <1>3, <2>1 DEF Flags
  <2>6. EpochBound' /\ Acknowledged' /\ Present' /\ Latched' /\ ~gap' /\ ~foreign'
    BY <1>3, <2>1, <2>2 DEF IInv, EpochBound, Acknowledged, Present, Latched
  <2>7. WaitsForOne' /\ Contiguous'
    BY <2>1 DEF WaitsForOne, Running, Contiguous
  <2> QED BY <2>3, <2>4, <2>5, <2>6, <2>7 DEF IInv
<1> QED BY <1>5, <1>7, <1>8 DEF Broken

-----------------------------------------------------------------------------
LEMMA NextKeeps == IInv /\ [Next]_vars => IInv'
<1> SUFFICES ASSUME IInv, [Next]_vars PROVE IInv'
  OBVIOUS
<1>1. CASE Prepare \/ Activate \/ Stop \/ ResetSession \/ ConsumerUnavailable \/ ObserveOnly
           \/ Persist \/ CatchUp \/ RendererGone \/ RendererLoads \/ TimerFires
  BY <1>1, PrepareKeeps, ActivateKeeps, StopKeeps, ResetSessionKeeps, ConsumerUnavailableKeeps,
     ObserveOnlyKeeps, PersistKeeps, CatchUpKeeps, RendererGoneKeeps, RendererLoadsKeeps,
     TimerFiresKeeps, Zenon
<1>2. ASSUME NEW a \in acks, Acknowledge(a) PROVE IInv'
  BY <1>2, AcknowledgeKeeps
<1>3. ASSUME NEW e \in requests, LateTicket(e) \/ TicketFails(e) PROVE IInv'
  BY <1>3, LateTicketKeeps, TicketFailsKeeps, Zenon
<1>4. ASSUME NEW e \in requests, NEW user \in {"own", "other"}, OpenSocket(e, user) PROVE IInv'
  BY <1>4, OpenSocketKeeps
<1>5. ASSUME NEW i \in DOMAIN sockets, Frame(i) PROVE IInv'
  <2>1. UNCHANGED <<requests, acks, rendererVars>>
    BY <1>5 DEF Frame
  <2> QED BY <1>5, <2>1, EventFrameKeeps, ConnectedFrameKeeps, ResyncFrameKeeps, BrokenKeeps,
             Zenon DEF Frame
<1>6. CASE UNCHANGED vars
  <2> USE <1>6 DEF vars, genVars, activityVars, modeVars, latchVars, rendererVars, deliveryVars
  <2>1. Typed' /\ Flags' /\ EpochBound' /\ WithinBudget'
    BY DEF IInv, Typed, Flags, EpochBound, WithinBudget
  <2>2. WaitsForOne' /\ Acknowledged' /\ Present' /\ Contiguous' /\ Latched' /\ ~gap' /\ ~foreign'
    BY DEF IInv, WaitsForOne, Running, Acknowledged, Present, Contiguous, Latched
  <2> QED BY <2>1, <2>2 DEF IInv
<1> QED BY <1>1, <1>2, <1>3, <1>4, <1>5, <1>6, Zenon DEF Next

LEMMA Inductive == Spec => []IInv
  BY InitIInv, NextKeeps, PTL DEF Spec

(* What a running transport waits for, told as SingleFlight tells it. *)
LEMMA WaitsAlone == IInv => SingleFlight
<1> SUFFICES ASSUME IInv PROVE SingleFlight
  OBVIOUS
<1>1. CASE stopped \/ incompatible
  BY <1>1 DEF IInv, WaitsForOne, Running, SingleFlight, Activities
<1>2. CASE ~stopped /\ ~incompatible
  <2>1. /\ \/ ticket # None /\ timer = None /\ connection = 0
           \/ ticket = None /\ timer # None /\ connection = 0
           \/ ticket = None /\ timer = None /\ connection # 0
        /\ ticket # None => ticket = epoch /\ ticket \in requests
        /\ timer # None => timer = epoch
    BY <1>2 DEF IInv, WaitsForOne, Running
  <2>2. \E x \in Activities : Activities = {x}
    <3>1. CASE ticket # None /\ timer = None /\ connection = 0
      BY <3>1, Activities = {"ticket"} DEF Activities
    <3>2. CASE ticket = None /\ timer # None /\ connection = 0
      BY <3>2, Activities = {"timer"} DEF Activities
    <3>3. CASE ticket = None /\ timer = None /\ connection # 0
      BY <3>3, Activities = {"connection"} DEF Activities
    <3> QED BY <2>1, <3>1, <3>2, <3>3
  <2>3. connection # 0 => IsActive(connection)
    BY <1>2 DEF IInv, Typed, WaitsForOne, Running, IsActive, IsCurrentEpoch
  <2> QED BY <1>2, <2>1, <2>2, <2>3 DEF SingleFlight
<1> QED BY <1>1, <1>2

(* The transport is never wedged, never holds two sockets or lives on after *)
(* a stop, never shows a renderer the events of another user, and stands    *)
(* still while it retains a recovery; and its budget is never exceeded.     *)
THEOREM TransportHoldsAlways == Spec => []TransportHolds
<1>1. IInv => TransportHolds
  <2> SUFFICES ASSUME IInv PROVE TransportHolds
    OBVIOUS
  <2>1. TypeOK /\ SingleFlight
    BY Types, WaitsAlone
  <2>2. OwnAudienceOnly /\ RecoveryStops
    BY DEF IInv, Latched, OwnAudienceOnly, RecoveryStops
  <2> QED BY <2>1, <2>2 DEF TransportHolds
<1> QED BY <1>1, Inductive, PTL

(* No socket is ever opened past what the renderer has persisted. *)
THEOREM ResumesDurablyHolds == Spec => []ResumesDurably
<1>1. IInv => ResumesDurably
  BY DEF IInv, Acknowledged, ResumesDurably
<1> QED BY <1>1, Inductive, PTL

(* The renderer never applies an event whose predecessor it lacks. *)
THEOREM NoGapHolds == Spec => []NoGap
<1>1. IInv => NoGap
  BY DEF IInv, NoGap
<1> QED BY <1>1, Inductive, PTL

(* A socket never starts at a cursor that overflowed already. *)
THEOREM ReopensPastOverflowHolds == Spec => ReopensPastOverflow
<1> DEFINE Reopens ==
      Len(sockets') > Len(sockets) /\ overflowAt # None => sockets'[Len(sockets')].next > overflowAt
<1>1. IInv /\ [Next]_vars => [Reopens]_vars
  <2> SUFFICES ASSUME IInv, Next, Len(sockets') > Len(sockets), overflowAt # None
               PROVE  sockets'[Len(sockets')].next > overflowAt
    BY DEF vars
  <2>1. ASSUME NEW e \in requests, NEW user \in {"own", "other"}, OpenSocket(e, user)
        PROVE  sockets'[Len(sockets')].next > overflowAt
    <3>1. sockets' = Append(sockets, Socket(user)) /\ ~stopped
      BY <2>1 DEF OpenSocket, OwnsTicket, IsCurrentEpoch
    <3>2. sockets'[Len(sockets')] = Socket(user) /\ Socket(user).next = cursor
      BY <3>1 DEF IInv, Typed, Socket
    <3> QED BY <3>1, <3>2 DEF IInv, Typed, Latched
  <2>2. ASSUME NEW i \in DOMAIN sockets, Frame(i) PROVE Len(sockets') = Len(sockets)
    <3>1. sockets \in Seq(SocketRecords)
      BY DEF IInv, Typed
    <3> QED BY <2>2, <3>1 DEF Frame, EventFrame, Hold, ConnectedFrame, ResyncFrame, Broken
  <2>3. (UNCHANGED sockets) => FALSE
    BY DEF IInv, Typed
  <2>4. CASE Prepare \/ Activate \/ Stop \/ ResetSession \/ ConsumerUnavailable \/ ObserveOnly
             \/ Persist \/ CatchUp \/ RendererGone \/ RendererLoads \/ TimerFires
    BY <2>3, <2>4 DEF Prepare, Activate, Stop, ResetSession, ConsumerUnavailable, ObserveOnly,
       Persist, CatchUp, RendererGone, RendererLoads, TimerFires, TransportUnchanged
  <2>5. ASSUME NEW a \in acks, Acknowledge(a) PROVE FALSE
    BY <2>3, <2>5 DEF Acknowledge
  <2>6. ASSUME NEW e \in requests, LateTicket(e) \/ TicketFails(e) PROVE FALSE
    BY <2>3, <2>6 DEF LateTicket, TicketFails
  <2> QED BY <2>1, <2>2, <2>4, <2>5, <2>6 DEF Next, IInv, Typed
<1> QED BY <1>1, Inductive, PTL DEF Spec, ReopensPastOverflow

=============================================================================
