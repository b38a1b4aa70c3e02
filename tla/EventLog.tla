------------------------------ MODULE EventLog ------------------------------
(***************************************************************************)
(* What the durable event log of one workspace promises its readers.       *)
(*                                                                         *)
(* The log is the interval of sequence numbers trimmed+1 .. head.  It only *)
(* grows at the head, in one piece, and is only forgotten from its oldest  *)
(* end, so a reader that stands at a position c with trimmed <= c <= head  *)
(* can read every event after c.  A cutover opens a new replay epoch whose *)
(* floor is the head at that instant: nothing older is read in the new     *)
(* epoch.  WorkspaceLog shows how row locks and retention implement this;  *)
(* a reader of the log is specified against this module alone.                    *)
(***************************************************************************)
EXTENDS Naturals

CONSTANT NoEpoch           \* the protocol epoch of a workspace not cut over yet

VARIABLES
  head,                    \* the last committed sequence
  trimmed,                 \* the last sequence forgotten by retention
  epoch,                   \* the current replay epoch
  floor                    \* the first position a reader may hold in it

logVars == <<head, trimmed, epoch, floor>>

LogInit == head \in Nat /\ trimmed \in 0..head /\ floor = 0

(* A transaction commits one or more events above everything committed. *)
Extend ==
  /\ epoch # NoEpoch
  /\ head' \in Nat /\ head' > head
  /\ UNCHANGED <<trimmed, epoch, floor>>

(* Retention forgets a prefix. *)
Trim ==
  /\ trimmed' \in Nat /\ trimmed < trimmed' /\ trimmed' <= head
  /\ UNCHANGED <<head, epoch, floor>>

(* A cutover starts an epoch at the head. *)
Cutover ==
  /\ epoch' # epoch /\ epoch' # NoEpoch
  /\ floor' = head
  /\ UNCHANGED <<head, trimmed>>

LogNext == Extend \/ Trim \/ Cutover

LogSpec == LogInit /\ [][LogNext]_logVars

(* The positions a reader of the current epoch may resume from. *)
Resumable(c) == c <= head /\ c >= floor /\ c >= trimmed
=============================================================================
