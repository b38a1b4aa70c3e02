-------------------------- MODULE MCRealtimeClient --------------------------
(* One account, a few events and reconnects, and budgets of one and two.   *)
EXTENDS RealtimeClient
=============================================================================
