-------------------------- MODULE MCRealtimeSocket --------------------------
(* Pages of one event, a log of a few events one of which is hidden.       *)
EXTENDS RealtimeSocket, TLC

CONSTANTS e1, e2

MCEpochs == {e1, e2}
MCOneEpoch == {e1}
MCSymmetry == Permutations(MCEpochs)
MCHidden == {2}
=============================================================================
