---------------------------- MODULE MCLiveStatus ----------------------------
(***************************************************************************)
(* A main server that merges the status of one remote user.                *)
(***************************************************************************)
EXTENDS LiveStatus, TLC

CONSTANTS main, peer, ann

MCHostOf == ann :> peer

=============================================================================
