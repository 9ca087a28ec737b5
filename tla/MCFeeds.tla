------------------------------ MODULE MCFeeds ------------------------------
(***************************************************************************)
(* The stats, one slow optional feed and the live status.                  *)
(***************************************************************************)
EXTENDS Badges, TLC

CONSTANTS stats, limits, live, home, guest

MCTable == <<stats, limits, live>>
MCUsb == stats :> 2 @@ limits :> 2 @@ live :> 1
MCBattery == stats :> 2 @@ limits :> 2 @@ live :> Off
MCSources == << <<>>, <<home, guest>> >>

=============================================================================
