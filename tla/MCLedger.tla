------------------------------ MODULE MCLedger ------------------------------
(***************************************************************************)
(* The main server alone: session 2 has a transcript fa and a subagent     *)
(* file fb, session 1 may resume it as fc.  The resumed session has the    *)
(* smaller key, so that the choice of an owner matters.                    *)
(***************************************************************************)
EXTENDS Ledger, TLC

CONSTANTS main, fa, fb, fc, ra, rb, xm

MCSessions == {1, 2}
MCHostOf == [s \in MCSessions |-> main]
MCHomeOf == [s \in MCSessions |-> "home"]
MCSessionOf == fa :> 2 @@ fb :> 2 @@ fc :> 1
MCOrigin == ra :> fa @@ rb :> fb
MCRunHost == xm :> main

=============================================================================
