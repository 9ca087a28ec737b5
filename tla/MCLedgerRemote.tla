--------------------------- MODULE MCLedgerRemote ---------------------------
(***************************************************************************)
(* A main server that ingests one remote: the remote's session 4 may be    *)
(* resumed as session 3.  Both servers run the extractor.                  *)
(***************************************************************************)
EXTENDS Ledger, TLC

CONSTANTS main, peer, fa, fb, ra, xm, xp

MCSessions == {3, 4}
MCHostOf == [s \in MCSessions |-> peer]
MCHomeOf == [s \in MCSessions |-> "home"]
MCSessionOf == fa :> 4 @@ fb :> 3
MCOrigin == ra :> fa
MCRunHost == xm :> main @@ xp :> peer

=============================================================================
