------------------------------ MODULE MCWallet ------------------------------
(* An instance of CreateTx for TLC: outputs below the dust limit, of the size *)
(* of a fee, and above the margin; two rates whose fees wrap.                 *)
EXTENDS CreateTx, TLC

CONSTANTS o1, o2, o3, o4

MCOutputs == {o1, o2, o3, o4}
MCValue == (o1 :> 600) @@ (o2 :> 4000) @@ (o3 :> 103000) @@ (o4 :> 8)
=============================================================================
