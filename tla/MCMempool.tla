----------------------------- MODULE MCMempool -----------------------------
(* An instance of Mempool for TLC: four transactions g <- p <- c <- d, each *)
(* spending an output of the one before it and one of its own, and an       *)
(* anonymous transaction e that spends an output of p's with the same key   *)
(* image.  Only the output of g adds to the fee of the one that spends it.  *)
EXTENDS Mempool

CONSTANTS g, p, c, d, e, i1

ChainSource ==
    [o \in Outpoints |->
        CASE o = "g0" -> g [] o = "p0" -> p [] o = "c0" -> c [] OTHER -> None]
ChainInputs ==
    [t \in TxIds |->
        CASE t = g -> <<"a">>
          [] t = p -> <<"g0", "b">>
          [] t = c -> <<"p0", "k">>
          [] t = d -> <<"c0", "l">>
          [] OTHER -> <<"b">>]
ChainKeyImages == [t \in TxIds |-> IF t \in {p, e} THEN {i1} ELSE {}]
Values == [o \in Outpoints |-> IF o \in {"p0", "c0"} THEN 0 ELSE 1]
OneEach == [t \in TxIds |-> 1]
=============================================================================
