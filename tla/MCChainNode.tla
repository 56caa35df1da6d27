---------------------------- MODULE MCChainNode ----------------------------
(***************************************************************************)
(* A small block tree: `a' and `b' compete for height 1, `c' extends `a',  *)
(* `x' extends the genesis block but is invalid.  `b' repeats the coinbase *)
(* of the genesis block and its timestamp is not after the genesis         *)
(* block's, as in test_chain_fork.                                         *)
(***************************************************************************)
EXTENDS ChainNode, TLC

CONSTANTS g, a, b, c, x, tg, ta, tc

MCBlocks == {g, a, b, c, x}
MCParent == (g :> None) @@ (a :> g) @@ (b :> g) @@ (c :> a) @@ (x :> g)
MCTxIds  == {tg, ta, tc}
MCTxs    == (g :> {tg}) @@ (a :> {ta}) @@ (b :> {tg}) @@ (c :> {tc}) @@ (x :> {ta})
MCStamp  == (g :> 1) @@ (a :> 2) @@ (b :> 1) @@ (c :> 3) @@ (x :> 2)
MCValid  == {a, b, c}

=============================================================================
