---------------------------- MODULE MCConsensus ----------------------------
(* Instance of Consensus for TLC: the bits of the genesis block. *)
EXTENDS Consensus

\* From far too fast to far too slow, and a period that ends before it began.
MCEnds == {-3, 1, 2, 3, 5, 7, 8, 9, 12, 20, 31, 40}
=============================================================================
