------------------------------ MODULE MCBlocks ------------------------------
(***************************************************************************)
(* What a block goes through, for TLC: select_txs fills it                 *)
(* (MempoolSelect), the miner finds its nonce (Miner), its bits and its    *)
(* merkle root are computed (Consensus), the chain connects it (Ledger).   *)
(* The four share no variable, so that a behaviour of the run goes through *)
(* one of them, the stage, while the others stay as they begin.            *)
(***************************************************************************)
EXTENDS Ledger, Miner, MempoolSelect, Consensus

VARIABLE stage

blocks_vars == <<stage, select_vars, miner_vars, consensus_vars, vars>>

-----------------------------------------------------------------------------
(* select: every pool of up to four transactions that Mempool can hold, with *)
(* two rates, and a package whose walk is cut.                               *)

Ids == 1 .. 4

\* Transitive, without cycles, and without a shared ancestor of ancestors.
Packages(txs) ==
    {d \in [txs -> SUBSET txs] :
        \A t \in txs : /\ t \notin d[t]
                       /\ \A p \in d[t] : d[p] \subseteq d[t]
                       /\ \A p, q \in d[t] : p # q => d[p] \cap d[q] = {}}

\* Two parents with a parent each: up to six pops.
Wide == <<{2}, {}, {4}, {}, {1, 2, 3, 4}>>

MCPools ==
    {[txs |-> 1 .. 5, depends_on |-> Wide, rate |-> r] : r \in [1 .. 5 -> {1, 2}]}
      \cup UNION {{[txs |-> T, depends_on |-> d, rate |-> r] :
               d \in Packages(T), r \in [T -> {1, 2}]} : T \in {1 .. n : n \in Ids}}

MCSize == <<2, 1, 1, 2, 1>>

OnePool == [txs |-> {1}, depends_on |-> <<{}>>, rate |-> <<1>>]

-----------------------------------------------------------------------------
(* bits: from far too fast to far too slow, and a period that ends before it *)
(* began.                                                                    *)

MCEnds == {-3, 1, 2, 3, 5, 7, 8, 9, 12, 20, 31, 40}

-----------------------------------------------------------------------------
(* connect: coinbases worth the subsidy, and one worth a fee besides;        *)
(* transactions that spend one, spend the change of that, spend nothing, or  *)
(* spend anonymously; blocks of every shape made of them.                    *)

CONSTANTS g, c1, c2, c3, pay, change, free, hidden, k1

MCCoinbases == {g, c1, c2, c3}
MCTxs == MCCoinbases \cup {pay, change, free, hidden}
MCInputs == (pay :> <<<<c1, 0>>>>) @@ (change :> <<<<pay, 1>>>>)
            @@ (hidden :> <<<<c2, 0>>>>) @@ [t \in MCTxs |-> << >>]
MCOutputs == (c3 :> <<6>>) @@ (pay :> <<1, 3>>) @@ (change :> <<2>>)
             @@ (free :> << >>) @@ (hidden :> <<1, 4>>) @@ [t \in MCTxs |-> <<5>>]
MCScripts == (pay :> <<"a", "b">>) @@ (change :> <<"b">>) @@ (free :> << >>)
             @@ (hidden :> <<"a", "b">>) @@ [t \in MCTxs |-> <<"m">>]
MCImages == (hidden :> <<k1>>) @@ [t \in MCTxs |-> << >>]
MCLockTime == (change :> 2) @@ [t \in MCTxs |-> 0]
MCFinal == MCTxs \ {change}
MCFee == [t \in MCTxs |-> 1]
MCGenesis == <<g>>
MCCandidates ==
    {<<c>> : c \in {c1, c2, c3}} \cup {<<c1, c2>>, <<c1, pay, change>>, <<pay>>, << >>}
    \cup {<<c, t>> : c \in {c1, c3}, t \in {pay, change, free, hidden}}

-----------------------------------------------------------------------------

BlocksInit ==
    /\ stage \in {"select", "mine", "bits", "connect"}
    /\ SelectInit /\ (stage # "select" => pool = OnePool)
    /\ MinerInit /\ (stage # "mine" => good = [t \in 1 .. MaxTime |-> {}])
    /\ ConsensusInit /\ (stage # "bits" => block_txs = <<>>)
    /\ Init

BlocksNext ==
    /\ UNCHANGED stage
    /\ \/ /\ stage = "select" /\ SelectNext
          /\ UNCHANGED <<miner_vars, consensus_vars, vars>>
       \/ /\ stage = "mine" /\ MinerNext
          /\ UNCHANGED <<select_vars, consensus_vars, vars>>
       \/ /\ stage = "bits" /\ ConsensusNext
          /\ UNCHANGED <<select_vars, miner_vars, vars>>
       \/ /\ stage = "connect" /\ Next
          /\ UNCHANGED <<select_vars, miner_vars, consensus_vars>>

BlocksSpec == BlocksInit /\ [][BlocksNext]_blocks_vars
=============================================================================
