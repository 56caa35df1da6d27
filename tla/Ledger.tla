------------------------------- MODULE Ledger -------------------------------
(***************************************************************************)
(* The transactions of a block: validate_transaction and                   *)
(* validate_anonymous_tx (src/111/src/tx.rs), the part of validate_block   *)
(* that is about transactions, and what handle_utxo_action does to the     *)
(* utxo, anonymous, key_images, coinbase and addr_index column families    *)
(* when a new run connects the genesis block, when add_block rolls blocks  *)
(* back and connects another, and when recover_pending_reorgs does so from *)
(* a journal (src/111/src/chain.rs).  Headers, work and the stored tip are *)
(* in ChainNode, which takes from here that only coinbases are connected.  *)
(*                                                                         *)
(* Signatures, ring signatures and range proofs are verified by libraries: *)
(* a transaction is in Verifies or it is not.  A Pedersen commitment adds  *)
(* up as the value it hides.                                               *)
(***************************************************************************)
EXTENDS Integers, Sequences, FiniteSets, SequencesExt

CONSTANTS
    Txs,          \* the transactions, by their hash
    Coinbases,    \* those for which is_coinbase holds
    Anonymous,    \* those with is_anonymous
    Inputs,       \* the outpoints <<txid, vout>> a transaction spends, in order
    Outputs,      \* the values of its outputs, in order; vout counts from 0
    Scripts,      \* the script_pubkey of each output
    Images,       \* the key images of an anonymous transaction's inputs
    LockTime,     \* lock_time
    Final,        \* those whose inputs all have the sequence u32::MAX
    RequiredFee,  \* size times the minimal fee per byte, with the
                  \* multiplier for anonymous transactions
    Verifies,     \* anonymous transactions whose scripts and proofs verify
    GenesisBlock, \* the block of create_genesis_block
    Candidates,   \* blocks handed to add_block, as sequences of transactions
    Subsidy,      \* subsidy(h), constant below HALVING_INTERVAL
    Supply,       \* the in-memory supply, which add_block reads and never sets
    MaxValue,     \* u64::MAX
    Maturity,     \* COINBASE_MATURITY
    MaxHeight,    \* bound: height of a block
    MaxJournals   \* bound: journals of add_block left in the database

ASSUME TxsAssumption ==
    /\ Coinbases \subseteq Txs
    /\ Anonymous \subseteq Txs
    /\ Inputs \in [Txs -> Seq(Txs \X Nat)]
    /\ Outputs \in [Txs -> Seq(Nat)]
    /\ \A t \in Txs : DOMAIN Scripts[t] = DOMAIN Outputs[t]
    /\ RequiredFee \in [Txs -> Nat]
    /\ \A t \in Txs : RequiredFee[t] > 0

ASSUME BlocksAssumption ==
    /\ GenesisBlock \in Seq(Coinbases)
    /\ GenesisBlock # <<>>
    /\ Candidates \subseteq Seq(Txs)
    /\ MaxHeight \in Nat

VARIABLES
    best_height, \* Chain.best_height, in memory; Off while no node runs
    saved,       \* the keys h: and b:, the block of each height, of any run
    journals,    \* the keys reorg:pending:
    utxo,        \* cf utxo: the stored outputs, [out, value]
    anonymous,   \* cf anonymous
    key_images,  \* cf key_images
    coinbase,    \* cf coinbase: <<txid, height>>
    addr_index   \* cf addr_index: the outpoints it lists

ledger == <<utxo, anonymous, key_images, coinbase, addr_index>>
vars == <<best_height, saved, journals, ledger>>

Off == -1

\* What load_block_from_db finds at a height without a block.
NoBlockSaved == <<>>

Sum(s) == IF s = <<>> THEN 0 ELSE FoldLeft(LAMBDA a, b : a + b, 0, s)

\* What checked_add, checked_sub and a u64 can hold.
U64 == 0 .. MaxValue

\* tx.outputs numbered from 0, as keys of a column family with their values.
OutputsOf(t) ==
    {[out |-> <<t, i - 1>>, value |-> Outputs[t][i]] : i \in DOMAIN Outputs[t]}

Stored(S, out) == \E e \in S : e.out = out

ValueIn(S, out) ==
    IF Stored(S, out) THEN (CHOOSE e \in S : e.out = out).value ELSE 0

\* The column family a transaction's inputs and outputs live in.
Family(t) == IF t \in Anonymous THEN anonymous ELSE utxo

-----------------------------------------------------------------------------
(* Validation.                                                             *)

\* The values of a transaction's inputs in S; an absent one counts nothing.
InputSum(S, t) == Sum([i \in DOMAIN Inputs[t] |-> ValueIn(S, Inputs[t][i])])

OutputSum(t) == Sum(Outputs[t])

\* Transaction::fee
Fee(t) ==
    LET over == InputSum(Family(t), t) - OutputSum(t)
    IN  IF over < 0 THEN 0 ELSE over

Distinct(s) == \A i, j \in DOMAIN s : s[i] = s[j] => i = j

\* validate_anonymous_tx; commitments hide the values they are checked for.
ValidAnonymous(t) ==
    /\ t \in Verifies
    /\ Distinct(Images[t])
    /\ \A i \in DOMAIN Images[t] : Images[t][i] \notin key_images
    /\ \A i \in DOMAIN Inputs[t] : Stored(anonymous, Inputs[t][i])
    /\ InputSum(anonymous, t) \in U64
    /\ OutputSum(t) <= InputSum(anonymous, t)

\* Every coinbase whose output is spent is COINBASE_MATURITY blocks deep.
Mature(t, height) ==
    \A i \in DOMAIN Inputs[t] : \A c \in coinbase :
        c[1] = Inputs[t][i][1] => height - c[2] >= Maturity

\* validate_transaction: input_sum is added up for plain inputs only.
ValidTransaction(t, height) ==
    \/ t \in Coinbases
    \/ /\ LockTime[t] <= best_height \/ t \in Final
       /\ Distinct(Inputs[t])
       /\ Mature(t, height)
       /\ LET input_sum == IF t \in Anonymous THEN 0 ELSE InputSum(utxo, t)
          IN  /\ IF t \in Anonymous
                 THEN ValidAnonymous(t)
                 ELSE \A i \in DOMAIN Inputs[t] : Stored(utxo, Inputs[t][i])
              /\ input_sum \in U64 /\ OutputSum(t) \in U64
              /\ OutputSum(t) <= input_sum
              /\ input_sum - OutputSum(t) >= RequiredFee[t]

\* The part of validate_block that is about transactions.  Only anonymous
\* transactions contribute commitments to the balance of the block, and all
\* fees do.
ValidBlock(b, height) ==
    LET rest == Tail(b)
        anon == SelectSeq(b, LAMBDA t : t \in Anonymous)
        fees == Sum([i \in DOMAIN rest |-> Fee(rest[i])])
    IN  /\ b # <<>>
        /\ b[1] \in Coinbases
        /\ \A i \in 2 .. Len(b) : ValidTransaction(b[i], height)
        /\ Outputs[b[1]] # <<>>
        /\ Outputs[b[1]][1] = Subsidy + fees
        /\ Sum([i \in DOMAIN anon |-> InputSum(anonymous, anon[i])])
             = Sum([i \in DOMAIN anon |-> OutputSum(anon[i])]) + fees

-----------------------------------------------------------------------------
(* handle_utxo_action, for the transactions of one block on one snapshot.  *)

\* Slip: a coinbase goes through the outputs loop like any transaction.
SpendingAll(b) == {b[i] : i \in DOMAIN b}

\* A coinbase returns early, before the loops over inputs and outputs.
Spending(b) == {b[i] : i \in DOMAIN b} \ Coinbases

InputsOf(T) == UNION {{Inputs[t][i] : i \in DOMAIN Inputs[t]} : t \in T}

ImagesOf(T) == UNION {{Images[t][i] : i \in DOMAIN Images[t]} : t \in T}

CreatedBy(T) == UNION {OutputsOf(t) : t \in T}

\* current_supply after each input and output, in the code's order: taken
\* from it and added to it on connecting, the other way on disconnecting.
Running(b, sign) ==
    LET plain == SelectSeq(b, LAMBDA t : t \notin Coinbases)
        moves(t) == [i \in DOMAIN Inputs[t] |-> -sign * ValueIn(Family(t), Inputs[t][i])]
                    \o [i \in DOMAIN Outputs[t] |-> sign * Outputs[t][i]]
        all == FlattenSeq([i \in DOMAIN plain |-> moves(plain[i])])
    IN  IF Spending(b) = {} THEN <<>>
        ELSE [n \in DOMAIN all |-> Supply + Sum(SubSeq(all, 1, n))]

\* No MissingUTXO, no DoubleSpend and no ValueOverflow on connecting b.
Connects(b) ==
    /\ \A t \in Spending(b) :
          /\ \A i \in DOMAIN Inputs[t] : Stored(Family(t), Inputs[t][i])
          /\ t \in Anonymous =>
                \A i \in DOMAIN Images[t] : Images[t][i] \notin key_images
    /\ \A n \in DOMAIN Running(b, 1) : Running(b, 1)[n] \in U64

\* No MissingUTXO and no ValueOverflow on disconnecting b: the inputs are
\* looked up again.
Disconnects(b) ==
    /\ \A t \in Spending(b) : \A i \in DOMAIN Inputs[t] :
          Stored(Family(t), Inputs[t][i])
    /\ \A n \in DOMAIN Running(b, -1) : Running(b, -1)[n] \in U64

\* The keys addr:<hash160(script)><txid><vout> of the outputs of T.  The loop
\* of a disconnection numbers the outputs from the last one.
AddrKeys(T) ==
    UNION {{<<Scripts[t][i], <<t, i - 1>>>> : i \in DOMAIN Outputs[t]} : t \in T}

ReversedAddrKeys(T) ==
    UNION {{<<Scripts[t][Len(Outputs[t]) + 1 - i], <<t, i - 1>>>> :
                i \in DOMAIN Outputs[t]} : t \in T}

CoinbasesOf(b) == {b[i] : i \in DOMAIN b} \cap Coinbases

\* The blocks old are disconnected and then b is connected at height h, in
\* one batch and on the snapshot before it.
Batch(old, h, b) ==
    LET gone == UNION {Spending(x) : x \in old}
        new  == Spending(b)
        After(S, T, N) ==
            {e \in S : e.out \notin InputsOf(N) /\ ~Stored(CreatedBy(T), e.out)}
                \cup CreatedBy(N)
        replaced == UNION {CoinbasesOf(x) : x \in old} \cup CoinbasesOf(b)
    IN  /\ utxo' = After(utxo, gone \ Anonymous, new \ Anonymous)
        /\ anonymous' = After(anonymous, gone \cap Anonymous, new \cap Anonymous)
        /\ key_images' = (key_images \ ImagesOf(gone \cap Anonymous))
                            \cup ImagesOf(new \cap Anonymous)
        /\ addr_index' = (addr_index \ ReversedAddrKeys(gone \ Anonymous))
                            \cup AddrKeys(new \ Anonymous)
        /\ coinbase' = {c \in coinbase : c[1] \notin replaced}
                            \cup {<<t, h>> : t \in CoinbasesOf(b)}

-----------------------------------------------------------------------------

\* A database without blocks.
Init ==
    /\ best_height = Off
    /\ saved = [h \in 1 .. MaxHeight |-> NoBlockSaved]
    /\ journals = {}
    /\ utxo = {} /\ anonymous = {} /\ key_images = {} /\ addr_index = {}
    /\ coinbase = {}

\* Chain::new connects the genesis block with apply_block_action, in every
\* run anew (load_from_db never succeeds, see ChainNode).  It leaves what
\* earlier runs have saved, and best_height is 0.
NewChain ==
    /\ best_height = Off
    /\ Connects(GenesisBlock)
    /\ Batch({}, 0, GenesisBlock)
    /\ best_height' = 0
    /\ UNCHANGED <<saved, journals>>

\* The end of a run, at any moment.
Exit ==
    /\ best_height # Off
    /\ best_height' = Off
    /\ UNCHANGED <<saved, journals, ledger>>

\* add_block up to start_reorg_journal, on the parent at height p: the journal
\* it writes.  ChainNode says which parents are known and have more work.
Journal(p, b) == [parent |-> p, top |-> best_height, block |-> b]

Accepts(p, b) == p < MaxHeight /\ ValidBlock(b, p + 1)

\* The blocks that are loaded to be disconnected: from best_height down to
\* the parent, whatever an earlier run has saved above.
Above(j) == {saved[h] : h \in j.parent + 1 .. j.top}

\* What add_block and recover_pending_reorgs do with a journal.
Reorganize(j) ==
    /\ \A x \in Above(j) : x # NoBlockSaved /\ Disconnects(x)
    /\ Connects(j.block)
    /\ Batch(Above(j), j.parent + 1, j.block)

\* add_block, to its end or to an error of save_block.
AddBlock(p, b) ==
    /\ Accepts(p, b)
    /\ Reorganize(Journal(p, b))
    /\ best_height' = p + 1
    /\ saved' \in {saved, [saved EXCEPT ![p + 1] = b]}
    /\ UNCHANGED journals

\* add_block returns an error or is cut off with its journal written, before
\* the batch is committed
JournalLeft(p, b) ==
    /\ Accepts(p, b)
    /\ Cardinality(journals) < MaxJournals
    /\ journals' = journals \cup {Journal(p, b)}
    /\ UNCHANGED <<best_height, saved, ledger>>

\* or after it.
JournalNotDeleted(p, b) ==
    /\ Accepts(p, b)
    /\ Cardinality(journals) < MaxJournals
    /\ Reorganize(Journal(p, b))
    /\ journals' = journals \cup {Journal(p, b)}
    /\ UNCHANGED <<best_height, saved>>

\* recover_pending_reorgs, before Chain::new.  A journal that is not stale is
\* replayed (ChainNode says which ones are; here any may be), and deleted.
Replay(j) ==
    /\ best_height = Off
    /\ Reorganize(j)
    /\ UNCHANGED <<best_height, saved, journals>>

Discard(j) ==
    /\ best_height = Off
    /\ journals' = journals \ {j}
    /\ UNCHANGED <<best_height, saved, ledger>>

Next ==
    \/ NewChain \/ Exit
    \/ \E p \in 0 .. best_height, b \in Candidates :
          AddBlock(p, b) \/ JournalLeft(p, b) \/ JournalNotDeleted(p, b)
    \/ \E j \in journals : Replay(j) \/ Discard(j)

Spec == Init /\ [][Next]_vars

-----------------------------------------------------------------------------

\* handle_utxo_action returns early for a coinbase and validate_transaction
\* needs a stored output for everything else: no output is ever stored in
\* utxo or anonymous, no key image is used and no address is indexed.
NothingStored ==
    /\ utxo = {} /\ anonymous = {} /\ key_images = {} /\ addr_index = {}

\* Every transaction of every block that was saved or waits in a journal, in
\* this run or an earlier one, is a coinbase, so that the rollback of any
\* block by handle_utxo_action finds what it looks up: it never meets the
\* inputs that connecting has deleted, nor the outputs it numbers backwards.
OnlyCoinbases ==
    \A x \in {saved[h] : h \in DOMAIN saved} \cup {j.block : j \in journals} :
        (\A i \in DOMAIN x : x[i] \in Coinbases) /\ Disconnects(x)

\* The ledger holds coinbases only: in the blocks, and in the column families
\* none of their outputs.
CoinbasesOnly == NothingStored /\ OnlyCoinbases
=============================================================================
