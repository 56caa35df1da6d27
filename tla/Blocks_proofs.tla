--------------------------- MODULE Blocks_proofs ---------------------------
(***************************************************************************)
(* Blocks, from the template to the chain: what select_txs puts into one   *)
(* (MempoolSelect), what the miner submits (Miner) and what the chain      *)
(* connects (Ledger).                                                      *)
(*                                                                         *)
(* Ledger.  Nothing but coinbases is ever connected, for every set of      *)
(* transactions, every stream of blocks, every reorganization, and however *)
(* often runs end and begin.                                               *)
(* NothingStored is inductive together with OnlyCoinbases: a transaction   *)
(* that is no coinbase is refused while nothing is stored, and blocks of   *)
(* coinbases store nothing and take nothing back.                          *)
(*                                                                         *)
(* Miner.  For any number of threads, nonces and rounds: what the miner    *)
(* submits extends the tip, with a nonce that was a hit for its template.  *)
(* The inductive invariant says that the template stands while the read    *)
(* lock is held, and that a nonce which a thread is about to store, or     *)
(* which the search ends with, is a hit.                                   *)
(*                                                                         *)
(* MempoolSelect.  For every pool and all limits: what is selected, and    *)
(* that nothing is left out when there is room.  The walk has visited or   *)
(* still holds every ancestor of its transaction; since no two ancestors   *)
(* share one, each is pushed at most twice, which bounds the depth         *)
(* (WalkInv).  The bytes selected are at most those of the packages that   *)
(* were passed (RoomInv).                                                  *)
(***************************************************************************)
EXTENDS Ledger, Miner, MempoolSelect, Sums

-----------------------------------------------------------------------------
(* The ledger *)

\* The inductive invariant.
Blocked ==
    /\ NothingStored
    /\ best_height \in Off .. MaxHeight
    /\ saved \in [1 .. MaxHeight -> Seq(Txs)]
    /\ \A h \in 1 .. MaxHeight : Spending(saved[h]) = {}
    /\ \A j \in journals : /\ j.parent \in 0 .. MaxHeight /\ j.top \in Off .. MaxHeight
                            /\ j.block \in Seq(Txs) /\ Spending(j.block) = {}

\* While nothing is stored, validate_transaction accepts coinbases only: a
\* plain transaction has no stored input and so no fee, an anonymous one is
\* never given an input_sum.
LEMMA OnlyCoinbasesValid ==
    ASSUME NothingStored, NEW t \in Txs, NEW h, ValidTransaction(t, h)
    PROVE  t \in Coinbases
<1>1. SUFFICES ASSUME t \notin Coinbases PROVE FALSE
  OBVIOUS
<1>2. RequiredFee[t] \in Nat /\ RequiredFee[t] > 0 /\ Inputs[t] \in Seq(Txs \X Nat)
  BY TxsAssumption
<1>3. CASE t \in Anonymous
  <2>1. OutputSum(t) \in U64 /\ 0 - OutputSum(t) >= RequiredFee[t]
    BY <1>1, <1>3 DEF ValidTransaction
  <2> QED
    BY <2>1, <1>2 DEF U64
<1>4. CASE t \notin Anonymous
  <2>1. DOMAIN Inputs[t] = {}
    BY <1>1, <1>4 DEF ValidTransaction, NothingStored, Stored
  <2>2. [i \in DOMAIN Inputs[t] |-> ValueIn(utxo, Inputs[t][i])] = <<>>
    BY <2>1
  <2>3. InputSum(utxo, t) = 0
    BY <2>2 DEF InputSum, Sum
  <2>4. OutputSum(t) \in U64 /\ 0 - OutputSum(t) >= RequiredFee[t]
    BY <1>1, <1>4, <2>3 DEF ValidTransaction
  <2> QED
    BY <2>4, <1>2 DEF U64
<1> QED
  BY <1>3, <1>4

\* So a block that validate_block accepts has nothing to spend or to store.
LEMMA ValidBlockSpendsNothing ==
    ASSUME NothingStored, NEW b \in Seq(Txs), NEW h, ValidBlock(b, h)
    PROVE  Spending(b) = {}
<1>1. b # <<>> /\ b[1] \in Coinbases /\ \A i \in 2 .. Len(b) : ValidTransaction(b[i], h)
  BY DEF ValidBlock
<1>2. ASSUME NEW i \in DOMAIN b PROVE b[i] \in Coinbases
  <2>1. CASE i = 1
    BY <1>1, <2>1
  <2>2. CASE i # 1
    <3>1. i \in 2 .. Len(b) /\ b[i] \in Txs
      BY <2>2
    <3> QED
      BY <1>1, <3>1, OnlyCoinbasesValid
  <2> QED
    BY <2>1, <2>2
<1> QED
  BY <1>2 DEF Spending

LEMMA GenesisSpendsNothing == GenesisBlock \in Seq(Txs) /\ Spending(GenesisBlock) = {}
<1>1. GenesisBlock \in Seq(Txs)
  BY BlocksAssumption, TxsAssumption
<1>2. \A i \in DOMAIN GenesisBlock : GenesisBlock[i] \in Coinbases
  BY BlocksAssumption
<1> QED
  BY <1>1, <1>2 DEF Spending

LEMMA InitBlocked == Init => Blocked
<1>1. Spending(NoBlockSaved) = {} /\ NoBlockSaved \in Seq(Txs)
  BY DEF Spending, NoBlockSaved
<1> QED
  BY <1>1, BlocksAssumption DEF Init, Blocked, NothingStored, Off

\* A block of coinbases put in the place of blocks of coinbases leaves the
\* column families empty.
LEMMA BatchStoresNothing ==
    ASSUME NothingStored, NEW old, \A x \in old : Spending(x) = {},
           NEW h, NEW b, Spending(b) = {}, Batch(old, h, b)
    PROVE  NothingStored'
<1>1. UNION {Spending(x) : x \in old} = {}
  OBVIOUS
<1>2. CreatedBy({}) = {} /\ InputsOf({}) = {} /\ ImagesOf({}) = {} /\ AddrKeys({}) = {}
  BY DEF CreatedBy, InputsOf, ImagesOf, AddrKeys
<1>3. {} \ Anonymous = {} /\ {} \cap Anonymous = {}
  OBVIOUS
<1>4. utxo' = {} /\ anonymous' = {}
  BY <1>1, <1>2, <1>3 DEF Batch, NothingStored
<1>5. key_images' = {} /\ addr_index' = {}
  BY <1>1, <1>2, <1>3 DEF Batch, NothingStored
<1> QED
  BY <1>4, <1>5 DEF NothingStored

\* Whatever is disconnected for a journal was saved, and spends nothing.
LEMMA ReorganizeStoresNothing ==
    ASSUME Blocked, NEW j, j.parent \in 0 .. MaxHeight, j.top \in Off .. MaxHeight,
           Spending(j.block) = {}, Reorganize(j)
    PROVE  NothingStored'
<1>1. \A x \in Above(j) : Spending(x) = {}
  BY BlocksAssumption DEF Above, Blocked, Off
<1> QED
  BY <1>1, BatchStoresNothing DEF Reorganize, Blocked

\* A journal is written for a block that was validated.
LEMMA JournalSpendsNothing ==
    ASSUME Blocked, NEW p \in 0 .. best_height, NEW b \in Candidates, Accepts(p, b)
    PROVE  /\ b \in Seq(Txs) /\ Spending(b) = {} /\ p + 1 \in 1 .. MaxHeight
           /\ Journal(p, b).parent \in 0 .. MaxHeight
           /\ Journal(p, b).top \in Off .. MaxHeight
           /\ Journal(p, b).block = b
<1>1. b \in Seq(Txs) /\ NothingStored /\ ValidBlock(b, p + 1)
  BY BlocksAssumption DEF Accepts, Blocked
<1>2. Spending(b) = {}
  BY <1>1, ValidBlockSpendsNothing
<1>3. p \in Int /\ p >= 0 /\ p < MaxHeight /\ best_height \in Off .. MaxHeight
  BY BlocksAssumption DEF Accepts, Blocked, Off
<1>4. /\ Journal(p, b).parent = p /\ Journal(p, b).top = best_height
      /\ Journal(p, b).block = b
  BY DEF Journal
<1> QED
  BY <1>1, <1>2, <1>3, <1>4, BlocksAssumption

LEMMA StepBlocked == Blocked /\ [Next]_vars => Blocked'
<1> SUFFICES ASSUME Blocked, [Next]_vars PROVE Blocked'
  OBVIOUS
<1>1. \A x : Spending(x)' = Spending(x)
  BY DEF Spending
<1>2. CASE NewChain
  <2>1. NothingStored'
    BY <1>2, GenesisSpendsNothing, BatchStoresNothing DEF NewChain, Blocked
  <2>2. best_height' = 0 /\ UNCHANGED <<saved, journals>>
    BY <1>2 DEF NewChain
  <2> QED
    BY <2>1, <2>2, BlocksAssumption DEF Blocked, Off, Spending
<1>3. CASE Exit
  <2>1. best_height' = Off /\ UNCHANGED <<saved, journals, ledger>>
    BY <1>3 DEF Exit
  <2> QED
    BY <2>1, BlocksAssumption DEF Blocked, NothingStored, ledger, Off, Spending
<1>4. ASSUME NEW p \in 0 .. best_height, NEW b \in Candidates, Accepts(p, b),
             AddBlock(p, b) \/ JournalLeft(p, b) \/ JournalNotDeleted(p, b)
      PROVE  Blocked'
  <2>0. /\ b \in Seq(Txs) /\ Spending(b) = {} /\ p + 1 \in 1 .. MaxHeight
        /\ Journal(p, b).parent \in 0 .. MaxHeight
        /\ Journal(p, b).top \in Off .. MaxHeight
        /\ Journal(p, b).block = b
    BY <1>4, JournalSpendsNothing
  <2>1. CASE AddBlock(p, b)
    <3>1. NothingStored'
      BY <2>0, <2>1, ReorganizeStoresNothing DEF AddBlock
    <3>2. /\ best_height' = p + 1 /\ journals' = journals
          /\ saved' \in {saved, [saved EXCEPT ![p + 1] = b]}
      BY <2>1 DEF AddBlock
    <3>3. /\ saved' \in [1 .. MaxHeight -> Seq(Txs)]
          /\ \A h \in 1 .. MaxHeight : saved'[h] \in {saved[h], b}
      BY <2>0, <3>2 DEF Blocked
    <3>4. \A h \in 1 .. MaxHeight : Spending(saved'[h]) = {}
      BY <2>0, <3>3 DEF Blocked
    <3>5. best_height' \in Off .. MaxHeight
      BY <2>0, <3>2, BlocksAssumption DEF Off
    <3> QED
      BY <3>1, <3>2, <3>3, <3>4, <3>5 DEF Blocked, Spending, Off
  <2>2. CASE JournalLeft(p, b)
    <3>1. /\ journals' = journals \cup {Journal(p, b)}
          /\ UNCHANGED <<best_height, saved, ledger>>
      BY <2>2 DEF JournalLeft
    <3> QED
      BY <2>0, <3>1 DEF Blocked, NothingStored, ledger, Spending, Off
  <2>3. CASE JournalNotDeleted(p, b)
    <3>1. NothingStored'
      BY <2>0, <2>3, ReorganizeStoresNothing DEF JournalNotDeleted
    <3>2. /\ journals' = journals \cup {Journal(p, b)}
          /\ UNCHANGED <<best_height, saved>>
      BY <2>3 DEF JournalNotDeleted
    <3> QED
      BY <2>0, <3>1, <3>2 DEF Blocked, Spending, Off
  <2> QED
    BY <1>4, <2>1, <2>2, <2>3
<1>5. ASSUME NEW j \in journals, Replay(j) \/ Discard(j)
      PROVE  Blocked'
  <2>1. CASE Replay(j)
    <3>1. NothingStored'
      BY <2>1, ReorganizeStoresNothing DEF Replay, Blocked
    <3>2. UNCHANGED <<best_height, saved, journals>>
      BY <2>1 DEF Replay
    <3> QED
      BY <3>1, <3>2 DEF Blocked, Spending, Off
  <2>2. CASE Discard(j)
    <3>1. journals' \subseteq journals /\ UNCHANGED <<best_height, saved, ledger>>
      BY <2>2 DEF Discard
    <3> QED
      BY <3>1 DEF Blocked, NothingStored, ledger, Spending, Off
  <2> QED
    BY <1>5, <2>1, <2>2
<1>6. CASE UNCHANGED vars
  BY <1>6 DEF vars, ledger, Blocked, NothingStored, Spending, Off
<1> QED
  BY <1>2, <1>3, <1>4, <1>5, <1>6 DEF Next, AddBlock, JournalLeft, JournalNotDeleted

\* The column families that handle_utxo_action fills stay empty for ever.
THEOREM NothingIsEverStored == Spec => []NothingStored
<1>1. Blocked => NothingStored
  BY DEF Blocked
<1> QED
  BY InitBlocked, StepBlocked, <1>1, PTL DEF Spec

\* Only coinbases are saved or journalled, and handle_utxo_action can roll
\* back every saved block.
THEOREM OnlyCoinbasesConnected == Spec => []OnlyCoinbases
<1>1. ASSUME NEW x, Spending(x) = {}
      PROVE  (\A i \in DOMAIN x : x[i] \in Coinbases) /\ Disconnects(x)
  <2>1. \A i \in DOMAIN x : x[i] \in Coinbases
    BY <1>1 DEF Spending
  <2>2. Running(x, -1) = <<>>
    BY <1>1 DEF Running
  <2> QED
    BY <1>1, <2>1, <2>2 DEF Disconnects
<1>2. Blocked => OnlyCoinbases
  BY <1>1 DEF Blocked, OnlyCoinbases
<1> QED
  BY InitBlocked, StepBlocked, <1>2, PTL DEF Spec

\* The ledger of every node holds coinbases only.
THEOREM AlwaysCoinbasesOnly == Spec => []CoinbasesOnly
<1>1. NothingStored /\ OnlyCoinbases => CoinbasesOnly
  BY DEF CoinbasesOnly
<1> QED
  BY <1>1, NothingIsEverStored, OnlyCoinbasesConnected, PTL
-----------------------------------------------------------------------------
(* The miner *)

Busy == [at : {"hash", "store"}, nonce : Nonces]

Hits == good[template.time]

\* The miner holds the read lock from the template to the end of the round.
Guarded == pc \in {"tip", "search", "submit"} => guard

\* Threads work only during the search, and store hits only.
ThreadsInv ==
    /\ thread \in [Threads -> {Idle} \cup Busy]
    /\ chunk \subseteq Nonces
    /\ pc # "search" => \A t \in Threads : thread[t] = Idle
    /\ \A t \in Threads : thread[t].at = "store" => thread[t].nonce \in Hits

\* A hit is stored, or a thread is about to store one.
FoundInv ==
    found => /\ pc \in {"search", "submit"}
             /\ \/ found_nonce \in Hits
                \/ \E t \in Threads : thread[t].at = "store"

BlockInv == block # NoBlock => pc = "submit" /\ NonceWasHit

MinerInv == Guarded /\ TipStands /\ ThreadsInv /\ FoundInv /\ BlockInv

LEMMA InitMinerInv == MinerInit => MinerInv
BY DEF MinerInit, MinerInv, Guarded, TipStands, ThreadsInv, FoundInv, BlockInv, Idle

\* Beside the search the round changes nothing that threads look at.
LEMMA RoundInv ==
    ASSUME MinerInv, Round
    PROVE  MinerInv'
<1>1. CASE Template
  <2>1. /\ pc = "top" /\ pc' = "tip" /\ guard' = TRUE
        /\ template' = [prev |-> tip, time |-> now]
        /\ UNCHANGED <<tip, good, thread, chunk, found, found_nonce, block>>
    BY <1>1 DEF Template, search
  <2>2. ThreadsInv'
    <3>1. \A t \in Threads : thread'[t].at # "store"
      BY <2>1 DEF MinerInv, ThreadsInv, Idle
    <3> QED
      BY <2>1, <3>1 DEF MinerInv, ThreadsInv
  <2>3. ~found' /\ block' = NoBlock
    BY <2>1 DEF MinerInv, FoundInv, BlockInv
  <2> QED
    BY <2>1, <2>2, <2>3 DEF MinerInv, Guarded, TipStands, FoundInv, BlockInv
<1>2. CASE CurrentTip
  <2>1. /\ pc = "tip" /\ pc' = "search" /\ chunk' = Nonces /\ ~found'
        /\ UNCHANGED <<guard, tip, template, good, thread, found_nonce, block>>
    BY <1>2 DEF CurrentTip
  <2> QED
    BY <2>1 DEF MinerInv, Guarded, TipStands, ThreadsInv, FoundInv, BlockInv,
                NonceWasHit, Hits
<1>3. CASE ChunkDone
  <2>0. /\ pc = "search" /\ \A t \in Threads : thread[t] = Idle
        /\ UNCHANGED <<guard, tip, template, good, thread, found, found_nonce>>
    BY <1>3 DEF ChunkDone
  <2>1. CASE ~found
    <3>1. chunk' = Nonces /\ UNCHANGED <<pc, block>>
      BY <1>3, <2>1 DEF ChunkDone
    <3> QED
      BY <2>0, <2>1, <3>1 DEF MinerInv, Guarded, TipStands, ThreadsInv, FoundInv,
                              BlockInv, NonceWasHit, Hits
  <2>2. CASE found
    <3>1. /\ pc' = "submit" /\ chunk' = chunk
          /\ block' = [prev |-> template.prev, time |-> now, nonce |-> found_nonce]
      BY <1>3, <2>2 DEF ChunkDone
    <3>2. found_nonce \in Hits
      BY <2>0, <2>2 DEF MinerInv, FoundInv, Idle
    <3>3. BlockInv'
      BY <2>0, <3>1, <3>2 DEF BlockInv, NonceWasHit, Hits
    <3>4. ThreadsInv'
      BY <2>0, <3>1 DEF MinerInv, ThreadsInv, Hits
    <3> QED
      BY <2>0, <3>1, <3>2, <3>3, <3>4 DEF MinerInv, Guarded, TipStands, FoundInv, Hits
  <2> QED
    BY <2>1, <2>2
<1> QED
  BY <1>1, <1>2, <1>3 DEF Round

LEMMA ThreadInv ==
    ASSUME MinerInv, NEW t \in Threads, Thread(t)
    PROVE  MinerInv'
<1>1. /\ UNCHANGED <<pc, guard, tip, template, good, block>>
      /\ chunk' \subseteq chunk /\ Hits' = Hits
  BY DEF Thread, Take, Hash, Store, Hits
<1>2. Guarded' /\ TipStands' /\ BlockInv'
  BY <1>1 DEF MinerInv, Guarded, TipStands, BlockInv, NonceWasHit
<1>3. pc = "search" /\ thread[t] \in {Idle} \cup Busy
  BY DEF MinerInv, ThreadsInv, Thread, Take, Hash, Store, Idle
<1>4. CASE Take(t)
  <2>1. PICK n \in chunk : thread' = [thread EXCEPT ![t] = [at |-> "hash", nonce |-> n]]
    BY <1>4 DEF Take
  <2>2. thread[t].at = "idle" /\ UNCHANGED <<found, found_nonce>>
    BY <1>4 DEF Take, Idle
  <2>3. [at |-> "hash", nonce |-> n] \in Busy
    BY <2>1 DEF Busy, MinerInv, ThreadsInv
  <2>4. ThreadsInv'
    BY <1>1, <1>3, <2>1, <2>3 DEF MinerInv, ThreadsInv
  <2>5. FoundInv'
    BY <1>1, <2>1, <2>2 DEF MinerInv, FoundInv, ThreadsInv
  <2> QED
    BY <1>2, <2>4, <2>5 DEF MinerInv
<1>5. CASE Hash(t)
  <2>1. thread[t] \in Busy /\ thread[t].at = "hash"
    BY <1>3, <1>5 DEF Hash, Idle
  <2> DEFINE hit == thread[t].nonce \in Hits
  <2>2. /\ found' = (found \/ hit) /\ found_nonce' = found_nonce
        /\ thread' = [thread EXCEPT ![t] = IF hit THEN [@ EXCEPT !.at = "store"] ELSE Idle]
    BY <1>5 DEF Hash, Hits
  <2>3. /\ [thread[t] EXCEPT !.at = "store"] \in Busy
        /\ [thread[t] EXCEPT !.at = "store"].at = "store"
        /\ [thread[t] EXCEPT !.at = "store"].nonce = thread[t].nonce
    BY <2>1 DEF Busy
  <2>4. ThreadsInv'
    BY <1>1, <1>3, <2>2, <2>3 DEF MinerInv, ThreadsInv, Idle
  <2>5. FoundInv'
    <3>1. CASE hit
      BY <1>1, <1>3, <2>2, <2>3, <3>1 DEF MinerInv, FoundInv, ThreadsInv
    <3>2. CASE ~hit
      BY <1>1, <1>3, <2>1, <2>2, <3>2 DEF MinerInv, FoundInv, ThreadsInv
    <3> QED
      BY <3>1, <3>2
  <2> QED
    BY <1>2, <2>4, <2>5 DEF MinerInv
<1>6. CASE Store(t)
  <2>1. /\ thread[t].at = "store" /\ found_nonce' = thread[t].nonce
        /\ thread' = [thread EXCEPT ![t] = Idle] /\ found' = found
    BY <1>6 DEF Store
  <2>2. found_nonce' \in Hits
    BY <2>1 DEF MinerInv, ThreadsInv
  <2>3. ThreadsInv'
    BY <1>1, <1>3, <2>1 DEF MinerInv, ThreadsInv, Idle
  <2>4. FoundInv'
    BY <1>1, <1>3, <2>1, <2>2 DEF MinerInv, FoundInv
  <2> QED
    BY <1>2, <2>3, <2>4 DEF MinerInv
<1> QED
  BY <1>4, <1>5, <1>6 DEF Thread

\* Whoever writes to the chain does so while the miner has no guard.
LEMMA WriterInv ==
    ASSUME MinerInv, Arrive \/ Write \/ Tick
    PROVE  MinerInv'
<1>1. UNCHANGED <<pc, guard, template, good, thread, chunk, found, found_nonce, block>>
  BY DEF Arrive, Write, Tick, search
<1>2. tip' = tip \/ ~guard
  BY DEF Arrive, Write, Tick
<1> QED
  BY <1>1, <1>2 DEF MinerInv, Guarded, TipStands, ThreadsInv, FoundInv, BlockInv,
                    NonceWasHit, Hits

\* For every number of threads, every chunk of nonces and however often the
\* threads overtake each other, a block that is submitted extends the tip and
\* has a nonce that was a hit for the header that was searched.
THEOREM BlockAlwaysFits == MinerSpec => []BlockFits
<1>1. ASSUME MinerInv, UNCHANGED miner_vars
      PROVE  MinerInv'
  BY <1>1 DEF MinerInv, miner_vars, Guarded, TipStands, ThreadsInv, FoundInv, BlockInv,
              NonceWasHit, Hits
<1>2. MinerInv /\ [MinerNext]_miner_vars => MinerInv'
  BY <1>1, RoundInv, ThreadInv, WriterInv DEF MinerNext
<1>3. MinerInv => BlockFits
  BY DEF MinerInv, BlockFits, BlockInv, NonceWasHit
<1> QED
  BY InitMinerInv, <1>2, <1>3, PTL DEF MinerSpec

-----------------------------------------------------------------------------
(* select_txs *)

LEMMA RangeConcat ==
    ASSUME NEW D, NEW s \in Seq(D), NEW t \in Seq(D)
    PROVE  /\ s \o t \in Seq(D) /\ Len(s \o t) = Len(s) + Len(t)
           /\ Range(s \o t) = Range(s) \cup Range(t)
<1>1. /\ s \o t \in Seq(D) /\ Len(s \o t) = Len(s) + Len(t)
      /\ Len(s) \in Nat /\ Len(t) \in Nat
      /\ DOMAIN s = 1 .. Len(s) /\ DOMAIN t = 1 .. Len(t)
      /\ DOMAIN (s \o t) = 1 .. (Len(s) + Len(t))
  OBVIOUS
<1>2. \A i \in 1 .. Len(s) : i \in DOMAIN (s \o t) /\ (s \o t)[i] = s[i]
  BY <1>1
<1>3. \A i \in 1 .. Len(t) : Len(s) + i \in DOMAIN (s \o t) /\ (s \o t)[Len(s) + i] = t[i]
  BY <1>1
<1>4. \A i \in DOMAIN (s \o t) :
        \/ i \in 1 .. Len(s) /\ (s \o t)[i] = s[i]
        \/ i - Len(s) \in 1 .. Len(t) /\ (s \o t)[i] = t[i - Len(s)]
  BY <1>1
<1>5. Range(s \o t) \subseteq Range(s) \cup Range(t)
  BY <1>1, <1>4 DEF Range
<1>6. Range(s) \subseteq Range(s \o t)
  BY <1>1, <1>2 DEF Range
<1>7. Range(t) \subseteq Range(s \o t)
  BY <1>1, <1>3 DEF Range
<1> QED
  BY <1>1, <1>5, <1>6, <1>7

LEMMA RangeFront ==
    ASSUME NEW D, NEW s \in Seq(D), s # <<>>
    PROVE  /\ Front(s) \in Seq(D) /\ Len(Front(s)) = Len(s) - 1 /\ Len(s) \in Nat \ {0}
           /\ Last(s) \in D /\ Range(s) = Range(Front(s)) \cup {Last(s)}
<1>1. Len(s) \in Nat \ {0} /\ DOMAIN s = 1 .. Len(s) /\ Last(s) \in D
  BY DEF Last
<1>2. /\ Front(s) \in Seq(D) /\ Len(Front(s)) = Len(s) - 1
      /\ DOMAIN Front(s) = 1 .. (Len(s) - 1)
      /\ \A i \in 1 .. (Len(s) - 1) : Front(s)[i] = s[i]
  BY <1>1 DEF Front
<1>3. \A i \in 1 .. Len(s) : i \in 1 .. (Len(s) - 1) \/ i = Len(s)
  <2>1. \A n \in Nat : \A i \in 1 .. n : i \in 1 .. (n - 1) \/ i = n
    OBVIOUS
  <2> QED
    BY ONLY <1>1, <2>1
<1>4. 1 .. (Len(s) - 1) \subseteq 1 .. Len(s) /\ Len(s) \in 1 .. Len(s)
  BY <1>1
<1>5. Range(s) = Range(Front(s)) \cup {Last(s)}
  BY <1>1, <1>2, <1>3, <1>4 DEF Range, Last
<1> QED
  BY <1>1, <1>2, <1>5

LEMMA SeqOfSubset ==
    ASSUME NEW S, NEW T, S \subseteq T, NEW s \in Seq(S)
    PROVE  s \in Seq(T)
<1>1. Len(s) \in Nat /\ s \in [1 .. Len(s) -> S]
  OBVIOUS
<1>2. s \in [1 .. Len(s) -> T]
  BY <1>1
<1> QED
  BY <1>1, <1>2

LEMMA SeqOfOne ==
    ASSUME NEW T, NEW x \in T
    PROVE  <<x>> \in Seq(T)
OBVIOUS

LEMMA OrdersAre ==
    ASSUME NEW S, IsFiniteSet(S), NEW s \in Orders(S)
    PROVE  s \in Seq(S) /\ Len(s) = Cardinality(S) /\ Range(s) = S
<1> DEFINE n == Cardinality(S)
           I == 1 .. n
<1>1. n \in Nat /\ IsFiniteSet(I) /\ Cardinality(I) = n
  <2>1. n \in Nat
    BY FS_CardinalityType
  <2> HIDE DEF n
  <2> QED
    BY <2>1, FS_Interval
<1>2. s \in [I -> S] /\ \A i, j \in I : i # j => s[i] # s[j]
  BY DEF Orders, SetToSeqs
<1>3. s \in Injection(I, S)
  BY <1>2 DEF Injection, IsInjective
<1> HIDE DEF I, n
<1>4. s \in Surjection(I, S)
  BY <1>1, <1>3, FS_Injection DEF n
<1>5. Range(s) = S
  BY <1>2, <1>4 DEF Range, Surjection
<1>6. s \in Seq(S) /\ Len(s) = n
  BY <1>1, <1>2 DEF I
<1> QED
  BY <1>5, <1>6 DEF n

\* What Mempool guarantees of the pool.
Deps(t) == pool.depends_on[t]

LEMMA PoolIs ==
    ASSUME pool \in Pools
    PROVE  /\ IsFiniteSet(pool.txs) /\ pool.txs \subseteq DOMAIN Size
           /\ Size \in [DOMAIN Size -> Nat] /\ \A t \in pool.txs : Size[t] \in Nat \ {0}
           /\ \A t \in pool.txs :
                /\ Deps(t) \in SUBSET (pool.txs \ {t})
                /\ IsFiniteSet(Deps(t)) /\ Cardinality(Deps(t)) \in Nat
                /\ \A a \in Deps(t) : Deps(a) \subseteq Deps(t)
                /\ \A a, b \in Deps(t) : a # b => Deps(a) \cap Deps(b) = {}
<1>1. /\ IsFiniteSet(pool.txs) /\ pool.txs \subseteq DOMAIN Size
      /\ Size \in [DOMAIN Size -> Nat \ {0}]
      /\ \A t \in pool.txs :
           /\ Deps(t) \subseteq pool.txs \ {t}
           /\ \A a \in Deps(t) : Deps(a) \subseteq Deps(t)
           /\ \A a, b \in Deps(t) : a # b => Deps(a) \cap Deps(b) = {}
  BY SelectAssumption DEF Deps
<1>2. ASSUME NEW t \in pool.txs
      PROVE  IsFiniteSet(Deps(t)) /\ Cardinality(Deps(t)) \in Nat
  BY <1>1, FS_Subset, FS_CardinalityType
<1>3. Size \in [DOMAIN Size -> Nat] /\ \A t \in pool.txs : Size[t] \in Nat \ {0}
  BY <1>1
<1> QED
  BY <1>1, <1>2, <1>3

\* Every ancestor has been visited or is on the stack, and the walk has popped
\* and holds no more than the ancestors once and their ancestors once.
Walks ==
    [txid : Nat \cup pool.txs, package : Seq(pool.txs), stack : Seq(pool.txs),
     visited : SUBSET pool.txs, depth : Nat]

Pushed == UNION {Deps(p) : p \in walk.visited}

WalkInv ==
    LET A == Deps(walk.txid)
    IN  /\ walk.txid \in pool.txs \ todo
        /\ walk.visited \subseteq A /\ Range(walk.stack) \subseteq A
        /\ A \subseteq walk.visited \cup Range(walk.stack)
        /\ Range(walk.package) = {walk.txid} \cup walk.visited
        /\ \A i, j \in 1 .. Len(walk.package) : walk.package[i] = walk.package[j] => i = j
        /\ walk.depth + Len(walk.stack) <= Cardinality(A) + Cardinality(Pushed)

SelectTypes ==
    /\ pool \in Pools /\ todo \subseteq pool.txs /\ selected \in Seq(pool.txs)
    /\ included = Range(selected) /\ walk \in Walks

SelectInv ==
    /\ SelectTypes
    /\ SelectionSound
    /\ walk # NoWalk => WalkInv

LEMMA PushedIs ==
    ASSUME SelectTypes, WalkInv
    PROVE  /\ Pushed \subseteq Deps(walk.txid) /\ IsFiniteSet(Pushed)
           /\ Cardinality(Pushed) \in Nat
           /\ Cardinality(Pushed) <= Cardinality(Deps(walk.txid))
<1>1. /\ walk.txid \in pool.txs /\ walk.visited \subseteq Deps(walk.txid)
      /\ IsFiniteSet(Deps(walk.txid))
      /\ \A a \in Deps(walk.txid) : Deps(a) \subseteq Deps(walk.txid)
  BY PoolIs DEF SelectTypes, WalkInv
<1>2. Pushed \subseteq Deps(walk.txid)
  BY <1>1 DEF Pushed
<1> QED
  BY <1>1, <1>2, FS_Subset, FS_CardinalityType

\* A walk that is not cut visits every ancestor, and it is not cut when the
\* ancestors are at most half as many as MAX_PACKAGE_DEPTH.
LEMMA WalkEnds ==
    ASSUME SelectTypes, WalkInv, walk # NoWalk, ~Walking,
           2 * Cardinality(Deps(walk.txid)) <= MaxPackageDepth
    PROVE  walk.visited = Deps(walk.txid)
<1> DEFINE A == Deps(walk.txid)
<1>1. /\ walk.stack \in Seq(pool.txs) /\ walk.depth \in Nat
      /\ walk.visited \subseteq A /\ A \subseteq walk.visited \cup Range(walk.stack)
      /\ walk.depth + Len(walk.stack) <= Cardinality(A) + Cardinality(Pushed)
      /\ MaxPackageDepth \in Nat
  BY SelectAssumption DEF SelectTypes, Walks, WalkInv
<1>2. Cardinality(A) \in Nat
  BY PoolIs DEF SelectTypes, WalkInv
<1>3. Cardinality(Pushed) \in Nat /\ Cardinality(Pushed) <= Cardinality(A)
  BY PushedIs
<1>4. Len(walk.stack) \in Nat
  BY <1>1
<1> HIDE DEF A
<1>5. walk.stack = <<>> \/ walk.depth >= MaxPackageDepth
  BY <1>1 DEF Walking
<1>6. walk.depth >= MaxPackageDepth => Len(walk.stack) = 0
  BY <1>1, <1>2, <1>3, <1>4 DEF A
<1>7. walk.stack = <<>>
  BY <1>1, <1>5, <1>6
<1>8. Range(walk.stack) = {}
  BY <1>7 DEF Range
<1> QED
  BY <1>1, <1>8 DEF A

LEMMA PopIs ==
    ASSUME SelectTypes, Pop
    PROVE  /\ walk' \in Walks /\ walk'.txid = walk.txid /\ walk'.depth = walk.depth + 1
           /\ walk.stack # <<>>
           /\ \/ /\ Last(walk.stack) \in walk.visited
                 /\ visited_packages' = visited_packages
                 /\ walk'.package = walk.package /\ walk'.visited = walk.visited
                 /\ walk'.stack = Front(walk.stack)
              \/ /\ Last(walk.stack) \notin walk.visited
                 /\ visited_packages' = visited_packages \cup {Last(walk.stack)}
                 /\ walk'.visited = walk.visited \cup {Last(walk.stack)}
                 /\ walk'.package = <<Last(walk.stack)>> \o walk.package
                 /\ \E more \in Orders(Deps(Last(walk.stack))) :
                       walk'.stack = Front(walk.stack) \o more
<1> DEFINE parent == Last(walk.stack)
           rest == [walk EXCEPT !.stack = Front(@), !.depth = @ + 1]
<1>1. /\ walk \in Walks /\ walk.stack # <<>>
      /\ \/ parent \in walk.visited /\ walk' = rest /\ UNCHANGED visited_packages
         \/ /\ parent \notin walk.visited
            /\ visited_packages' = visited_packages \cup {parent}
            /\ \E more \in Orders(Deps(parent)) :
                  walk' = [rest EXCEPT !.visited = @ \cup {parent},
                                       !.package = <<parent>> \o @,
                                       !.stack = @ \o more]
  BY DEF Pop, Walking, SelectTypes, Deps
<1>2. /\ walk.stack \in Seq(pool.txs) /\ walk.package \in Seq(pool.txs)
      /\ walk.visited \in SUBSET pool.txs /\ walk.depth \in Nat
      /\ walk.txid \in Nat \cup pool.txs
  BY <1>1 DEF Walks
<1>3. Front(walk.stack) \in Seq(pool.txs) /\ parent \in pool.txs
  BY <1>1, <1>2, RangeFront
<1>4. IsFiniteSet(Deps(parent)) /\ Deps(parent) \subseteq pool.txs
  BY <1>3, PoolIs DEF SelectTypes
<1> HIDE DEF parent
<1>5. /\ rest \in Walks /\ rest.txid = walk.txid /\ rest.depth = walk.depth + 1
      /\ rest.package = walk.package /\ rest.visited = walk.visited
      /\ rest.stack = Front(walk.stack)
  <2>0. walk = [txid |-> walk.txid, package |-> walk.package, stack |-> walk.stack,
                visited |-> walk.visited, depth |-> walk.depth]
    BY <1>1 DEF Walks
  <2>1. rest = [txid |-> walk.txid, package |-> walk.package, stack |-> Front(walk.stack),
                visited |-> walk.visited, depth |-> walk.depth + 1]
    <3> DEFINE F == Front(walk.stack)
               d == walk.depth + 1
    <3>1. rest = [walk EXCEPT !.stack = F, !.depth = d]
      OBVIOUS
    <3> HIDE DEF F, d, rest
    <3>2. rest = [txid |-> walk.txid, package |-> walk.package, stack |-> F,
                  visited |-> walk.visited, depth |-> d]
      BY ONLY <2>0, <3>1
    <3> QED
      BY <3>2 DEF F, d
  <2>2. walk.depth + 1 \in Nat
    BY <1>2
  <2> HIDE DEF rest
  <2> QED
    BY <1>2, <1>3, <2>1, <2>2 DEF Walks
<1> HIDE DEF rest
<1>6. CASE parent \in walk.visited
  BY <1>1, <1>5, <1>6 DEF parent
<1>7. CASE parent \notin walk.visited
  <2>1. PICK more \in Orders(Deps(parent)) :
          walk' = [rest EXCEPT !.visited = @ \cup {parent},
                               !.package = <<parent>> \o @,
                               !.stack = @ \o more]
    BY <1>1, <1>7
  <2>2. more \in Seq(Deps(parent))
    BY <1>4, OrdersAre
  <2>3. more \in Seq(pool.txs) /\ <<parent>> \in Seq(pool.txs)
    <3>1. more \in Seq(pool.txs)
      BY ONLY <1>4, <2>2, SeqOfSubset
    <3> QED
      BY <1>3, <3>1, SeqOfOne
  <2>4. /\ Front(walk.stack) \o more \in Seq(pool.txs)
        /\ <<parent>> \o walk.package \in Seq(pool.txs)
    BY <1>2, <1>3, <2>3, RangeConcat
  <2>5. /\ walk' \in Walks /\ walk'.txid = rest.txid /\ walk'.depth = rest.depth
        /\ walk'.visited = rest.visited \cup {parent}
        /\ walk'.package = <<parent>> \o rest.package
        /\ walk'.stack = rest.stack \o more
    BY <1>2, <1>3, <1>5, <2>1, <2>4 DEF Walks
  <2> QED
    BY <1>1, <1>5, <1>7, <2>5 DEF parent
<1> QED
  BY <1>6, <1>7

LEMMA PopWalks ==
    ASSUME SelectInv, Pop
    PROVE  SelectTypes' /\ WalkInv'
<1> DEFINE parent == Last(walk.stack)
           A == Deps(walk.txid)
<1>1. UNCHANGED <<pool, todo, selected, size, included>> /\ walk # NoWalk
  BY DEF Pop, Walking
<1>2. SelectTypes /\ WalkInv
  BY <1>1 DEF SelectInv
<1>3. /\ walk' \in Walks /\ walk'.txid = walk.txid /\ walk'.depth = walk.depth + 1
      /\ walk.stack # <<>> /\ walk.stack \in Seq(pool.txs) /\ walk.depth \in Nat
      /\ walk.package \in Seq(pool.txs)
  BY <1>2, PopIs DEF SelectTypes, Walks
<1>4. SelectTypes'
  BY <1>1, <1>2, <1>3 DEF SelectTypes, Walks
<1>5. \A x : Deps(x)' = Deps(x)
  BY <1>1 DEF Deps
<1>6. /\ walk.txid \in pool.txs \ todo /\ walk.visited \subseteq A
      /\ Range(walk.stack) \subseteq A /\ A \subseteq walk.visited \cup Range(walk.stack)
      /\ Range(walk.package) = {walk.txid} \cup walk.visited
      /\ \A i, j \in 1 .. Len(walk.package) : walk.package[i] = walk.package[j] => i = j
      /\ walk.depth + Len(walk.stack) <= Cardinality(A) + Cardinality(Pushed)
  BY <1>2 DEF WalkInv
<1>7. /\ Front(walk.stack) \in Seq(pool.txs) /\ Len(Front(walk.stack)) = Len(walk.stack) - 1
      /\ parent \in pool.txs /\ Range(walk.stack) = Range(Front(walk.stack)) \cup {parent}
      /\ Len(walk.stack) \in Nat
  BY <1>3, RangeFront
<1>8. /\ IsFiniteSet(A) /\ Cardinality(A) \in Nat /\ walk.txid \notin A
      /\ \A a \in A : Deps(a) \subseteq A
      /\ \A a, b \in A : a # b => Deps(a) \cap Deps(b) = {}
  BY <1>2, <1>6, PoolIs DEF SelectTypes
<1>9. IsFiniteSet(Pushed) /\ Cardinality(Pushed) \in Nat
  BY <1>2, PushedIs
<1> HIDE DEF A, parent
<1>10. CASE parent \in walk.visited
  <2>1. /\ walk'.package = walk.package /\ walk'.visited = walk.visited
        /\ walk'.stack = Front(walk.stack)
    BY <1>2, <1>10, PopIs DEF parent
  <2>2. Pushed' = Pushed
    BY <1>5, <2>1 DEF Pushed
  <2>3. walk'.depth + Len(walk'.stack) <= Cardinality(A) + Cardinality(Pushed)
    <3>1. walk'.depth + Len(walk'.stack) = walk.depth + Len(walk.stack)
      BY ONLY <1>3, <1>7, <2>1
    <3> QED
      BY <1>6, <3>1
  <2>4. A \subseteq walk'.visited \cup Range(walk'.stack) /\ Range(walk'.stack) \subseteq A
    BY <1>6, <1>7, <1>10, <2>1
  <2> QED
    BY <1>1, <1>3, <1>4, <1>5, <1>6, <2>1, <2>2, <2>3, <2>4 DEF WalkInv, A
<1>11. CASE parent \notin walk.visited
  <2>1. PICK more \in Orders(Deps(parent)) : walk'.stack = Front(walk.stack) \o more
    BY <1>2, <1>11, PopIs DEF parent
  <2>2. /\ walk'.visited = walk.visited \cup {parent}
        /\ walk'.package = <<parent>> \o walk.package
    BY <1>2, <1>11, PopIs DEF parent
  <2>3. parent \in A /\ Deps(parent) \subseteq A
    BY <1>6, <1>7, <1>8
  <2>4. IsFiniteSet(Deps(parent)) /\ Cardinality(Deps(parent)) \in Nat
    BY <1>2, <1>7, PoolIs DEF SelectTypes
  <2>5. /\ more \in Seq(Deps(parent)) /\ Len(more) = Cardinality(Deps(parent))
        /\ Range(more) = Deps(parent)
    BY <2>4, OrdersAre
  <2>6. more \in Seq(pool.txs) /\ <<parent>> \in Seq(pool.txs)
    <3>1. Deps(parent) \subseteq pool.txs
      BY <1>2, <1>7, PoolIs DEF SelectTypes
    <3>2. more \in Seq(pool.txs)
      BY ONLY <2>5, <3>1, SeqOfSubset
    <3> QED
      BY <1>7, <3>2, SeqOfOne
  <2>7. /\ Range(walk'.stack) = Range(Front(walk.stack)) \cup Deps(parent)
        /\ Len(walk'.stack) = (Len(walk.stack) - 1) + Cardinality(Deps(parent))
    BY ONLY <1>7, <2>1, <2>5, <2>6, RangeConcat
  <2>8. Range(walk'.package) = {parent} \cup Range(walk.package)
    <3>1. Range(<<parent>>) = {parent}
      BY DEF Range
    <3> QED
      BY ONLY <1>3, <2>2, <2>6, <3>1, RangeConcat
  <2>9. \A i, j \in 1 .. Len(walk'.package) : walk'.package[i] = walk'.package[j] => i = j
    <3>1. parent \notin Range(walk.package)
      BY <1>6, <1>8, <1>11, <2>3
    <3>2. \A i \in 1 .. Len(walk.package) : walk.package[i] # parent
      BY ONLY <1>3, <3>1 DEF Range
    <3> DEFINE p == walk.package
    <3>3. Len(p) \in Nat /\ Len(walk'.package) = Len(p) + 1 /\ walk'.package[1] = parent
      BY <1>3, <2>2
    <3>4. \A i \in 2 .. (Len(p) + 1) : i - 1 \in 1 .. Len(p) /\ walk'.package[i] = p[i - 1]
      BY <1>3, <2>2
    <3>5. \A i, j \in 1 .. Len(p) : p[i] = p[j] => i = j
      BY <1>6
    <3> DEFINE n == Len(p)
               q == walk'.package
    <3>6. \A i \in 1 .. n : p[i] # parent
      BY <3>2
    <3> HIDE DEF p, n, q
    <3>7. /\ n \in Nat /\ q[1] = parent
          /\ \A i \in 2 .. (n + 1) : i - 1 \in 1 .. n /\ q[i] = p[i - 1]
          /\ \A i, j \in 1 .. n : p[i] = p[j] => i = j
      BY <3>3, <3>4, <3>5 DEF n, q
    <3>8. ASSUME NEW i \in 1 .. (n + 1), NEW j \in 1 .. (n + 1), q[i] = q[j]
          PROVE  i = j
      <4>1. i = 1 \/ i \in 2 .. (n + 1)
        BY <3>7
      <4>2. j = 1 \/ j \in 2 .. (n + 1)
        BY <3>7
      <4>3. CASE i \in 2 .. (n + 1) /\ j \in 2 .. (n + 1)
        <5>1. i - 1 = j - 1
          BY ONLY <3>7, <3>8, <4>3
        <5> QED
          BY ONLY <3>7, <4>3, <5>1
      <4>4. CASE i = 1 /\ j \in 2 .. (n + 1)
        BY ONLY <3>6, <3>7, <3>8, <4>4
      <4>5. CASE j = 1 /\ i \in 2 .. (n + 1)
        BY ONLY <3>6, <3>7, <3>8, <4>5
      <4> QED
        BY ONLY <4>1, <4>2, <4>3, <4>4, <4>5
    <3> QED
      BY <3>3, <3>8 DEF n, q
  <2>10. Pushed' = Pushed \cup Deps(parent)
    BY <1>5, <2>2 DEF Pushed
  <2>11. Pushed \cap Deps(parent) = {}
    BY <1>6, <1>8, <1>11, <2>3 DEF Pushed
  <2>12. Cardinality(Pushed') = Cardinality(Pushed) + Cardinality(Deps(parent))
    <3>1. Cardinality(Pushed \cup Deps(parent))
            = Cardinality(Pushed) + Cardinality(Deps(parent)) - Cardinality({})
      BY <1>9, <2>4, <2>11, FS_Union
    <3> QED
      BY <1>9, <2>4, <2>10, <3>1, FS_EmptySet
  <2>13. walk'.depth + Len(walk'.stack) <= Cardinality(A) + Cardinality(Pushed')
    <3>1. walk'.depth = walk.depth + 1 /\ walk.depth \in Nat
      BY <1>3
    <3>2. walk.depth + Len(walk.stack) <= Cardinality(A) + Cardinality(Pushed)
      BY <1>6
    <3>3. Len(walk.stack) \in Nat /\ Cardinality(A) \in Nat /\ Cardinality(Pushed) \in Nat
      BY <1>7, <1>8, <1>9
    <3>4. Len(walk'.stack) = (Len(walk.stack) - 1) + Cardinality(Deps(parent))
      BY <2>7
    <3>5. Cardinality(Deps(parent)) \in Nat
      BY <2>4
    <3> QED
      BY ONLY <2>12, <3>1, <3>2, <3>3, <3>4, <3>5
  <2>14. /\ walk'.visited \subseteq A /\ Range(walk'.stack) \subseteq A
         /\ A \subseteq walk'.visited \cup Range(walk'.stack)
         /\ Range(walk'.package) = {walk.txid} \cup walk'.visited
    BY <1>6, <1>7, <2>2, <2>3, <2>7, <2>8
  <2> QED
    BY <1>1, <1>3, <1>4, <1>5, <1>6, <2>9, <2>13, <2>14 DEF WalkInv, A
<1> QED
  BY <1>10, <1>11

LEMMA BeginWalks ==
    ASSUME SelectTypes, Begin
    PROVE  SelectTypes' /\ WalkInv'
<1>0. PICK t \in todo : \E stack \in Orders(pool.depends_on[t]) :
        /\ todo' = todo \ {t}
        /\ walk' = [NoWalk EXCEPT !.txid = t, !.package = <<t>>, !.stack = stack]
        /\ UNCHANGED <<pool, selected, size, included, visited_packages>>
  BY DEF Begin
<1>1. PICK stack \in Orders(pool.depends_on[t]) :
        /\ todo' = todo \ {t}
        /\ walk' = [NoWalk EXCEPT !.txid = t, !.package = <<t>>, !.stack = stack]
        /\ UNCHANGED <<pool, selected, size, included, visited_packages>>
  BY <1>0
<1>2. t \in pool.txs /\ IsFiniteSet(Deps(t)) /\ Deps(t) \subseteq pool.txs
  BY PoolIs DEF SelectTypes
<1>3. /\ stack \in Seq(Deps(t)) /\ Len(stack) = Cardinality(Deps(t))
      /\ Range(stack) = Deps(t) /\ Cardinality(Deps(t)) \in Nat
  BY <1>2, OrdersAre, FS_CardinalityType DEF Deps
<1>4. walk' = [txid |-> t, package |-> <<t>>, stack |-> stack, visited |-> {}, depth |-> 0]
  BY <1>1 DEF NoWalk
<1>5. <<t>> \in Seq(pool.txs) /\ stack \in Seq(pool.txs)
  <2>1. stack \in Seq(pool.txs)
    BY ONLY <1>2, <1>3, SeqOfSubset
  <2> QED
    BY <1>2, <2>1, SeqOfOne
<1>6. SelectTypes'
  <2>1. walk' \in Walks
    BY <1>2, <1>4, <1>5 DEF Walks
  <2> QED
    BY <1>1, <2>1 DEF SelectTypes, Walks
<1>7. /\ walk'.txid = t /\ walk'.package = <<t>> /\ walk'.stack = stack
      /\ walk'.visited = {} /\ walk'.depth = 0
  BY <1>4
<1>8. Pushed' = {}
  BY <1>7 DEF Pushed
<1>9. \A x : Deps(x)' = Deps(x)
  BY <1>1 DEF Deps
<1>10. Range(<<t>>) = {t} /\ Len(<<t>>) = 1 /\ \A i \in 1 .. 1 : i = 1
  BY DEF Range
<1>11. walk'.depth + Len(walk'.stack) <= Cardinality(Deps(t)) + Cardinality(Pushed')
  <2>1. Cardinality(Pushed') = 0
    BY ONLY <1>8, FS_EmptySet
  <2>2. walk'.depth = 0 /\ Len(walk'.stack) = Cardinality(Deps(t))
    BY <1>3, <1>7
  <2>3. Cardinality(Deps(t)) \in Nat
    BY <1>3
  <2> QED
    BY ONLY <2>1, <2>2, <2>3
<1>12. t \in pool.txs \ todo'
  BY <1>1, <1>2
<1>13. \A i, j \in 1 .. Len(walk'.package) : walk'.package[i] = walk'.package[j] => i = j
  BY <1>7, <1>10
<1> QED
  BY <1>1, <1>3, <1>6, <1>7, <1>9, <1>10, <1>11, <1>12, <1>13 DEF WalkInv

\* The bytes of a sequence of pooled transactions.
LEMMA BytesAre ==
    ASSUME pool \in Pools, NEW s \in Seq(pool.txs)
    PROVE  s \in Seq(DOMAIN Size) /\ Bytes(s) = Weigh(Size, s) /\ Bytes(s) \in Nat
<1>1. pool.txs \subseteq DOMAIN Size /\ Size \in [DOMAIN Size -> Nat]
  BY PoolIs
<1>2. s \in Seq(DOMAIN Size)
  BY ONLY <1>1, s \in Seq(pool.txs), SeqOfSubset
<1>3. Bytes(s) = Weigh(Size, s)
  BY DEF Bytes, Weigh
<1> QED
  BY <1>1, <1>2, <1>3, WeightsAre

LEMMA BytesConcat ==
    ASSUME pool \in Pools, NEW s \in Seq(pool.txs), NEW t \in Seq(pool.txs)
    PROVE  Bytes(s \o t) = Bytes(s) + Bytes(t)
<1>1. s \o t \in Seq(pool.txs)
  BY RangeConcat
<1>2. /\ Bytes(s) = Weigh(Size, s) /\ Bytes(t) = Weigh(Size, t)
      /\ Bytes(s \o t) = Weigh(Size, s \o t)
      /\ s \in Seq(DOMAIN Size) /\ t \in Seq(DOMAIN Size) /\ Size \in [DOMAIN Size -> Nat]
  BY <1>1, BytesAre, PoolIs
<1>3. Weigh(Size, s \o t) = Weigh(Size, s) + Weigh(Size, t)
  BY ONLY <1>2, WeighConcat
<1> QED
  BY <1>2, <1>3

LEMMA CloseSelects ==
    ASSUME SelectInv, Close
    PROVE  SelectTypes' /\ SelectionSound'
<1>1. /\ walk # NoWalk /\ ~Walking /\ walk' = NoWalk /\ UNCHANGED <<pool, todo>>
      /\ SelectTypes /\ WalkInv /\ SelectionSound
  BY DEF Close, SelectInv
<1>2. walk' \in Walks
  BY <1>1 DEF NoWalk, Walks
<1>3. CASE ~Fits
  <2>1. UNCHANGED <<selected, size, included>>
    BY <1>3 DEF Close
  <2>2. SelectTypes'
    BY <1>1, <1>2, <2>1 DEF SelectTypes, Walks
  <2>3. SelectionSound'
    BY <1>1, <2>1 DEF SelectionSound, SelectionFits, AncestorsSelected, Related
  <2> QED
    BY <2>2, <2>3
<1>4. CASE Fits
  <2>1. /\ selected' = selected \o walk.package /\ size' = size + Bytes(walk.package)
        /\ included' = included \cup Range(walk.package)
    BY <1>4 DEF Close
  <2>2. /\ selected \in Seq(pool.txs) /\ walk.package \in Seq(pool.txs) /\ pool \in Pools
        /\ included = Range(selected)
    BY <1>1 DEF SelectTypes, Walks
  <2>3. /\ selected' \in Seq(pool.txs)
        /\ Range(selected') = Range(selected) \cup Range(walk.package)
    BY <2>1, <2>2, RangeConcat
  <2>4. SelectTypes'
    BY <1>1, <1>2, <2>1, <2>2, <2>3 DEF SelectTypes, Walks
  <2>5. SelectionFits'
    <3>1. Bytes(selected') = Bytes(selected) + Bytes(walk.package)
      BY <2>1, <2>2, BytesConcat
    <3>2. Bytes(walk.package) \in Nat /\ Bytes(selected) \in Nat
      BY <2>2, BytesAre
    <3>3. Bytes(selected) = size /\ Bytes(walk.package) <= MaxSize - size
      BY <1>1, <1>4 DEF SelectionSound, SelectionFits, Fits
    <3>4. MaxSize \in Nat
      BY SelectAssumption
    <3>5. Bytes(selected') = size' /\ size' <= MaxSize
      BY <2>1, <3>1, <3>2, <3>3, <3>4
    <3> QED
      BY <3>5 DEF SelectionFits
  <2>6. ASSUME NEW t \in Range(selected'),
               \A u \in Related(t) : 2 * Cardinality(pool.depends_on[u]) <= MaxPackageDepth
        PROVE  pool.depends_on[t] \subseteq Range(selected')
    <3>1. CASE t \in Range(selected)
      BY <1>1, <2>3, <2>6, <3>1 DEF SelectionSound, AncestorsSelected
    <3>2. CASE t \in Range(walk.package)
      <4>1. /\ walk.txid \in pool.txs /\ Range(walk.package) = {walk.txid} \cup walk.visited
            /\ walk.visited \subseteq Deps(walk.txid)
        BY <1>1 DEF WalkInv
      <4>2. walk.txid \in Related(t)
        BY <3>2, <4>1 DEF Related, Deps
      <4>3. walk.visited = Deps(walk.txid)
        BY <1>1, <2>6, <4>2, WalkEnds DEF Deps
      <4>4. Deps(t) \subseteq Deps(walk.txid)
        BY <2>2, <3>2, <4>1, PoolIs
      <4> QED
        BY <2>3, <4>1, <4>3, <4>4 DEF Deps
    <3> QED
      BY <2>3, <3>1, <3>2
  <2>7. AncestorsSelected'
    BY <1>1, <2>6 DEF AncestorsSelected, Related
  <2> QED
    BY <2>4, <2>5, <2>7 DEF SelectionSound
<1> QED
  BY <1>3, <1>4

LEMMA SelectStep == SelectInv /\ [SelectNext]_select_vars => SelectInv'
<1> SUFFICES ASSUME SelectInv, [SelectNext]_select_vars
             PROVE  SelectInv'
  OBVIOUS
<1>0. ASSUME UNCHANGED <<pool, selected, size>>
      PROVE  SelectionSound'
  BY <1>0 DEF SelectInv, SelectionSound, SelectionFits, AncestorsSelected, Related
<1>1. CASE Stop \/ Skip
  <2>1. /\ todo' \subseteq todo /\ walk = NoWalk
        /\ UNCHANGED <<pool, selected, size, included, walk>>
    BY <1>1 DEF Stop, Skip
  <2> QED
    BY <1>0, <2>1 DEF SelectInv, SelectTypes, Walks
<1>2. CASE Begin
  <2>1. UNCHANGED <<pool, selected, size>>
    BY <1>2 DEF Begin
  <2> QED
    BY <1>0, <1>2, <2>1, BeginWalks DEF SelectInv
<1>3. CASE Pop
  <2>1. UNCHANGED <<pool, selected, size>>
    BY <1>3 DEF Pop
  <2> QED
    BY <1>0, <1>3, <2>1, PopWalks DEF SelectInv
<1>4. CASE Close
  <2>1. walk' = NoWalk
    BY <1>4 DEF Close
  <2> QED
    BY <1>4, <2>1, CloseSelects DEF SelectInv
<1>5. CASE UNCHANGED select_vars
  <2>1. UNCHANGED <<pool, selected, size, walk, todo, included>>
    BY <1>5 DEF select_vars
  <2>2. WalkInv' = WalkInv
    <3>1. (\A x : Deps(x)' = Deps(x)) /\ Pushed' = Pushed
      BY ONLY <2>1 DEF Deps, Pushed
    <3> QED
      BY ONLY <2>1, <3>1 DEF WalkInv
  <2> QED
    BY <1>0, <2>1, <2>2 DEF SelectInv, SelectTypes, Walks
<1> QED
  BY <1>1, <1>2, <1>3, <1>4, <1>5 DEF SelectNext

LEMMA SelectAlways == SelectSpec => []SelectInv
<1>1. SelectInit => SelectInv
  <2> SUFFICES ASSUME SelectInit
               PROVE  SelectInv
    OBVIOUS
  <2>1. /\ pool \in Pools /\ todo = pool.txs /\ selected = <<>> /\ size = 0
        /\ included = {} /\ walk = NoWalk
    BY DEF SelectInit
  <2>2. Range(<<>>) = {} /\ <<>> \in Seq(pool.txs) /\ <<>> \in Seq(DOMAIN Size)
    BY DEF Range
  <2>3. SelectTypes
    BY <2>1, <2>2 DEF SelectTypes, Walks, NoWalk
  <2>4. Bytes(<<>>) = 0
    <3>1. /\ Bytes(<<>>) = Weigh(Size, <<>>) /\ Size \in [DOMAIN Size -> Nat]
          /\ <<>> \in Seq(DOMAIN Size)
      BY <2>1, <2>2, BytesAre, PoolIs
    <3>2. Weigh(Size, <<>>) = SumOver(Weights(Size, <<>>), 1 .. Len(<<>>))
      BY ONLY <3>1, WeightsAre
    <3>3. 1 .. Len(<<>>) = {}
      OBVIOUS
    <3> QED
      BY <3>1, <3>2, <3>3, SumEmpty
  <2>5. SelectionSound
    BY <2>1, <2>2, <2>4, SelectAssumption
       DEF SelectionSound, SelectionFits, AncestorsSelected
  <2> QED
    BY <2>1, <2>3, <2>5 DEF SelectInv
<1> QED
  BY <1>1, SelectStep, PTL DEF SelectSpec

\* What select_txs returns fits in the block, so that max_size - size does not
\* wrap (mempool.rs 257), and holds the ancestors of all it holds, whatever
\* order the sets are walked in (246-256).
THEOREM SelectionAlwaysSound == SelectSpec => []SelectionSound
<1>1. SelectInv => SelectionSound
  BY DEF SelectInv
<1> QED
  BY <1>1, SelectAlways, PTL

-----------------------------------------------------------------------------
(* Nothing is left out *)

Packs == [t \in pool.txs |-> SumOver(Size, Package(t))]

\* The condition of NothingLeftOut on the pool.
Roomy ==
    /\ SumOver(Packs, pool.txs) <= MaxSize
    /\ \A t \in pool.txs : Packs[t] <= MaxPackageSize
                           /\ 2 * Cardinality(pool.depends_on[t]) <= MaxPackageDepth

LEMMA PacksAre ==
    ASSUME pool \in Pools
    PROVE  /\ Packs \in [pool.txs -> Nat]
           /\ \A t \in pool.txs : /\ Packs[t] = PackageSize(t) /\ Packs[t] # 0
                                  /\ PackageSize(t) = SumOver(Size, Package(t))
                                  /\ Package(t) \subseteq pool.txs /\ IsFiniteSet(Package(t))
<1>1. ASSUME NEW t \in pool.txs
      PROVE  /\ Package(t) \subseteq pool.txs /\ IsFiniteSet(Package(t))
             /\ PackageSize(t) = SumOver(Size, Package(t))
             /\ PackageSize(t) \in Nat \ {0}
  <2>1. /\ IsFiniteSet(pool.txs) /\ pool.txs \subseteq DOMAIN Size
        /\ Size \in [DOMAIN Size -> Nat] /\ Size[t] \in Nat \ {0}
        /\ Deps(t) \subseteq pool.txs
    BY PoolIs
  <2>2. Package(t) \in SUBSET pool.txs /\ t \in Package(t)
    BY <2>1 DEF Package, Deps
  <2>3. IsFiniteSet(Package(t))
    BY <2>1, <2>2, FS_Subset
  <2>4. PackageSize(t) = SumOver(Size, Package(t))
    BY DEF PackageSize, SumOver
  <2> DEFINE P == Package(t)
             E == DOMAIN Size
  <2>5. P \in SUBSET E /\ t \in P /\ IsFiniteSet(P) /\ Size \in [E -> Nat]
    BY <2>1, <2>2, <2>3
  <2> HIDE DEF P, E
  <2>6. SumOver(Size, P) = SumOver(Size, P \ {t}) + Size[t]
    BY ONLY <2>5, SumTake
  <2>7. P \ {t} \in SUBSET E /\ IsFiniteSet(P \ {t})
    BY <2>5, FS_RemoveElement
  <2>8. SumOver(Size, P \ {t}) \in Nat
    BY ONLY <2>5, <2>7, SumNat
  <2>9. SumOver(Size, P) \in Nat \ {0}
    BY <2>1, <2>6, <2>8
  <2> QED
    BY <2>2, <2>3, <2>4, <2>9 DEF P
<1> QED
  BY <1>1 DEF Packs

LEMMA PacksAreSum ==
    ASSUME pool \in Pools
    PROVE  MapThenSumSet(PackageSize, pool.txs) = SumOver(Packs, pool.txs)
<1> DEFINE S == pool.txs
           w == Packs
           F(g) == [t \in SUBSET S |->
                      IF t = {} THEN 0 ELSE PackageSize(Pick(t)) + g[t \ {Pick(t)}]]
           h == [t \in SUBSET S |-> SumOver(w, t)]
           c == CHOOSE g : g = F(g)
<1>1. w \in [S -> Nat] /\ IsFiniteSet(S) /\ \A t \in S : w[t] = PackageSize(t)
  BY PacksAre, PoolIs
<1>2. MapThenSumSet(PackageSize, S) = c[S]
  BY Zenon DEF MapThenSumSet, MapThenFoldSet, Pick
<1> HIDE DEF S, w
<1>3. \A t \in SUBSET S : t # {} => Pick(t) \in S /\ t \ {Pick(t)} \in SUBSET S
  BY PickIn
<1>4. h = F(h)
  <2>1. ASSUME NEW t \in SUBSET S
        PROVE  SumOver(w, t) = IF t = {} THEN 0 ELSE PackageSize(Pick(t)) + h[t \ {Pick(t)}]
    <3>1. CASE t = {}
      BY <3>1, SumEmpty
    <3>2. CASE t # {}
      <4>1. IsFiniteSet(t)
        BY <1>1, FS_Subset
      <4>2. SumOver(w, t) = w[Pick(t)] + SumOver(w, t \ {Pick(t)})
        BY <3>2, <4>1, SumStep
      <4> QED
        BY <1>1, <1>3, <3>2, <4>2
    <3> QED
      BY <3>1, <3>2
  <2> QED
    BY <2>1
<1> HIDE DEF F, h
<1>5. c = F(c)
  BY <1>4
<1> HIDE DEF c
<1>6. \A t \in SUBSET S :
        c[t] = IF t = {} THEN 0 ELSE PackageSize(Pick(t)) + c[t \ {Pick(t)}]
  BY <1>5 DEF F
<1>7. c[{}] = 0 /\ \A t \in SUBSET S : t # {} => c[t] = w[Pick(t)] + c[t \ {Pick(t)}]
  BY <1>1, <1>3, <1>6
<1>8. c[S] = SumOver(w, S)
  BY <1>1, <1>7, PickFold
<1> QED
  BY <1>2, <1>8 DEF S, w

\* The transactions whose turn is over, and what a roomy pool has made of them.
Gone == (pool.txs \ todo) \ (IF walk = NoWalk THEN {} ELSE {walk.txid})

RoomInv ==
    Roomy => /\ Gone \subseteq Range(selected)
             /\ visited_packages \subseteq Range(selected) \cup walk.visited
             /\ size <= SumOver(Packs, Gone)

\* There is room for the package of t besides those of T.
LEMMA RoomFor ==
    ASSUME pool \in Pools, Roomy, NEW T \in SUBSET pool.txs, NEW t \in pool.txs \ T
    PROVE  /\ SumOver(Packs, T \cup {t}) = SumOver(Packs, T) + PackageSize(t)
           /\ SumOver(Packs, T) \in Nat /\ PackageSize(t) \in Nat \ {0}
           /\ SumOver(Packs, T) + PackageSize(t) <= MaxSize
<1> DEFINE S == pool.txs
           U == T \cup {t}
<1>1. /\ Packs \in [S -> Nat] /\ IsFiniteSet(S) /\ Packs[t] = PackageSize(t)
      /\ Packs[t] # 0
  BY PacksAre, PoolIs
<1>2. SumOver(Packs, S) <= MaxSize /\ MaxSize \in Nat
  BY SelectAssumption DEF Roomy
<1>3. U \in SUBSET S /\ T \in SUBSET S /\ U \ {t} = T /\ t \in U /\ S \in SUBSET S
  OBVIOUS
<1> HIDE DEF S, U
<1>4. IsFiniteSet(U) /\ IsFiniteSet(T)
  BY ONLY <1>1, <1>3, FS_Subset
<1>5. SumOver(Packs, U) = SumOver(Packs, U \ {t}) + Packs[t]
  BY ONLY <1>1, <1>3, <1>4, SumTake
<1>6. SumOver(Packs, U) = SumOver(Packs, T) + Packs[t]
  BY ONLY <1>3, <1>5, Zenon
<1>7. SumOver(Packs, U) <= SumOver(Packs, S)
  BY ONLY <1>1, <1>3, SumDifference
<1>8. SumOver(Packs, T) \in Nat
  BY ONLY <1>1, <1>3, <1>4, SumNat
<1>9. SumOver(Packs, S) \in Nat
  BY ONLY <1>1, <1>3, SumNat
<1>10. Packs[t] \in Nat
  BY ONLY <1>1, <1>3
<1> QED
  BY ONLY <1>1, <1>2, <1>6, <1>7, <1>8, <1>9, <1>10 DEF U

LEMMA WalkIsOn ==
    ASSUME NEW w, Range(w.package) # {}
    PROVE  w # NoWalk
<1>1. Range(NoWalk.package) = {}
  BY DEF NoWalk, Range
<1> QED
  BY <1>1

\* A package that was walked to its end is the transaction and its ancestors.
LEMMA WholePackage ==
    ASSUME SelectTypes, WalkInv, walk.visited = Deps(walk.txid)
    PROVE  Bytes(walk.package) = PackageSize(walk.txid)
<1> DEFINE p == walk.package
           P == Package(walk.txid)
<1>1. /\ pool \in Pools /\ p \in Seq(pool.txs) /\ walk.txid \in pool.txs
      /\ Range(p) = P /\ \A i, j \in 1 .. Len(p) : p[i] = p[j] => i = j
  BY DEF SelectTypes, Walks, WalkInv, Package, Deps
<1>2. /\ Bytes(p) = Weigh(Size, p) /\ p \in Seq(DOMAIN Size)
      /\ Size \in [DOMAIN Size -> Nat] /\ PackageSize(walk.txid) = SumOver(Size, P)
  BY <1>1, BytesAre, PoolIs, PacksAre
<1>3. P = {p[i] : i \in 1 .. Len(p)}
  BY <1>1 DEF Range
<1> HIDE DEF p, P
<1>4. \A i, j \in 1 .. Len(p) : p[i] = p[j] => i = j
  BY <1>1
<1>5. Weigh(Size, p) = SumOver(Size, P)
  BY ONLY <1>2, <1>3, <1>4, WeighInjective
<1> QED
  BY <1>2, <1>5 DEF p

LEMMA RoomStep ==
    ASSUME SelectInv, RoomInv, [SelectNext]_select_vars
    PROVE  RoomInv'
<1>1. pool' = pool
  BY DEF SelectNext, Stop, Skip, Begin, Pop, Close, select_vars
<1>2. Packs' = Packs /\ Roomy' = Roomy
  <2>1. Packs' = Packs
    BY <1>1 DEF Packs, Package
  <2> QED
    BY <1>1, <2>1 DEF Roomy
<1>3. SUFFICES ASSUME Roomy
               PROVE  /\ Gone' \subseteq Range(selected)'
                      /\ visited_packages' \subseteq Range(selected)' \cup walk'.visited
                      /\ size' <= SumOver(Packs, Gone')
  BY <1>2 DEF RoomInv
<1>4. /\ Gone \subseteq Range(selected)
      /\ visited_packages \subseteq Range(selected) \cup walk.visited
      /\ size <= SumOver(Packs, Gone) /\ Gone \in SUBSET pool.txs
  BY <1>3 DEF RoomInv, Gone
<1>5. /\ pool \in Pools /\ todo \subseteq pool.txs /\ selected \in Seq(pool.txs)
      /\ included = Range(selected) /\ SelectTypes /\ MaxSize \in Nat
      /\ size \in Nat /\ (walk # NoWalk => WalkInv)
  <2>1. Bytes(selected) \in Nat /\ Bytes(selected) = size
    BY BytesAre DEF SelectInv, SelectTypes, SelectionSound, SelectionFits
  <2> QED
    BY <2>1, SelectAssumption DEF SelectInv, SelectTypes
<1>6. NoWalk.visited = {}
  BY DEF NoWalk
<1>7. CASE Stop
  <2>1. PICK t \in todo : walk = NoWalk /\ Full(t)
    BY <1>7 DEF Stop
  <2>2. t \in pool.txs \ Gone /\ size >= MaxSize
    BY <1>5, <2>1 DEF Gone, Full
  <2>3. /\ SumOver(Packs, Gone) \in Nat /\ PackageSize(t) \in Nat \ {0}
        /\ SumOver(Packs, Gone) + PackageSize(t) <= MaxSize
    BY <1>3, <1>4, <1>5, <2>2, RoomFor
  <2> QED
    BY ONLY <1>4, <1>5, <2>2, <2>3
<1>8. CASE Skip
  <2>1. PICK t \in todo :
          /\ walk = NoWalk /\ Skipped(t) /\ todo' = todo \ {t}
          /\ UNCHANGED <<pool, selected, size, included, visited_packages, walk>>
    BY <1>8 DEF Skip
  <2>2. t \in pool.txs \ Gone /\ Gone' = Gone \cup {t}
    BY <1>5, <2>1 DEF Gone
  <2>3. t \in Range(selected)
    BY <1>4, <1>5, <1>6, <2>1 DEF Skipped
  <2>4. size <= SumOver(Packs, Gone')
    <3>1. /\ SumOver(Packs, Gone \cup {t}) = SumOver(Packs, Gone) + PackageSize(t)
          /\ SumOver(Packs, Gone) \in Nat /\ PackageSize(t) \in Nat
      BY <1>3, <1>4, <1>5, <2>2, RoomFor
    <3>2. SumOver(Packs, Gone') = SumOver(Packs, Gone) + PackageSize(t)
      BY ONLY <2>2, <3>1, Zenon
    <3> QED
      BY ONLY <1>4, <1>5, <3>1, <3>2
  <2> QED
    BY <1>4, <2>1, <2>2, <2>3, <2>4
<1>9. CASE Begin
  <2>1. PICK t \in todo : \E stack \in Orders(pool.depends_on[t]) :
          /\ walk = NoWalk /\ todo' = todo \ {t}
          /\ walk' = [NoWalk EXCEPT !.txid = t, !.package = <<t>>, !.stack = stack]
          /\ UNCHANGED <<pool, selected, size, included, visited_packages>>
    BY <1>9 DEF Begin
  <2>2. walk'.txid = t /\ walk'.visited = {}
    BY <2>1 DEF NoWalk
  <2>3. walk' # NoWalk
    BY <1>5, <1>9, BeginWalks, WalkIsOn DEF WalkInv
  <2>4. Gone' = Gone
    BY <1>5, <2>1, <2>2, <2>3 DEF Gone
  <2>5. visited_packages' \subseteq Range(selected)' \cup walk'.visited
    BY <1>4, <1>6, <2>1, <2>2
  <2>6. size' <= SumOver(Packs, Gone')
    BY <1>4, <2>1, <2>4
  <2> QED
    BY <1>4, <2>1, <2>4, <2>5, <2>6
<1>10. CASE Pop
  <2>1. UNCHANGED <<pool, todo, selected, size, included>> /\ walk # NoWalk
    BY <1>10 DEF Pop, Walking
  <2>2. walk' # NoWalk
    BY <1>10, PopWalks, WalkIsOn DEF WalkInv
  <2>3. /\ walk'.txid = walk.txid
        /\ \/ walk'.visited = walk.visited /\ visited_packages' = visited_packages
           \/ \E x : /\ walk'.visited = walk.visited \cup {x}
                     /\ visited_packages' = visited_packages \cup {x}
    BY <1>5, <1>10, PopIs
  <2>4. Gone' = Gone
    BY <2>1, <2>2, <2>3 DEF Gone
  <2>5. visited_packages' \subseteq Range(selected)' \cup walk'.visited
    BY <1>4, <2>1, <2>3
  <2>6. size' <= SumOver(Packs, Gone')
    BY <1>4, <2>1, <2>4
  <2> QED
    BY <1>4, <2>1, <2>4, <2>5, <2>6
<1>11. CASE Close
  <2> DEFINE t == walk.txid
  <2>1. walk # NoWalk /\ ~Walking /\ walk' = NoWalk /\ UNCHANGED <<pool, todo, visited_packages>>
    BY <1>11 DEF Close
  <2>2. /\ t \in pool.txs \ todo /\ walk.package \in Seq(pool.txs)
        /\ Range(walk.package) = {t} \cup walk.visited
    BY <1>5, <2>1 DEF WalkInv, SelectTypes, Walks
  <2>3. t \in pool.txs \ Gone /\ Gone' = Gone \cup {t}
    BY <2>1, <2>2 DEF Gone
  <2>4. PackageSize(t) <= MaxPackageSize /\ walk.visited = Deps(t)
    BY <1>3, <1>5, <2>1, <2>2, WalkEnds, PacksAre DEF Roomy, Deps
  <2>5. Bytes(walk.package) = PackageSize(t)
    BY <1>5, <2>1, <2>4, WholePackage
  <2> HIDE DEF t
  <2>6. /\ SumOver(Packs, Gone \cup {t}) = SumOver(Packs, Gone) + PackageSize(t)
        /\ SumOver(Packs, Gone) \in Nat /\ PackageSize(t) \in Nat
        /\ SumOver(Packs, Gone) + PackageSize(t) <= MaxSize
    BY <1>3, <1>4, <1>5, <2>3, RoomFor
  <2>7. Fits
    BY ONLY <1>4, <1>5, <2>4, <2>5, <2>6 DEF Fits
  <2>8. selected' = selected \o walk.package /\ size' = size + PackageSize(t)
    BY <1>11, <2>5, <2>7 DEF Close
  <2>9. Range(selected') = Range(selected) \cup Range(walk.package)
    BY <1>5, <2>2, <2>8, RangeConcat
  <2>10. SumOver(Packs, Gone') = SumOver(Packs, Gone) + PackageSize(t)
    BY ONLY <2>3, <2>6, Zenon
  <2>11. size' <= SumOver(Packs, Gone')
    <3>1. size <= SumOver(Packs, Gone) /\ size \in Nat
      BY <1>4, <1>5
    <3>2. SumOver(Packs, Gone) \in Nat /\ PackageSize(t) \in Nat
      BY <2>6
    <3> QED
      BY ONLY <2>8, <2>10, <3>1, <3>2
  <2>12. Gone' \subseteq Range(selected')
    BY <1>4, <2>2, <2>3, <2>9
  <2>13. visited_packages' \subseteq Range(selected')
    BY <1>4, <2>1, <2>2, <2>9
  <2> QED
    BY <2>11, <2>12, <2>13
<1>12. CASE UNCHANGED select_vars
  <2>1. UNCHANGED <<selected, visited_packages, walk, size>> /\ Gone' = Gone
    BY <1>12 DEF select_vars, Gone
  <2>2. size' <= SumOver(Packs, Gone')
    BY <1>4, <2>1
  <2> QED
    BY <1>4, <2>1, <2>2
<1> QED
  BY <1>7, <1>8, <1>9, <1>10, <1>11, <1>12 DEF SelectNext

\* With room for every package select_txs returns the whole mempool: no
\* transaction is passed over for a package that was not taken, and no walk is
\* cut (mempool.rs 227-263).
THEOREM NothingEverLeftOut == SelectSpec => []NothingLeftOut
<1>1. SelectInit => RoomInv
  <2> SUFFICES ASSUME SelectInit, Roomy
               PROVE  /\ Gone \subseteq Range(selected)
                      /\ visited_packages \subseteq Range(selected) \cup walk.visited
                      /\ size <= SumOver(Packs, Gone)
    BY DEF RoomInv
  <2>1. Gone = {}
    BY DEF SelectInit, Gone
  <2>2. SumOver(Packs, Gone) = 0
    BY <2>1, SumEmpty
  <2> QED
    BY <2>1, <2>2 DEF SelectInit
<1>2. SelectInv /\ RoomInv /\ [SelectNext]_select_vars => RoomInv'
  BY RoomStep
<1>3. SelectInv /\ RoomInv => NothingLeftOut
  <2> SUFFICES ASSUME SelectInv, RoomInv, Done, Roomy
               PROVE  Range(selected) = pool.txs
    BY PacksAre, PacksAreSum DEF NothingLeftOut, Roomy, SelectInv, SelectTypes
  <2>1. Gone = pool.txs
    BY DEF Gone, Done
  <2>2. Range(selected) \subseteq pool.txs
    BY DEF SelectInv, SelectTypes, Range
  <2> QED
    BY <2>1, <2>2 DEF RoomInv
<1> QED
  BY <1>1, <1>2, <1>3, SelectAlways, PTL DEF SelectSpec
=============================================================================
