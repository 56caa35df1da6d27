------------------------------ MODULE Mempool ------------------------------
(***************************************************************************)
(* The mempool (src/111/src/mempool.rs) and the task that expires its      *)
(* transactions (src/111/src/main.rs).                                     *)
(*                                                                         *)
(* Every caller holds the write lock of the mempool (the read lock for     *)
(* select_txs), so each call is one step.  What the database holds when a  *)
(* transaction is inserted is the caller's business: each insert reads an  *)
(* arbitrary set of stored outputs.                                        *)
(*                                                                         *)
(* Left out because nothing the program executes reads them: heap, lru,    *)
(* expiration_index, FEE_CACHE, the metrics and the value of avg_fee.  Two *)
(* things about avg_fee do matter.  insert still holds its lock when it    *)
(* evicts or removes, and both lock it again, so that such an insert never *)
(* returns; and remove divides by the number of transactions that are      *)
(* left, so that removing the last one panics, which in a release build    *)
(* ends the process (panic = "abort" in src/111/Cargo.toml).               *)
(***************************************************************************)
EXTENDS Integers, FiniteSets, Sequences, FiniteSetsExt, SequencesExt

CONSTANTS
    TxIds,        \* transaction ids; an id identifies its transaction
    Outpoints,    \* outputs that transactions spend
    Source,       \* the transaction of an output: an id, or None if it is none
                  \* of TxIds
    Inputs,       \* tx.inputs, as a function on TxIds
    KeyImages,    \* the key images of a transaction, {} if not anonymous
    Images,       \* all key images
    Refused,      \* transactions with an invalid size or a short script_sig
    Value,        \* the value of an output
    OutputSum,    \* the sum of a transaction's outputs
    Size,         \* tx.size()
    None,
    MaxPackageDepth, MaxPackageSize,   \* MAX_PACKAGE_DEPTH, MAX_PACKAGE_SIZE
    MaxSize,      \* max_size
    MaxTxs,       \* the 50000 of insert
    Expiration,   \* tx_expiration_ms
    LastInsert,   \* bound: time of the last insert
    MaxTime       \* bound: end of time

ASSUME TxAssumption ==
    /\ None \notin TxIds
    /\ Source \in [Outpoints -> TxIds \cup {None}]
    /\ Inputs \in [TxIds -> Seq(Outpoints)]
    /\ KeyImages \in [TxIds -> SUBSET Images]
    /\ Value \in [Outpoints -> Nat]
    /\ OutputSum \in [TxIds -> Nat]
    /\ Size \in [TxIds -> Nat \ {0}]

ASSUME LimitAssumption ==
    /\ MaxPackageDepth \in Nat /\ MaxPackageSize \in Nat
    /\ MaxSize \in Nat /\ MaxTxs \in Nat
    /\ Expiration \in Nat
    /\ LastInsert \in Nat /\ MaxTime \in Nat

VARIABLES
    txs,          \* the ids of self.txs
    depends_on,   \* entry.depends_on, {} for ids that have no entry
    rate,         \* entry.fee_per_byte
    by_parent,    \* the ids listed under a parent, {} for a missing key
    fee_index,    \* pairs <<fee_per_byte, txid>>
    key_images,   \* the transaction of a key image, None for a missing key
    total_bytes,
    ttl_heap,     \* pairs <<time, txid>>
    now,          \* now_ms()
    pc            \* "idle", where insert waits for the lock of avg_fee, or
                  \* "aborted" when the process has ended

pool == <<txs, depends_on, rate, by_parent, fee_index, key_images, total_bytes>>
vars == <<pool, ttl_heap, now, pc>>

Init ==
    /\ txs = {}
    /\ depends_on = [t \in TxIds |-> {}]
    /\ rate = [t \in TxIds |-> 0]
    /\ by_parent = [t \in TxIds |-> {}]
    /\ fee_index = {}
    /\ key_images = [i \in Images |-> None]
    /\ total_bytes = 0
    /\ ttl_heap = {}
    /\ now = 0
    /\ pc = "idle"

Bytes(S) == MapThenSumSet(LAMBDA t : Size[t], S)

\* The ids reached from S along f, S included: what popping ids off a stack
\* and pushing f of them visits.
Reach(S, f) ==
    LET Closed == {C \in {S \cup D : D \in SUBSET TxIds} :
                      \A x \in C : f[x] \subseteq C}
    IN  {x \in TxIds : \A C \in Closed : x \in C}

-----------------------------------------------------------------------------
(* insert.                                                                 *)

\* The positions of the inputs that spend an output of a pooled transaction.
PoolInputs(t) == {i \in DOMAIN Inputs[t] : Source[Inputs[t][i]] \in txs}

Parents(t) == {Source[Inputs[t][i]] : i \in PoolInputs(t)}

Ancestors(t) == Reach(Parents(t), depends_on)

\* Slip: only a transaction's own parents are compared.
RepeatedParent(t) ==
    \E i, j \in PoolInputs(t) :
        i # j /\ Source[Inputs[t][i]] = Source[Inputs[t][j]]

\* An ancestor is popped a second time: "Cycle detected in dependencies".
Repeated(t) ==
    LET A == Ancestors(t)
    IN  \/ \E i, j \in PoolInputs(t) :
              i # j /\ Source[Inputs[t][i]] = Source[Inputs[t][j]]
        \/ \E p \in A : depends_on[p] \cap Parents(t) # {}
        \/ \E p, q \in A : p # q /\ depends_on[p] \cap depends_on[q] # {}

TooLarge(t) ==
    \/ Cardinality(Ancestors(t)) >= MaxPackageDepth
    \/ Size[t] + Bytes(Ancestors(t)) > MaxPackageSize

Spent(t) == {Inputs[t][i] : i \in DOMAIN Inputs[t]}

\* With the outputs in U stored, every input is found.
Funded(t, U) ==
    \A i \in DOMAIN Inputs[t] : Inputs[t][i] \in U \/ i \in PoolInputs(t)

\* Only stored outputs count: the value of a pooled parent's output is not added.
InputSum(t, U) ==
    MapThenSumSet(LAMBDA i : Value[Inputs[t][i]],
                  {i \in DOMAIN Inputs[t] : Inputs[t][i] \in U})

Pays(t, U) == InputSum(t, U) >= OutputSum[t]

\* A key image of the transaction is in the mempool.
DoubleSpend(t) == \E i \in KeyImages[t] : key_images[i] # None

\* Slip: the list of a parent is replaced.
ByParentReplaced(t) ==
    [p \in TxIds |-> IF p \in Ancestors(t) THEN {t} ELSE by_parent[p]]

\* by_parent after the insertion of t.
ByParentWith(t) ==
    LET A == Ancestors(t)
    IN  [p \in TxIds |-> IF p \in A THEN by_parent[p] \cup {t} ELSE by_parent[p]]

\* Where insert gets stuck: in evict_low_fee_package when the mempool is too
\* large, in remove when a transaction's dependency is missing.
InsertEnds(pooled, deps, bytes) ==
    IF bytes > MaxSize \/ Cardinality(pooled) > MaxTxs THEN "evict"
    ELSE IF \E t \in pooled : ~(deps[t] \subseteq pooled) THEN "prune"
    ELSE "idle"

\* The transaction passes all checks.  An insert that is refused, because the
\* transaction is known, a check fails or the database does, changes nothing.
Insert(t) ==
    /\ pc = "idle"
    /\ now <= LastInsert
    /\ t \notin txs \cup Refused
    /\ ~Repeated(t) /\ ~TooLarge(t) /\ ~DoubleSpend(t)
    /\ \E U \in SUBSET Spent(t) :
          /\ Funded(t, U)
          /\ Pays(t, U)
          /\ LET r == (InputSum(t, U) - OutputSum[t]) \div Size[t]
             IN  /\ rate' = [rate EXCEPT ![t] = r]
                 /\ fee_index' = fee_index \cup {<<r, t>>}
    /\ txs' = txs \cup {t}
    /\ depends_on' = [depends_on EXCEPT ![t] = Ancestors(t)]
    /\ by_parent' = ByParentWith(t)
    /\ key_images' = [i \in Images |-> IF i \in KeyImages[t] THEN t ELSE key_images[i]]
    /\ total_bytes' = total_bytes + Size[t]
    /\ ttl_heap' = ttl_heap \cup {<<now, t>>}
    /\ pc' = InsertEnds(txs', depends_on', total_bytes')
    /\ UNCHANGED now

-----------------------------------------------------------------------------
(* remove.                                                                 *)

\* The pooled transactions listed under a transaction.
Listed == [t \in TxIds |-> by_parent[t] \cap txs]

\* What a call of remove for every id of S removes: pooled ids, and along
\* by_parent everything listed under them.
Removed(S) == Reach(S \cap txs, Listed)

\* Slip: the key images of a removed transaction are kept.
KeyImagesKept(R) == key_images

KeyImagesWithout(R) ==
    [i \in Images |-> IF \E t \in R : i \in KeyImages[t] THEN None ELSE key_images[i]]

\* Slip: the size is only subtracted for an anonymous transaction.
BytesAnonymous(R) == total_bytes - Bytes({t \in R : KeyImages[t] # {}})

BytesWithout(R) == total_bytes - Bytes(R)

FeeIndexWithout(R) == fee_index \ {<<rate[t], t>> : t \in R}

\* remove for every id of S.
RemoveAll(S) ==
    LET R == Removed(S)
    IN  /\ txs' = txs \ R
        /\ depends_on' = [t \in TxIds |-> IF t \in R THEN {} ELSE depends_on[t]]
        /\ rate' = [t \in TxIds |-> IF t \in R THEN 0 ELSE rate[t]]
        /\ by_parent' = [t \in TxIds |-> IF t \in R THEN {} ELSE by_parent[t]]
        /\ fee_index' = FeeIndexWithout(R)
        /\ key_images' = KeyImagesWithout(R)
        /\ total_bytes' = BytesWithout(R)

\* Removing S leaves nothing to divide by.
Panics(S) == txs # {} /\ Removed(S) = txs

\* A process without a mempool, or one that has just created it.
NewPool ==
    /\ txs' = {}
    /\ depends_on' = [t \in TxIds |-> {}]
    /\ rate' = [t \in TxIds |-> 0]
    /\ by_parent' = [t \in TxIds |-> {}]
    /\ fee_index' = {}
    /\ key_images' = [i \in Images |-> None]
    /\ total_bytes' = 0
    /\ ttl_heap' = {}

\* The panic of remove ends the process, and the mempool with it.
Abort == NewPool /\ pc' = "aborted"

\* add_block removes the pooled transactions S of an accepted block.
RemoveMined(S) ==
    /\ pc = "idle"
    /\ S # {}
    /\ UNCHANGED now
    /\ IF Panics(S) THEN Abort
                    ELSE RemoveAll(S) /\ UNCHANGED <<ttl_heap, pc>>

-----------------------------------------------------------------------------
(* The expiration task.                                                    *)

\* now.saturating_sub(time) > expiration_ms
Expired(time) == now > time + Expiration

\* BinaryHeap::iter starts at the greatest pair, and clean_expired stops at
\* the first one that has not expired: it takes all pairs or none.
ExpiredIds ==
    IF \A e \in ttl_heap : Expired(e[1]) THEN {e[2] : e \in ttl_heap} ELSE {}

\* clean_expired, every five minutes.
CleanExpired ==
    /\ pc = "idle"
    /\ ExpiredIds # {}
    /\ UNCHANGED now
    /\ IF Panics(ExpiredIds) THEN Abort
                             ELSE RemoveAll(ExpiredIds) /\ ttl_heap' = {} /\ UNCHANGED pc

Tick ==
    /\ now < MaxTime
    /\ now' = now + 1
    /\ UNCHANGED <<pool, ttl_heap, pc>>

\* The node is run again, after it was stopped or has aborted.
Restart ==
    /\ NewPool
    /\ pc' = "idle"
    /\ UNCHANGED now

Next ==
    \/ \E t \in TxIds : Insert(t)
    \/ \E S \in SUBSET txs : RemoveMined(S)
    \/ CleanExpired
    \/ Tick
    \/ Restart

Spec == Init /\ [][Next]_vars

-----------------------------------------------------------------------------
(* Properties.                                                             *)

\* A transaction never outlives one it depends on, however transactions are
\* mined, expired and inserted again: remove reaches every dependent through
\* by_parent, whatever stale ids that lists besides.
PackagesIntact == \A t \in txs : depends_on[t] \subseteq txs

\* key_images holds the key images of the pooled transactions and no others
\* ("KeyImage -> TxID"), so that no two pooled transactions share one and the
\* images of a removed transaction can be spent again.
KeyImagesExact ==
    \A i \in Images, t \in TxIds :
        key_images[i] = t <=> t \in txs /\ i \in KeyImages[t]

\* select_txs, which goes through fee_index, finds every pooled transaction
\* under its rate, and nothing that has been removed or listed twice.
FeeIndexExact == fee_index = {<<rate[t], t>> : t \in txs}

\* The two indices that insert and select_txs read find every pooled
\* transaction and no other, whatever was mined, expired and inserted again.
IndexesExact == KeyImagesExact /\ FeeIndexExact

\* An insert that does not return has really filled the mempool: the counted
\* bytes are those of the pooled transactions, and remove_orphaned_txs never
\* finds a transaction to remove.
StuckOnlyWhenFull ==
    pc \in {"evict", "prune"} => Bytes(txs) > MaxSize \/ Cardinality(txs) > MaxTxs

\* Because a repeated ancestor is an error, no pooled transaction has more
\* than two generations of pooled ancestors, whatever MAX_PACKAGE_DEPTH is.
Shallow ==
    \A t \in txs : \A p \in depends_on[t] : \A q \in depends_on[p] :
        depends_on[q] = {}

\* Cleaning leaves the node running: the task logs what clean_expired returns
\* and sleeps until its next turn ("Mempool clean error: {}", main.rs 234-240).
CleaningGoesOn == [][CleanExpired => pc' = "idle"]_vars
=============================================================================
