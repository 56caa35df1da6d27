--------------------------- MODULE Mempool_proofs ---------------------------
(***************************************************************************)
(* Theorems about Mempool, for every set of transactions and every limit.  *)
(*                                                                         *)
(* The inductive invariant says that depends_on is transitive, has no      *)
(* cycles and is known to by_parent, so that the set remove reaches has    *)
(* every dependent; and that no two ancestors of a transaction share one,  *)
(* which insert takes for a cycle.  BytesCounted, on top of it, is about   *)
(* the sum over the pooled transactions (see Sums).                        *)
(***************************************************************************)
EXTENDS Mempool, Sums

IndexTypes ==
    /\ txs \subseteq TxIds
    /\ depends_on \in [TxIds -> SUBSET TxIds]
    /\ by_parent \in [TxIds -> SUBSET TxIds]
    /\ key_images \in [Images -> TxIds \cup {None}]
    /\ rate = [t \in TxIds |-> rate[t]]

\* The graph of dependencies: closed, transitive, without cycles, and known to
\* by_parent.
DepsInv ==
    \A t \in txs :
        /\ depends_on[t] \subseteq txs
        /\ t \notin depends_on[t]
        /\ \A p \in depends_on[t] :
              depends_on[p] \subseteq depends_on[t] /\ t \in by_parent[p]

\* No two ancestors of a transaction share one.
Apart ==
    \A t \in txs : \A a, b \in depends_on[t] :
        a # b => depends_on[a] \cap depends_on[b] = {}

IInv ==
    /\ IndexTypes
    /\ DepsInv
    /\ Apart
    /\ Shallow
    /\ KeyImagesExact
    /\ FeeIndexExact
    /\ pc # "prune"

-----------------------------------------------------------------------------
(* Reach.                                                                  *)

LEMMA ReachContains ==
    ASSUME NEW S \in SUBSET TxIds, NEW f
    PROVE  S \subseteq Reach(S, f) /\ Reach(S, f) \subseteq TxIds
BY DEF Reach

LEMMA ReachClosed ==
    ASSUME NEW S, NEW f \in [TxIds -> SUBSET TxIds], NEW x \in Reach(S, f)
    PROVE  f[x] \subseteq Reach(S, f)
<1>1. x \in TxIds
  BY DEF Reach
<1>2. SUFFICES ASSUME NEW y \in f[x], NEW C \in {S \cup D : D \in SUBSET TxIds},
                      \A z \in C : f[z] \subseteq C
               PROVE  y \in C
  BY <1>1 DEF Reach
<1>3. x \in C
  BY <1>2 DEF Reach
<1> QED
  BY <1>2, <1>3

LEMMA ReachLeast ==
    ASSUME NEW S, NEW f, NEW C \in SUBSET TxIds,
           S \subseteq C, \A x \in C : f[x] \subseteq C
    PROVE  Reach(S, f) \subseteq C
<1>1. C = S \cup C
  OBVIOUS
<1> QED
  BY <1>1 DEF Reach

LEMMA RemovedIs ==
    ASSUME IndexTypes, NEW S
    PROVE  /\ Removed(S) \subseteq txs
           /\ \A x \in Removed(S) : by_parent[x] \cap txs \subseteq Removed(S)
<1>1. Listed \in [TxIds -> SUBSET TxIds] /\ S \cap txs \in SUBSET TxIds
  BY DEF IndexTypes, Listed
<1>2. Removed(S) \subseteq txs
  <2>1. \A x \in txs : Listed[x] \subseteq txs
    BY DEF IndexTypes, Listed
  <2> QED
    BY <2>1, ReachLeast DEF Removed, IndexTypes
<1>3. \A x \in Removed(S) : Listed[x] \subseteq Removed(S)
  BY <1>1, ReachClosed DEF Removed
<1> QED
  BY <1>2, <1>3 DEF Listed, IndexTypes

LEMMA AncestorsAre ==
    ASSUME IInv, NEW t \in TxIds
    PROVE  /\ Ancestors(t) \subseteq txs
           /\ \A x \in Ancestors(t) : depends_on[x] \subseteq Ancestors(t)
<1>1. Parents(t) \subseteq txs
  BY DEF Parents, PoolInputs
<1>2. \A x \in txs : depends_on[x] \subseteq txs
  BY DEF IInv, DepsInv
<1> QED
  BY <1>1, <1>2, ReachLeast, ReachClosed DEF Ancestors, IInv, IndexTypes

-----------------------------------------------------------------------------
(* Init and the steps that leave the indexes alone.                        *)

LEMMA InitInv == Init => IInv
<1> SUFFICES ASSUME Init
             PROVE  IInv
  OBVIOUS
<1> USE TxAssumption DEF Init
<1>1. IndexTypes
  BY DEF IndexTypes
<1>2. KeyImagesExact
  BY DEF KeyImagesExact
<1> QED
  BY <1>1, <1>2 DEF IInv, DepsInv, Apart, Shallow, FeeIndexExact

LEMMA KeepsInv ==
    ASSUME IInv, UNCHANGED pool, pc' = pc
    PROVE  IInv'
BY DEF IInv, pool, IndexTypes, DepsInv, Apart, Shallow, KeyImagesExact, FeeIndexExact

\* A process that has just started, or has just ended, has an empty mempool.
LEMMA NewPoolInv ==
    ASSUME NewPool, pc' # "prune"
    PROVE  IInv'
<1> USE TxAssumption DEF NewPool
<1>1. IndexTypes'
  BY DEF IndexTypes
<1>2. KeyImagesExact'
  BY DEF KeyImagesExact
<1> QED
  BY <1>1, <1>2 DEF IInv, DepsInv, Apart, Shallow, FeeIndexExact

-----------------------------------------------------------------------------
(* insert.                                                                 *)

LEMMA InsertInv ==
    ASSUME IInv, NEW t \in TxIds, Insert(t)
    PROVE  IInv'
<1> DEFINE A == Ancestors(t)
<1>1. /\ IndexTypes /\ DepsInv /\ Apart /\ Shallow /\ KeyImagesExact /\ FeeIndexExact
      /\ t \notin txs
      /\ txs' = txs \cup {t}
      /\ depends_on' = [depends_on EXCEPT ![t] = A]
      /\ by_parent' = [p \in TxIds |-> IF p \in A THEN by_parent[p] \cup {t} ELSE by_parent[p]]
      /\ pc' = InsertEnds(txs', depends_on', total_bytes')
  BY DEF IInv, Insert, ByParentWith
<1>2. /\ A \subseteq txs
      /\ \A x \in A : depends_on[x] \subseteq A
  BY AncestorsAre
<1>3. \A p, q \in A : p # q => depends_on[p] \cap depends_on[q] = {}
  BY DEF Insert, Repeated
<1>4. PICK r : /\ rate' = [rate EXCEPT ![t] = r]
               /\ fee_index' = fee_index \cup {<<r, t>>}
  BY DEF Insert
<1> HIDE DEF A
<1>5. IndexTypes'
  <2>1. key_images' \in [Images -> TxIds \cup {None}]
    BY <1>1 DEF Insert, IndexTypes
  <2>2. rate' = [x \in TxIds |-> rate'[x]]
    BY <1>1, <1>4 DEF IndexTypes
  <2> QED
    BY <1>1, <1>2, <2>1, <2>2 DEF IndexTypes
<1>6. DepsInv'
  <2> SUFFICES ASSUME NEW u \in txs'
               PROVE  /\ depends_on'[u] \subseteq txs'
                      /\ u \notin depends_on'[u]
                      /\ \A p \in depends_on'[u] :
                            depends_on'[p] \subseteq depends_on'[u] /\ u \in by_parent'[p]
    BY DEF DepsInv
  <2>1. CASE u = t
    BY <2>1, <1>1, <1>2 DEF IndexTypes, DepsInv
  <2>2. CASE u # t
    BY <2>2, <1>1, <1>2 DEF IndexTypes, DepsInv
  <2> QED
    BY <2>1, <2>2
<1>7. Shallow'
  <2> SUFFICES ASSUME NEW u \in txs', NEW p \in depends_on'[u], NEW q \in depends_on'[p]
               PROVE  depends_on'[q] = {}
    BY DEF Shallow
  <2>1. p \in txs /\ q \in txs /\ p # t /\ q # t /\ q \in depends_on[p]
    BY <1>1, <1>2 DEF IndexTypes, DepsInv
  <2>2. depends_on'[q] = depends_on[q]
    BY <1>1, <2>1 DEF IndexTypes
  <2>3. CASE u = t
    <3>1. p \in A /\ q \in A /\ p # q
      BY <2>3, <2>1, <1>1, <1>2 DEF IndexTypes, DepsInv
    <3>2. depends_on[q] \subseteq depends_on[p]
      BY <2>1, <1>1 DEF DepsInv
    <3> QED
      BY <3>1, <3>2, <2>2, <1>3
  <2>4. CASE u # t
    BY <2>4, <2>1, <2>2, <1>1 DEF Shallow, IndexTypes
  <2> QED
    BY <2>3, <2>4
<1>8. KeyImagesExact'
  <2>1. key_images' = [i \in Images |-> IF i \in KeyImages[t] THEN t ELSE key_images[i]]
    BY DEF Insert
  <2>2. \A i \in KeyImages[t] : key_images[i] = None
    BY DEF Insert, DoubleSpend
  <2> QED
    BY <2>1, <2>2, <1>1, TxAssumption DEF KeyImagesExact
<1>9. FeeIndexExact'
  <2>1. rate'[t] = r /\ \A u \in txs : rate'[u] = rate[u]
    BY <1>1, <1>4 DEF IndexTypes
  <2> QED
    BY <2>1, <1>1, <1>4 DEF FeeIndexExact
<1>10. pc' # "prune"
  BY <1>1, <1>6 DEF InsertEnds, DepsInv
<1>11. Apart'
  <2> SUFFICES ASSUME NEW u \in txs', NEW a \in depends_on'[u], NEW b \in depends_on'[u], a # b
               PROVE  depends_on'[a] \cap depends_on'[b] = {}
    BY DEF Apart
  <2>1. a \in txs /\ b \in txs /\ a # t /\ b # t
    BY <1>1, <1>2 DEF IndexTypes, DepsInv
  <2>2. depends_on'[a] = depends_on[a] /\ depends_on'[b] = depends_on[b]
    BY <1>1, <2>1 DEF IndexTypes
  <2>3. CASE u = t
    <3>1. a \in A /\ b \in A
      BY <2>3, <1>1 DEF IndexTypes
    <3> QED
      BY <3>1, <2>2, <1>3
  <2>4. CASE u # t
    BY <2>4, <2>2, <1>1 DEF Apart, IndexTypes
  <2> QED
    BY <2>3, <2>4
<1> QED
  BY <1>5, <1>6, <1>7, <1>8, <1>9, <1>10, <1>11 DEF IInv

-----------------------------------------------------------------------------
(* remove.                                                                 *)

LEMMA RemoveAllInv ==
    ASSUME IInv, NEW S, RemoveAll(S), pc' = pc
    PROVE  IInv'
<1> DEFINE R == Removed(S)
<1>1. /\ IndexTypes /\ DepsInv /\ Apart /\ Shallow /\ KeyImagesExact /\ FeeIndexExact
      /\ txs' = txs \ R
      /\ depends_on' = [t \in TxIds |-> IF t \in R THEN {} ELSE depends_on[t]]
      /\ rate' = [t \in TxIds |-> IF t \in R THEN 0 ELSE rate[t]]
      /\ by_parent' = [t \in TxIds |-> IF t \in R THEN {} ELSE by_parent[t]]
      /\ fee_index' = FeeIndexWithout(R)
      /\ key_images' = KeyImagesWithout(R)
  BY DEF IInv, RemoveAll
<1>2. /\ R \subseteq txs
      /\ \A x \in R : by_parent[x] \cap txs \subseteq R
  BY <1>1, RemovedIs
<1> HIDE DEF R
<1>3. IndexTypes'
  <2>1. key_images' \in [Images -> TxIds \cup {None}]
    BY <1>1 DEF KeyImagesWithout, IndexTypes
  <2> QED
    BY <1>1, <2>1 DEF IndexTypes
<1>4. ASSUME NEW u \in txs'
      PROVE  /\ u \in txs /\ u \in TxIds /\ u \notin R
             /\ depends_on'[u] = depends_on[u] /\ rate'[u] = rate[u]
             /\ \A p \in depends_on[u] : p \in txs /\ p \notin R
             /\ \A p \in depends_on[u] :
                   depends_on'[p] = depends_on[p] /\ by_parent'[p] = by_parent[p]
  <2>1. u \in txs /\ u \in TxIds /\ u \notin R
    BY <1>1 DEF IndexTypes
  <2>2. \A p \in depends_on[u] : p \in txs /\ u \in by_parent[p]
    BY <1>1, <2>1 DEF DepsInv
  <2>3. \A p \in depends_on[u] : p \notin R
    BY <1>2, <2>1, <2>2
  <2> QED
    BY <1>1, <2>1, <2>2, <2>3 DEF IndexTypes
<1>5. DepsInv'
  <2> SUFFICES ASSUME NEW u \in txs'
               PROVE  /\ depends_on'[u] \subseteq txs'
                      /\ u \notin depends_on'[u]
                      /\ \A p \in depends_on'[u] :
                            depends_on'[p] \subseteq depends_on'[u] /\ u \in by_parent'[p]
    BY DEF DepsInv
  <2>1. /\ u \in txs /\ depends_on'[u] = depends_on[u]
        /\ \A p \in depends_on[u] : p \in txs \ R
    BY <1>4
  <2>2. /\ u \notin depends_on[u]
        /\ \A p \in depends_on[u] :
              depends_on[p] \subseteq depends_on[u] /\ u \in by_parent[p]
    BY <1>1, <2>1 DEF DepsInv
  <2>3. \A p \in depends_on[u] :
           depends_on'[p] = depends_on[p] /\ by_parent'[p] = by_parent[p]
    BY <1>4
  <2>4. txs' = txs \ R
    BY <1>1
  <2> QED
    BY <2>1, <2>2, <2>3, <2>4
<1>6. Shallow'
  <2> SUFFICES ASSUME NEW u \in txs', NEW p \in depends_on'[u], NEW q \in depends_on'[p]
               PROVE  depends_on'[q] = {}
    BY DEF Shallow
  <2>1. p \in txs' /\ q \in depends_on[p] /\ p \in depends_on[u]
    BY <1>1, <1>4
  <2>2. depends_on'[q] = depends_on[q] /\ u \in txs
    BY <1>4, <2>1
  <2> QED
    BY <2>1, <2>2, <1>1 DEF Shallow
<1>7. KeyImagesExact'
  <2> SUFFICES ASSUME NEW i \in Images, NEW u \in TxIds
               PROVE  key_images'[i] = u <=> u \in txs' /\ i \in KeyImages[u]
    BY DEF KeyImagesExact
  <2>1. \A x \in txs : i \in KeyImages[x] => key_images[i] = x
    BY <1>1 DEF KeyImagesExact, IndexTypes
  <2>2. CASE \E x \in R : i \in KeyImages[x]
    <3>1. key_images'[i] = None
      BY <2>2, <1>1 DEF KeyImagesWithout
    <3>2. PICK x \in R : i \in KeyImages[x]
      BY <2>2
    <3>3. u \in txs /\ i \in KeyImages[u] => u \in R
      BY <2>1, <3>2, <1>2
    <3> QED
      BY <3>1, <3>3, <1>1, TxAssumption
  <2>3. CASE ~ \E x \in R : i \in KeyImages[x]
    <3>1. key_images'[i] = key_images[i]
      BY <2>3, <1>1 DEF KeyImagesWithout
    <3> QED
      BY <3>1, <2>3, <1>1 DEF KeyImagesExact
  <2> QED
    BY <2>2, <2>3
<1>8. FeeIndexExact'
  <2>1. fee_index' = {<<rate[t], t>> : t \in txs \ R}
    BY <1>1, <1>2 DEF FeeIndexExact, FeeIndexWithout
  <2>2. \A u \in txs \ R : rate'[u] = rate[u]
    BY <1>1 DEF IndexTypes
  <2> QED
    BY <2>1, <2>2, <1>1 DEF FeeIndexExact
<1>9. Apart'
  <2> SUFFICES ASSUME NEW u \in txs', NEW a \in depends_on'[u], NEW b \in depends_on'[u], a # b
               PROVE  depends_on'[a] \cap depends_on'[b] = {}
    BY DEF Apart
  <2>1. /\ u \in txs /\ a \in depends_on[u] /\ b \in depends_on[u]
        /\ depends_on'[a] = depends_on[a] /\ depends_on'[b] = depends_on[b]
    BY <1>4
  <2> QED
    BY <2>1, <1>1 DEF Apart
<1> QED
  BY <1>3, <1>5, <1>6, <1>7, <1>8, <1>9 DEF IInv

-----------------------------------------------------------------------------
(* The theorems.                                                           *)

\* Every reachable state of the mempool satisfies the inductive invariant.
THEOREM Inductive == Spec => []IInv
<1>1. ASSUME IInv, [Next]_vars
      PROVE  IInv'
  <2>1. ASSUME NEW t \in TxIds, Insert(t)
        PROVE  IInv'
    BY <1>1, <2>1, InsertInv
  <2>2. ASSUME NEW S \in SUBSET txs, RemoveMined(S)
        PROVE  IInv'
    <3>1. CASE Panics(S)
      BY <2>2, <3>1, NewPoolInv DEF RemoveMined, Abort
    <3>2. CASE ~Panics(S)
      BY <1>1, <2>2, <3>2, RemoveAllInv DEF RemoveMined
    <3> QED
      BY <3>1, <3>2
  <2>3. CASE CleanExpired
    <3>1. CASE Panics(ExpiredIds)
      BY <2>3, <3>1, NewPoolInv DEF CleanExpired, Abort
    <3>2. CASE ~Panics(ExpiredIds)
      BY <1>1, <2>3, <3>2, RemoveAllInv DEF CleanExpired
    <3> QED
      BY <3>1, <3>2
  <2>4. CASE Tick
    BY <1>1, <2>4, KeepsInv DEF Tick
  <2>5. CASE UNCHANGED vars
    BY <1>1, <2>5, KeepsInv DEF vars
  <2>6. CASE Restart
    BY <2>6, NewPoolInv DEF Restart
  <2> QED
    BY <1>1, <2>1, <2>2, <2>3, <2>4, <2>5, <2>6 DEF Next
<1> QED
  BY <1>1, InitInv, PTL DEF Spec

\* No transaction outlives one it depends on: remove and clean_expired follow
\* by_parent to every dependent.
THEOREM PackagesAlwaysIntact == Spec => []PackagesIntact
<1>1. IInv => PackagesIntact
  BY DEF IInv, DepsInv, PackagesIntact
<1> QED
  BY <1>1, Inductive, PTL

\* key_images is exact, so no two pooled transactions share a key image.
THEOREM KeyImagesAlwaysExact == Spec => []KeyImagesExact
<1>1. IInv => KeyImagesExact
  BY DEF IInv
<1> QED
  BY <1>1, Inductive, PTL

\* A package has at most three generations, whatever MAX_PACKAGE_DEPTH is.
THEOREM PackagesAlwaysShallow == Spec => []Shallow
<1>1. IInv => Shallow
  BY DEF IInv
<1> QED
  BY <1>1, Inductive, PTL

\* fee_index lists every pooled transaction under its rate, and nothing else.
THEOREM FeeIndexAlwaysExact == Spec => []FeeIndexExact
<1>1. IInv => FeeIndexExact
  BY DEF IInv
<1> QED
  BY <1>1, Inductive, PTL

\* The indices that insert and select_txs read are exact.
THEOREM IndexesAlwaysExact == Spec => []IndexesExact
<1>1. KeyImagesExact /\ FeeIndexExact => IndexesExact
  BY DEF IndexesExact
<1> QED
  BY <1>1, KeyImagesAlwaysExact, FeeIndexAlwaysExact, PTL

\* insert never gets stuck in remove_orphaned_txs: there is never an orphan.
THEOREM NeverPrunes == Spec => [](pc # "prune")
<1>1. IInv => pc # "prune"
  BY DEF IInv
<1> QED
  BY <1>1, Inductive, PTL

-----------------------------------------------------------------------------
(* What cleaning does.                                                     *)

\* Every pooled transaction is listed in ttl_heap, and the heap is empty only
\* with the mempool.
Queued ==
    /\ \A t \in txs : \E e \in ttl_heap : e[2] = t
    /\ txs = {} => ttl_heap = {}

\* A call of remove never adds a transaction.
LEMMA RemoveOnlyTakes ==
    ASSUME NEW S, RemoveAll(S)
    PROVE  txs' \subseteq txs
BY DEF RemoveAll

\* A call of clean_expired that finds a transaction to remove removes them all.
LEMMA CleaningPanics ==
    ASSUME IInv, Queued, CleanExpired
    PROVE  Panics(ExpiredIds)
<1>1. ExpiredIds = {e[2] : e \in ttl_heap} /\ ttl_heap # {}
  BY DEF CleanExpired, ExpiredIds
<1>2. ExpiredIds \cap txs = txs /\ txs # {}
  BY <1>1 DEF Queued
<1>3. txs \subseteq Removed(ExpiredIds)
  BY <1>2, ReachContains DEF Removed, IInv, IndexTypes
<1>4. Removed(ExpiredIds) \subseteq txs
  BY RemovedIs DEF IInv
<1> QED
  BY <1>2, <1>3, <1>4 DEF Panics

LEMMA AlwaysQueued == Spec => []Queued
<1>1. Init => Queued
  BY DEF Init, Queued
<1>2. ASSUME IInv, Queued, [Next]_vars
      PROVE  Queued'
  <2>1. ASSUME NEW t \in TxIds, Insert(t)
        PROVE  Queued'
    <3>1. /\ txs' = txs \cup {t}
          /\ ttl_heap' = ttl_heap \cup {<<now, t>>}
      BY <2>1 DEF Insert
    <3>2. <<now, t>>[2] = t /\ <<now, t>> \in ttl_heap'
      BY <3>1
    <3> QED
      BY <1>2, <3>1, <3>2 DEF Queued
  <2>2. ASSUME NEW S \in SUBSET txs, RemoveMined(S)
        PROVE  Queued'
    <3>1. CASE Panics(S)
      BY <2>2, <3>1 DEF RemoveMined, Abort, NewPool, Queued
    <3>2. CASE ~Panics(S)
      <4>1. RemoveAll(S) /\ ttl_heap' = ttl_heap /\ txs # {}
        BY <2>2, <3>2 DEF RemoveMined
      <4>2. txs' \subseteq txs /\ txs' # {}
        BY <1>2, <3>2, <4>1, RemoveOnlyTakes, RemovedIs DEF RemoveAll, Panics, IInv
      <4> QED
        BY <1>2, <4>1, <4>2 DEF Queued
    <3> QED
      BY <3>1, <3>2
  <2>3. CASE CleanExpired
    BY <1>2, <2>3, CleaningPanics DEF CleanExpired, Abort, NewPool, Queued
  <2>4. CASE Tick \/ UNCHANGED vars
    BY <1>2, <2>4 DEF Tick, vars, pool, Queued
  <2>5. CASE Restart
    BY <2>5 DEF Restart, NewPool, Queued
  <2> QED
    BY <1>2, <2>1, <2>2, <2>3, <2>4, <2>5 DEF Next
<1> QED
  BY <1>1, <1>2, Inductive, PTL DEF Spec

\* No call of clean_expired removes an expired transaction and returns: it takes
\* every transaction or none (mempool.rs 272-278), and remove divides by what is
\* left of them (207).
THEOREM CleaningAlwaysAborts == Spec => [][CleanExpired => pc' = "aborted"]_vars
<1>1. IInv /\ Queued /\ [Next]_vars => [CleanExpired => pc' = "aborted"]_vars
  <2> SUFFICES ASSUME IInv, Queued, CleanExpired
               PROVE  pc' = "aborted"
    OBVIOUS
  <2> QED
    BY CleaningPanics DEF CleanExpired, Abort
<1> QED
  BY <1>1, Inductive, AlwaysQueued, PTL DEF Spec

-----------------------------------------------------------------------------
(* The counted bytes.                                                      *)

BytesCounted ==
    /\ IsFiniteSet(txs)
    /\ total_bytes = Bytes(txs)
    /\ pc \in {"evict", "prune"} => pc = "prune" \/ Bytes(txs) > MaxSize \/ Cardinality(txs) > MaxTxs

LEMMA BytesAreSum ==
    ASSUME NEW S
    PROVE  Bytes(S) = SumOver(Size, S)
BY DEF Bytes, SumOver

LEMMA RemoveCounts ==
    ASSUME IInv, IsFiniteSet(txs), total_bytes = Bytes(txs),
           NEW S, RemoveAll(S)
    PROVE  IsFiniteSet(txs') /\ total_bytes' = Bytes(txs')
<1> DEFINE R == Removed(S)
<1>1. txs' = txs \ R /\ total_bytes' = total_bytes - Bytes(R)
  BY DEF RemoveAll, BytesWithout
<1>2. R \in SUBSET txs /\ txs \in SUBSET TxIds /\ Size \in [TxIds -> Nat]
  BY RemovedIs, TxAssumption DEF IInv, IndexTypes
<1> HIDE DEF R
<1>3. IsFiniteSet(txs \ R)
  BY FS_Subset
<1>4. SumOver(Size, txs \ R) = SumOver(Size, txs) - SumOver(Size, R)
  BY <1>2, SumDifference
<1>5. Bytes(txs \ R) = Bytes(txs) - Bytes(R)
  BY <1>4, BytesAreSum
<1> QED
  BY <1>1, <1>3, <1>5

\* The counter equals the bytes of the pooled transactions after every insert
\* and remove (mempool.rs, insert and remove).
THEOREM AlwaysCounted == Spec => []BytesCounted
<1>1. Init => BytesCounted
  <2>1. Bytes({}) = 0
    BY BytesAreSum, SumEmpty
  <2> QED
    BY <2>1, FS_EmptySet DEF Init, BytesCounted
<1>2. ASSUME IInv, BytesCounted, [Next]_vars
      PROVE  BytesCounted'
  <2>1. ASSUME NEW t \in TxIds, Insert(t)
        PROVE  BytesCounted'
    <3>1. /\ t \notin txs /\ txs' = txs \cup {t} /\ total_bytes' = total_bytes + Size[t]
          /\ pc' = InsertEnds(txs', depends_on', total_bytes')
      BY <2>1 DEF Insert
    <3>2. IsFiniteSet(txs) /\ IsFiniteSet(txs \cup {t})
      BY <1>2, FS_AddElement DEF BytesCounted
    <3>3. /\ txs \in SUBSET TxIds /\ Size \in [TxIds -> Nat] /\ t \in TxIds \ txs
      BY <1>2, <3>1, TxAssumption DEF IInv, IndexTypes
    <3>4. Bytes(txs \cup {t}) = Size[t] + Bytes(txs) /\ Bytes(txs) \in Nat
      BY <3>2, <3>3, SumAdd, SumNat, BytesAreSum
    <3>5. total_bytes' = Bytes(txs')
      BY <1>2, <3>1, <3>3, <3>4 DEF BytesCounted
    <3> QED
      BY <3>1, <3>2, <3>5 DEF BytesCounted, InsertEnds
  <2>2. ASSUME pc = "idle", pc' = pc, NEW S, RemoveAll(S)
        PROVE  BytesCounted'
    BY <1>2, <2>2, RemoveCounts DEF BytesCounted
  <2>6. ASSUME NewPool, pc' \notin {"evict", "prune"}
        PROVE  BytesCounted'
    <3>1. Bytes({}) = 0
      BY BytesAreSum, SumEmpty
    <3> QED
      BY <2>6, <3>1, FS_EmptySet DEF NewPool, BytesCounted
  <2>3. ASSUME NEW S \in SUBSET txs, RemoveMined(S)
        PROVE  BytesCounted'
    <3>1. CASE Panics(S)
      BY <2>3, <2>6, <3>1 DEF RemoveMined, Abort
    <3>2. CASE ~Panics(S)
      BY <2>2, <2>3, <3>2 DEF RemoveMined
    <3> QED
      BY <3>1, <3>2
  <2>4. CASE CleanExpired
    <3>1. CASE Panics(ExpiredIds)
      BY <2>4, <2>6, <3>1 DEF CleanExpired, Abort
    <3>2. CASE ~Panics(ExpiredIds)
      BY <2>2, <2>4, <3>2 DEF CleanExpired
    <3> QED
      BY <3>1, <3>2
  <2>7. CASE Restart
    BY <2>6, <2>7 DEF Restart
  <2>5. CASE Tick \/ UNCHANGED vars
    BY <1>2, <2>5 DEF Tick, vars, pool, BytesCounted
  <2> QED
    BY <1>2, <2>1, <2>3, <2>4, <2>5, <2>7 DEF Next
<1> QED
  BY <1>1, <1>2, Inductive, PTL DEF Spec

\* An insert that does not return has really filled the mempool: the counter is
\* right, and there is never an orphan to prune.
THEOREM AlwaysStuckOnlyWhenFull == Spec => []StuckOnlyWhenFull
<1>1. IInv /\ BytesCounted => StuckOnlyWhenFull
  BY DEF IInv, BytesCounted, StuckOnlyWhenFull
<1> QED
  BY <1>1, Inductive, AlwaysCounted, PTL

\* What MempoolSelect assumes of the pools that select_txs is called on.
SelectablePool ==
    /\ IsFiniteSet(txs)
    /\ \A t \in txs :
          /\ depends_on[t] \subseteq txs \ {t}
          /\ \A a \in depends_on[t] : depends_on[a] \subseteq depends_on[t]
          /\ \A a, b \in depends_on[t] :
                a # b => depends_on[a] \cap depends_on[b] = {}

\* Whatever is inserted, mined and expired, select_txs is called on a pool of
\* the form that the theorems about it assume (Blocks_proofs).
THEOREM PoolsAlwaysSelectable == Spec => []SelectablePool
<1>1. IInv /\ BytesCounted => SelectablePool
  BY DEF IInv, BytesCounted, DepsInv, Apart, SelectablePool
<1> QED
  BY <1>1, Inductive, AlwaysCounted, PTL
=============================================================================
