--------------------------- MODULE MempoolSelect ---------------------------
(***************************************************************************)
(* Mempool::select_txs (src/111/src/mempool.rs), which the miner calls     *)
(* under the read lock of the mempool: the pool does not change meanwhile. *)
(*                                                                         *)
(* A pool is any that Mempool can hold: its dependencies are pooled        *)
(* (PackagesIntact), fee_index lists every pooled transaction              *)
(* (FeeIndexExact), depends_on holds all ancestors, and no two ancestors   *)
(* of a transaction share one, because insert takes an ancestor that it    *)
(* pops twice for a cycle (Apart in Mempool_proofs).  Ids are numbers, the *)
(* order of a BTreeSet; ids of fee_index that are not pooled are passed    *)
(* over.                                                                   *)
(* depends_on is a HashSet: it is pushed in any order.                     *)
(***************************************************************************)
EXTENDS Integers, Sequences, FiniteSets, FiniteSetsExt, SequencesExt

CONSTANTS
    Pools,           \* the pools [txs, depends_on, rate]
    Size,            \* tx.size()
    MaxSize,         \* the parameter max_size
    MaxPackageDepth, MaxPackageSize

ASSUME SelectAssumption ==
    /\ {MaxSize, MaxPackageDepth, MaxPackageSize} \subseteq Nat
    /\ Size \in [DOMAIN Size -> Nat \ {0}]
    /\ \A p \in Pools : IsFiniteSet(p.txs) /\ p.txs \subseteq DOMAIN Size
    /\ \A p \in Pools : \A t \in p.txs :
          /\ p.depends_on[t] \subseteq p.txs \ {t}
          /\ \A a \in p.depends_on[t] : p.depends_on[a] \subseteq p.depends_on[t]
          /\ \A a, b \in p.depends_on[t] :
                a # b => p.depends_on[a] \cap p.depends_on[b] = {}

VARIABLES
    pool,              \* the mempool
    todo,              \* ids of fee_index that the loops have not reached
    selected, size, included, visited_packages,
    walk               \* the package that is put together, or NoWalk

select_vars == <<pool, todo, selected, size, included, visited_packages, walk>>

NoWalk == [txid |-> 0, package |-> <<>>, stack |-> <<>>, visited |-> {}, depth |-> 0]

Bytes(s) == FoldLeft(LAMBDA n, t : n + Size[t], 0, s)

\* Every order in which the elements of a HashSet may come.
Orders(S) == SetToSeqs(S)

SelectInit ==
    /\ pool \in Pools /\ todo = pool.txs
    /\ selected = <<>> /\ size = 0 /\ included = {} /\ visited_packages = {}
    /\ walk = NoWalk

\* The rates downwards, and the ids of one rate upwards.
First(t) ==
    /\ t \in todo
    /\ \A u \in todo : \/ pool.rate[u] < pool.rate[t]
                       \/ pool.rate[u] = pool.rate[t] /\ u >= t

\* A new rate is not begun when the block is full.
Full(t) == size >= MaxSize /\ \A u \in pool.txs \ todo : pool.rate[u] # pool.rate[t]

Skipped(t) == t \in included \cup visited_packages

Stop == \E t \in todo :
    /\ walk = NoWalk /\ First(t) /\ Full(t)
    /\ todo' = {}
    /\ UNCHANGED <<pool, selected, size, included, visited_packages, walk>>

Skip == \E t \in todo :
    /\ walk = NoWalk /\ First(t) /\ ~Full(t) /\ Skipped(t)
    /\ todo' = todo \ {t}
    /\ UNCHANGED <<pool, selected, size, included, visited_packages, walk>>

Begin == \E t \in todo : \E stack \in Orders(pool.depends_on[t]) :
    /\ walk = NoWalk /\ First(t) /\ ~Full(t) /\ ~Skipped(t)
    /\ todo' = todo \ {t}
    /\ walk' = [NoWalk EXCEPT !.txid = t, !.package = <<t>>, !.stack = stack]
    /\ UNCHANGED <<pool, selected, size, included, visited_packages>>

Walking == walk # NoWalk /\ walk.stack # <<>> /\ walk.depth < MaxPackageDepth

\* Slip: an ancestor that another package has visited is passed over.
PopOthers ==
    /\ Walking
    /\ LET parent == Last(walk.stack)
           rest == [walk EXCEPT !.stack = Front(@), !.depth = @ + 1]
       IN \/ /\ parent \in visited_packages
             /\ walk' = rest /\ UNCHANGED visited_packages
          \/ /\ parent \notin visited_packages
             /\ visited_packages' = visited_packages \cup {parent}
             /\ \E more \in Orders(pool.depends_on[parent]) :
                   walk' = [rest EXCEPT !.package = <<parent>> \o @, !.stack = @ \o more]
    /\ UNCHANGED <<pool, todo, selected, size, included>>

\* A parent is popped: one that was visited is passed over, another one goes
\* to the front of the package and its dependencies onto the stack.
Pop ==
    /\ Walking
    /\ LET parent == Last(walk.stack)
           rest == [walk EXCEPT !.stack = Front(@), !.depth = @ + 1]
       IN \/ /\ parent \in walk.visited
             /\ walk' = rest /\ UNCHANGED visited_packages
          \/ /\ parent \notin walk.visited
             /\ visited_packages' = visited_packages \cup {parent}
             /\ \E more \in Orders(pool.depends_on[parent]) :
                   walk' = [rest EXCEPT !.visited = @ \cup {parent},
                                        !.package = <<parent>> \o @,
                                        !.stack = @ \o more]
    /\ UNCHANGED <<pool, todo, selected, size, included>>

\* Slip: a package that fills the block to the byte is refused.
FitsStrictly == Bytes(walk.package) < MaxSize - size /\ Bytes(walk.package) <= MaxPackageSize

Fits == Bytes(walk.package) <= MaxSize - size /\ Bytes(walk.package) <= MaxPackageSize

\* The walk is over, and the package is taken if it fits.
Close ==
    /\ walk # NoWalk /\ ~Walking
    /\ IF Fits
       THEN /\ selected' = selected \o walk.package
            /\ size' = size + Bytes(walk.package)
            /\ included' = included \cup Range(walk.package)
       ELSE UNCHANGED <<selected, size, included>>
    /\ walk' = NoWalk
    /\ UNCHANGED <<pool, todo, visited_packages>>

SelectNext == Stop \/ Skip \/ Begin \/ Pop \/ Close

SelectSpec == SelectInit /\ [][SelectNext]_select_vars

-----------------------------------------------------------------------------
(* Properties *)

Done == todo = {} /\ walk = NoWalk

\* The block never exceeds its limit, counted with every repetition of a
\* transaction, so that max_size - size (257) does not wrap.
SelectionFits == Bytes(selected) = size /\ size <= MaxSize

Related(t) == {u \in pool.txs : t = u \/ t \in pool.depends_on[u]}

\* A transaction is selected together with all its pooled ancestors, in
\* whatever order the sets are walked, if it and its descendants have at most
\* half as many as MAX_PACKAGE_DEPTH: each ancestor can be popped twice before
\* the walk is cut (246).
AncestorsSelected ==
    \A t \in Range(selected) :
        (\A u \in Related(t) : 2 * Cardinality(pool.depends_on[u]) <= MaxPackageDepth)
          => pool.depends_on[t] \subseteq Range(selected)

\* What select_txs promises of its result: it fits, and it is complete with
\* ancestors.  It is no promise that add_block takes the block: the order and
\* the repetitions of transactions are left open, and validate_transaction
\* looks inputs up in the database (tx.rs 282-293), where the outputs of a
\* parent in the same block are not.
SelectionSound == SelectionFits /\ AncestorsSelected

Package(t) == {t} \cup pool.depends_on[t]
PackageSize(t) == MapThenSumSet(LAMBDA u : Size[u], Package(t))

\* With room for every package, nothing in the mempool is left out.
NothingLeftOut ==
    (/\ Done
     /\ MapThenSumSet(PackageSize, pool.txs) <= MaxSize
     /\ \A t \in pool.txs : PackageSize(t) <= MaxPackageSize
                            /\ 2 * Cardinality(pool.depends_on[t]) <= MaxPackageDepth)
      => Range(selected) = pool.txs
=============================================================================
