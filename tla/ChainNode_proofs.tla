-------------------------- MODULE ChainNode_proofs --------------------------
(***************************************************************************)
(* Proofs about ChainNode, for every block tree, every bound and every     *)
(* combination of faults.                                                  *)
(*                                                                         *)
(* The inductive invariant IInv describes every database content a crash   *)
(* may leave (DbInv) and the memory of a running node (MemInv).  Its heart *)
(* is that add_block never enters a block into hash_to_height: the only    *)
(* parent it ever knows is the genesis block, so the journal, the headers  *)
(* and the h: entries above height 0 are all about its children.           *)
(***************************************************************************)
EXTENDS ChainNode, TLAPS, SequenceTheorems

\* The blocks add_block can accept.
Child == {x \in Valid : Parent[x] = Genesis}

\* The journals add_block writes.
GoodJournal ==
    {j \in Journal : /\ j.old_tip_hash = Genesis
                     /\ j.old_tip_height \in {0, 1}
                     /\ j.disconnect_depth = j.old_tip_height
                     /\ j.new_block \in Child}

TipInv(d) ==
    /\ d.tip = None <=> d.height = None
    /\ d.tip # None => d.h[d.height] = d.tip /\ d.tip \in d.b

BlocksInv(d) ==
    /\ d.b \subseteq Child \cup {Genesis}
    /\ d.h[0] \in {Genesis, None}
    /\ \A k \in Heights \ {0} : d.h[k] # None => k = 1 /\ d.h[k] \in Child

HeadersInv(d) ==
    /\ d.hdr[0] \in {Genesis, None}
    /\ \A k \in Heights \ {0} :
        d.hdr[k] # None => /\ k = 1
                           /\ d.hdr[k] \in Child
                           /\ d.hdr[0] = Genesis
                           /\ \A t \in Txs[d.hdr[k]] : d.tx_index[t] # None

JournalsInv(d) ==
    /\ d.journals \in Seq(GoodJournal)
    /\ d.journals # <<>> => d.hdr[0] = Genesis

CoinbaseInv(d) == \A t \in TxIds \ Txs[Genesis] : d.coinbase[t] = d.tx_index[t]

DbInv(d) ==
    /\ d \in Database
    /\ TipInv(d)
    /\ BlocksInv(d)
    /\ HeadersInv(d)
    /\ JournalsInv(d)
    /\ CoinbaseInv(d)

\* A running node knows the genesis block and nothing else.
MemInv ==
    /\ mem.best_tip = Genesis
    /\ mem.best_height \in {0, 1}
    /\ mem.hash_to_height = [x \in Blocks |-> IF x = Genesis THEN 0 ELSE None]
    /\ mem.blocks = [k \in Heights |-> IF k = 0 THEN Genesis ELSE None]
    /\ mem.cumulative_work = [k \in Heights |-> IF k = 0 THEN 1 ELSE 0]
    /\ db.hdr[0] = Genesis
    /\ mem.best_height = 1 => db.hdr[1] # None
    /\ db.coinbase = db.tx_index

IInv ==
    /\ TypeOK
    /\ \A d \in dbs : DbInv(d)
    /\ Running => MemInv
    /\ pc \in {"journal", "commit", "unjournal", "save"} => cur \in Child
    /\ pc # "apply"
    /\ pc = "unjournal" => db.hdr[1] # None
    /\ pc = "discard" => db.journals # <<>>

-----------------------------------------------------------------------------
(* What the operators on the database do to DbInv.                         *)

USE BlocksAssumption, NoneAssumption, BoundsAssumption

LEMMA HeightFacts == 0 \in Heights /\ 1 \in Heights /\ Heights \subseteq Nat
BY DEF Heights

LEMMA ChildFacts == Child \subseteq Valid /\ Child \subseteq Blocks /\ Genesis \notin Child
                    /\ None \notin Child /\ Genesis # None
BY DEF Child

LEMMA EmptyDbInv == DbInv(EmptyDb)
<1>1. EmptyDb \in Database
  BY DEF EmptyDb, Database, BlockOpt, HeightOpt
<1>2. TipInv(EmptyDb) /\ BlocksInv(EmptyDb) /\ HeadersInv(EmptyDb)
  BY HeightFacts DEF EmptyDb, TipInv, BlocksInv, HeadersInv
<1>3. JournalsInv(EmptyDb) /\ CoinbaseInv(EmptyDb)
  BY DEF EmptyDb, JournalsInv, CoinbaseInv
<1> QED BY <1>1, <1>2, <1>3 DEF DbInv

\* Connect leaves alone what it does not name.
LEMMA ConnectFacts ==
    ASSUME NEW d \in Database, NEW x \in Blocks, NEW k \in Heights,
           NEW s \in Nat \cup {None}, NEW e, e = Connect(d, x, k, s)
    PROVE  /\ e \in Database
           /\ e.tip = d.tip /\ e.height = d.height /\ e.h = d.h /\ e.b = d.b
           /\ e.journals = d.journals
           /\ e.hdr = [d.hdr EXCEPT ![k] = x]
           /\ e.tx_index = [t \in TxIds |-> IF t \in Txs[x] THEN k ELSE d.tx_index[t]]
           /\ e.coinbase = [t \in TxIds |-> IF t \in Txs[x] THEN k ELSE d.coinbase[t]]
BY DEF Connect, Database, BlockOpt, HeightOpt

LEMMA DisconnectFacts ==
    ASSUME NEW d \in Database, NEW S
    PROVE  LET e == Disconnect(d, S)
               gone == UNION {Txs[x] : x \in S}
           IN  /\ e \in Database
               /\ e.tip = d.tip /\ e.height = d.height /\ e.h = d.h /\ e.b = d.b
               /\ e.journals = d.journals /\ e.hdr = d.hdr
               /\ e.tx_index = [t \in TxIds |-> IF t \in gone THEN None ELSE d.tx_index[t]]
               /\ e.coinbase = [t \in TxIds |-> IF t \in gone THEN None ELSE d.coinbase[t]]
BY DEF Disconnect, Database, HeightOpt

LEMMA SaveBlockFacts ==
    ASSUME NEW d \in Database, NEW x \in Blocks, NEW k \in Heights,
           NEW e, e = SaveBlock(d, k, x)
    PROVE  /\ e \in Database
           /\ e.tip = x /\ e.height = k /\ e.b = d.b \cup {x}
           /\ e.h = [d.h EXCEPT ![k] = x]
           /\ e.hdr = d.hdr /\ e.journals = d.journals
           /\ e.tx_index = d.tx_index /\ e.coinbase = d.coinbase
BY DEF SaveBlock, Database, BlockOpt, HeightOpt

\* Disconnecting any blocks and connecting a child of the genesis block at
\* height 1, as add_block and the recovery do.
LEMMA ReplaceInv ==
    ASSUME NEW d, DbInv(d), d.hdr[0] = Genesis, NEW S, NEW x \in Child,
           NEW s \in Nat \cup {None},
           NEW e, e = Connect(Disconnect(d, S), x, 1, s)
    PROVE  /\ DbInv(e)
           /\ e.hdr[0] = Genesis /\ e.hdr[1] # None
           /\ e.journals = d.journals
           /\ d.coinbase = d.tx_index => e.coinbase = e.tx_index
<1> DEFINE c == Disconnect(d, S)
<1>0. d \in Database /\ TipInv(d) /\ BlocksInv(d) /\ HeadersInv(d)
      /\ JournalsInv(d) /\ CoinbaseInv(d)
  BY DEF DbInv
<1> DEFINE gone == UNION {Txs[y] : y \in S}
<1>1. /\ c \in Database
      /\ c.tip = d.tip /\ c.height = d.height /\ c.h = d.h /\ c.b = d.b
      /\ c.journals = d.journals /\ c.hdr = d.hdr
      /\ c.tx_index = [t \in TxIds |-> IF t \in gone THEN None ELSE d.tx_index[t]]
      /\ c.coinbase = [t \in TxIds |-> IF t \in gone THEN None ELSE d.coinbase[t]]
  BY <1>0, DisconnectFacts
<1> HIDE DEF c, gone
<1>2. /\ e \in Database
      /\ e.tip = d.tip /\ e.height = d.height /\ e.h = d.h /\ e.b = d.b
      /\ e.journals = d.journals
      /\ e.hdr = [d.hdr EXCEPT ![1] = x]
      /\ e.tx_index = [t \in TxIds |-> IF t \in Txs[x] THEN 1 ELSE c.tx_index[t]]
      /\ e.coinbase = [t \in TxIds |-> IF t \in Txs[x] THEN 1 ELSE c.coinbase[t]]
  <2>1. x \in Blocks /\ 1 \in Heights
    BY ChildFacts, HeightFacts
  <2>2. /\ e \in Database
        /\ e.tip = c.tip /\ e.height = c.height /\ e.h = c.h /\ e.b = c.b
        /\ e.journals = c.journals
        /\ e.hdr = [c.hdr EXCEPT ![1] = x]
        /\ e.tx_index = [t \in TxIds |-> IF t \in Txs[x] THEN 1 ELSE c.tx_index[t]]
        /\ e.coinbase = [t \in TxIds |-> IF t \in Txs[x] THEN 1 ELSE c.coinbase[t]]
    <3>1. e = Connect(c, x, 1, s)
      BY DEF c
    <3>2. c \in Database
      BY <1>1
    <3> QED BY ONLY <2>1, <3>1, <3>2, ConnectFacts, s \in Nat \cup {None}
  <2> QED BY <1>1, <2>2
<1>3. d.hdr \in [Heights -> BlockOpt]
  BY <1>0 DEF Database
<1>4. e.hdr[0] = Genesis /\ e.hdr[1] = x /\ \A k \in Heights \ {0, 1} : e.hdr[k] = d.hdr[k]
  BY <1>2, <1>3, HeightFacts
<1>5. TipInv(e) /\ BlocksInv(e) /\ JournalsInv(e)
  BY <1>0, <1>2, <1>4 DEF TipInv, BlocksInv, JournalsInv
<1>6. HeadersInv(e)
  <2>1. \A t \in Txs[x] : t \in TxIds /\ e.tx_index[t] # None
    BY <1>2, ChildFacts
  <2> QED BY <1>0, <1>4, <2>1, ChildFacts, HeightFacts DEF HeadersInv
<1>7. CoinbaseInv(e)
  BY <1>0, <1>1, <1>2 DEF CoinbaseInv
<1>8. ASSUME d.coinbase = d.tx_index PROVE e.coinbase = e.tx_index
  BY <1>1, <1>2, <1>8
<1> QED BY <1>2, <1>4, <1>5, <1>6, <1>7, <1>8, ChildFacts DEF DbInv

\* The batch of Chain::new.
LEMMA GenesisDbInv ==
    ASSUME NEW d, DbInv(d)
    PROVE  LET e == GenesisDb(d)
           IN  DbInv(e) /\ e.hdr[0] = Genesis /\ e.coinbase = e.tx_index
<1> DEFINE c == Connect(d, Genesis, 0, 0)
           e == [c EXCEPT !.state_supply = @ + Subsidy]
<1>0. d \in Database /\ TipInv(d) /\ BlocksInv(d) /\ HeadersInv(d)
      /\ JournalsInv(d) /\ CoinbaseInv(d)
  BY DEF DbInv
<1>1. /\ c \in Database
      /\ c.tip = d.tip /\ c.height = d.height /\ c.h = d.h /\ c.b = d.b
      /\ c.journals = d.journals
      /\ c.hdr = [d.hdr EXCEPT ![0] = Genesis]
      /\ c.tx_index = [t \in TxIds |-> IF t \in Txs[Genesis] THEN 0 ELSE d.tx_index[t]]
      /\ c.coinbase = [t \in TxIds |-> IF t \in Txs[Genesis] THEN 0 ELSE d.coinbase[t]]
  BY <1>0, ConnectFacts, HeightFacts
<1> HIDE DEF c
<1>2. /\ e \in Database
      /\ e.tip = c.tip /\ e.height = c.height /\ e.h = c.h /\ e.b = c.b
      /\ e.journals = c.journals /\ e.hdr = c.hdr
      /\ e.tx_index = c.tx_index /\ e.coinbase = c.coinbase
  <2>1. c.state_supply + Subsidy \in Nat
    BY <1>1 DEF Database
  <2> QED BY <1>1, <2>1 DEF Database
<1> HIDE DEF e
<1>3. d.hdr \in [Heights -> BlockOpt] /\ d.tx_index \in [TxIds -> HeightOpt]
  BY <1>0 DEF Database
<1>4. e.hdr[0] = Genesis /\ \A k \in Heights \ {0} : e.hdr[k] = d.hdr[k]
  BY <1>1, <1>2, <1>3, HeightFacts
<1>5. TipInv(e) /\ BlocksInv(e) /\ JournalsInv(e)
  BY <1>0, <1>1, <1>2, <1>4 DEF TipInv, BlocksInv, JournalsInv
<1>6. HeadersInv(e)
  <2>1. \A t \in TxIds : d.tx_index[t] # None => e.tx_index[t] # None
    BY <1>1, <1>2
  <2>2. \A x \in Child : Txs[x] \subseteq TxIds
    BY ChildFacts
  <2> QED BY <1>0, <1>4, <2>1, <2>2, ChildFacts, HeightFacts DEF HeadersInv
<1>7. CoinbaseInv(e) /\ e.coinbase = e.tx_index
  BY <1>0, <1>1, <1>2 DEF CoinbaseInv
<1> QED BY <1>2, <1>4, <1>5, <1>6, <1>7 DEF DbInv, GenesisDb, c, e

\* save_block of the genesis block at height 0 or of a child at height 1.
LEMMA SaveInv ==
    ASSUME NEW d, DbInv(d), NEW k, NEW x,
           (k = 0 /\ x = Genesis) \/ (k = 1 /\ x \in Child),
           NEW e, e = SaveBlock(d, k, x)
    PROVE  /\ DbInv(e)
           /\ e.hdr = d.hdr /\ e.coinbase = d.coinbase /\ e.tx_index = d.tx_index
<1>0. d \in Database /\ TipInv(d) /\ BlocksInv(d) /\ HeadersInv(d)
      /\ JournalsInv(d) /\ CoinbaseInv(d)
  BY DEF DbInv
<1>1. k \in Heights /\ x \in Blocks
  BY HeightFacts, ChildFacts
<1>2. /\ e \in Database
      /\ e.tip = x /\ e.height = k /\ e.b = d.b \cup {x}
      /\ e.h = [d.h EXCEPT ![k] = x]
      /\ e.hdr = d.hdr /\ e.journals = d.journals
      /\ e.tx_index = d.tx_index /\ e.coinbase = d.coinbase
  BY ONLY <1>0, <1>1, SaveBlockFacts, e = SaveBlock(d, k, x)
<1>3. d.h \in [Heights -> BlockOpt]
  BY <1>0 DEF Database
<1>4. e.h[k] = x /\ \A l \in Heights \ {k} : e.h[l] = d.h[l]
  BY <1>1, <1>2, <1>3
<1>5. TipInv(e)
  BY <1>1, <1>2, <1>4, HeightFacts DEF TipInv
<1>6. BlocksInv(e)
  BY <1>0, <1>1, <1>2, <1>4, HeightFacts DEF BlocksInv
<1>7. HeadersInv(e) /\ JournalsInv(e) /\ CoinbaseInv(e)
  BY <1>0, <1>2 DEF HeadersInv, JournalsInv, CoinbaseInv
<1> QED BY <1>2, <1>5, <1>6, <1>7 DEF DbInv

\* A journal is written or deleted.
LEMMA JournalsChangeInv ==
    ASSUME NEW d, DbInv(d), NEW q \in Seq(GoodJournal),
           q # <<>> => d.hdr[0] = Genesis,
           NEW e, e = [d EXCEPT !.journals = q]
    PROVE  DbInv(e) /\ e.journals = q /\ e.hdr = d.hdr
           /\ e.coinbase = d.coinbase /\ e.tx_index = d.tx_index
<1>0. d \in Database /\ TipInv(d) /\ BlocksInv(d) /\ HeadersInv(d) /\ CoinbaseInv(d)
  BY DEF DbInv
<1>1. q \in Seq(Journal)
  BY DEF GoodJournal
<1>2. /\ e \in Database
      /\ e.tip = d.tip /\ e.height = d.height /\ e.h = d.h /\ e.b = d.b
      /\ e.journals = q /\ e.hdr = d.hdr
      /\ e.tx_index = d.tx_index /\ e.coinbase = d.coinbase
  BY <1>0, <1>1 DEF Database
<1>3. TipInv(e) /\ BlocksInv(e) /\ HeadersInv(e) /\ CoinbaseInv(e)
  BY <1>0, <1>2 DEF TipInv, BlocksInv, HeadersInv, CoinbaseInv
<1>4. JournalsInv(e)
  BY <1>2 DEF JournalsInv
<1> QED BY <1>2, <1>3, <1>4 DEF DbInv

\* InitDb puts genesis_hash.
LEMMA InitDbInv ==
    ASSUME NEW d, DbInv(d), NEW e, e = [d EXCEPT !.genesis_hash = TRUE]
    PROVE  DbInv(e)
<1>0. d \in Database /\ TipInv(d) /\ BlocksInv(d) /\ HeadersInv(d)
      /\ JournalsInv(d) /\ CoinbaseInv(d)
  BY DEF DbInv
<1>1. /\ e \in Database
      /\ e.tip = d.tip /\ e.height = d.height /\ e.h = d.h /\ e.b = d.b
      /\ e.journals = d.journals /\ e.hdr = d.hdr
      /\ e.tx_index = d.tx_index /\ e.coinbase = d.coinbase
  BY <1>0 DEF Database
<1>2. TipInv(e) /\ BlocksInv(e) /\ HeadersInv(e) /\ JournalsInv(e) /\ CoinbaseInv(e)
  BY <1>0, <1>1 DEF TipInv, BlocksInv, HeadersInv, JournalsInv, CoinbaseInv
<1> QED BY <1>1, <1>2 DEF DbInv

\* The rollback of Chain::new deletes the coinbase keys of the genesis block.
LEMMA GenesisRollbackInv ==
    ASSUME NEW d, DbInv(d),
           NEW e, e = [d EXCEPT !.coinbase =
                        [t \in TxIds |-> IF t \in Txs[Genesis] THEN None ELSE @[t]]]
    PROVE  DbInv(e)
<1>0. d \in Database /\ TipInv(d) /\ BlocksInv(d) /\ HeadersInv(d)
      /\ JournalsInv(d) /\ CoinbaseInv(d)
  BY DEF DbInv
<1>1. /\ e \in Database
      /\ e.tip = d.tip /\ e.height = d.height /\ e.h = d.h /\ e.b = d.b
      /\ e.journals = d.journals /\ e.hdr = d.hdr
      /\ e.tx_index = d.tx_index
      /\ e.coinbase = [t \in TxIds |-> IF t \in Txs[Genesis] THEN None ELSE d.coinbase[t]]
  BY <1>0 DEF Database, HeightOpt
<1>2. TipInv(e) /\ BlocksInv(e) /\ HeadersInv(e) /\ JournalsInv(e)
  BY <1>0, <1>1 DEF TipInv, BlocksInv, HeadersInv, JournalsInv
<1>3. CoinbaseInv(e)
  BY <1>0, <1>1 DEF CoinbaseInv
<1> QED BY <1>1, <1>2, <1>3 DEF DbInv

\* load_from_db fails on everything the node leaves: the supply it has just
\* set to 0 is compared with the positive supply of the stored height.
LEMMA NeverLoads ==
    ASSUME NEW d, DbInv(d)
    PROVE  ~Loads(d)
<1> SUFFICES ASSUME Loads(d) PROVE FALSE
  OBVIOUS
<1>1. d.height \in Nat
  BY HeightFacts DEF DbInv, Database, HeightOpt, Loads
<1>2. (d.height + 1) * Subsidy # 0
  BY <1>1
<1> QED BY <1>2 DEF Loads, SupplyValidated

\* A write of a good content leaves good contents only.
LEMMA WriteInv ==
    ASSUME IInv, NEW e, DbInv(e), Write(e) \/ SyncWrite(e)
    PROVE  /\ db' = e
           /\ db' \in dbs' /\ (\A d \in dbs : d \in Database)'
           /\ (\A d \in dbs : DbInv(d))'
<1>1. db' = e /\ db' \in dbs' /\ (\A d \in dbs : DbInv(d))'
  BY DEF IInv, Write, SyncWrite
<1> QED BY <1>1 DEF DbInv

LEMMA NoWriteInv ==
    ASSUME IInv, NoWrite
    PROVE  /\ db' = db
           /\ db' \in dbs' /\ (\A d \in dbs : d \in Database)'
           /\ (\A d \in dbs : DbInv(d))'
BY DEF IInv, TypeOK, NoWrite

-----------------------------------------------------------------------------
(* Every action preserves IInv.                                            *)

LEMMA DbGood == ASSUME IInv PROVE db \in dbs /\ DbInv(db) /\ db \in Database
BY DEF IInv, TypeOK

\* A child's parent is found at height 0.
LEMMA PrevHeightZero ==
    ASSUME Running => MemInv, Running, NEW x \in Child
    PROVE  PrevHeight(x) = 0
BY DEF MemInv, PrevHeight, Child

\* The steps that only move pc: add_block goes on or ends, a boot begins.
LEMMA QuietInv ==
    ASSUME IInv,
           \/ RunNode \/ RecoverFails \/ RecoverIoError \/ RecoverDone
           \/ AddFails \/ AddIoError \/ RemoveTxs
           \/ \E x \in Blocks : AddKnown(x) \/ AddInvalid(x)
    PROVE  IInv'
<1>1. /\ NoWrite /\ mem' = mem
      /\ \/ pc' \in {"recover", "open"} /\ cur' = cur /\ ret' = ret
         \/ Running /\ pc' = "orphans" /\ cur' = cur /\ ret' = ret
         \/ Running /\ pc' = "idle" /\ cur' = None /\ ret' \in {"err", "false"}
      /\ boots' \in Nat
  BY DEF IInv, TypeOK, RunNode, RecoverFails, RecoverIoError, RecoverDone,
         AddFails, AddIoError, RemoveTxs, AddKnown, AddInvalid, Return, Running
<1>2. /\ db' = db /\ db' \in dbs' /\ (\A d \in dbs : d \in Database)'
      /\ (\A d \in dbs : DbInv(d))'
  BY <1>1, NoWriteInv
<1>3. TypeOK'
  BY <1>1, <1>2 DEF IInv, TypeOK, BlockOpt
<1>4. Running' => MemInv'
  BY <1>1, <1>2 DEF IInv, MemInv, Running
<1> QED BY <1>1, <1>2, <1>3, <1>4 DEF IInv

\* The block passes validation: it is a child of the genesis block.
LEMMA AddBlockInv ==
    ASSUME IInv, NEW x \in Blocks, AddBlock(x)
    PROVE  IInv'
<1>1. /\ NoWrite /\ mem' = mem /\ Running
      /\ pc' \in {"journal", "apply"} /\ cur' = x /\ ret' = "none" /\ boots' = boots
  BY DEF AddBlock, Running
<1>2. /\ db' = db /\ db' \in dbs' /\ (\A d \in dbs : d \in Database)'
      /\ (\A d \in dbs : DbInv(d))'
  BY <1>1, NoWriteInv
<1>3. x \in Child
  <2>1. x \in Valid /\ Parent[x] \in Blocks /\ mem.hash_to_height[Parent[x]] # None
    BY DEF AddBlock, ValidateBlock, ParentKnown
  <2> QED BY <1>1, <2>1 DEF IInv, MemInv, Child
<1>4. TypeOK'
  BY <1>1, <1>2 DEF IInv, TypeOK, BlockOpt
<1>5. Running' => MemInv'
  BY <1>1, <1>2 DEF IInv, MemInv, Running
<1>6. pc' # "apply"
  <2>1. MemInv /\ PrevHeight(x) = 0
    BY <1>1, <1>3, PrevHeightZero DEF IInv
  <2>2. mem.cumulative_work[0] = 1 /\ mem.cumulative_work[mem.best_height] \in {0, 1}
    BY <2>1, HeightFacts DEF MemInv
  <2>3. HasMoreWork(x)
    BY <2>1, <2>2 DEF HasMoreWork
  <2> QED BY <2>3 DEF AddBlock
<1> QED BY <1>1, <1>2, <1>3, <1>4, <1>5, <1>6 DEF IInv

LEMMA WithoutType ==
    ASSUME NEW s \in Seq(Blocks), NEW x \in Blocks
    PROVE  Without(s, x) \in Seq(Blocks)
<1>1. CASE \E i \in DOMAIN s : s[i] = x
  <2> DEFINE i == CHOOSE i \in DOMAIN s : s[i] = x
  <2>1. i \in 1 .. Len(s)
    BY <1>1
  <2> HIDE DEF i
  <2>2. SubSeq(s, 1, i - 1) \in Seq(Blocks) /\ SubSeq(s, i + 1, Len(s)) \in Seq(Blocks)
    BY <2>1
  <2>3. SubSeq(s, 1, i - 1) \o SubSeq(s, i + 1, Len(s)) \in Seq(Blocks)
    BY <2>2
  <2> QED BY <1>1, <2>3 DEF Without, i
<1>2. CASE ~ \E i \in DOMAIN s : s[i] = x
  BY <1>2 DEF Without
<1> QED BY <1>1, <1>2

\* Only orphan_blocks changes in memory.
LEMMA OrphansChange ==
    ASSUME mem \in Memory, NEW q \in Seq(Blocks),
           mem' = [mem EXCEPT !.orphan_blocks = q]
    PROVE  /\ mem' \in Memory
           /\ mem'.best_tip = mem.best_tip /\ mem'.best_height = mem.best_height
           /\ mem'.hash_to_height = mem.hash_to_height /\ mem'.blocks = mem.blocks
           /\ mem'.cumulative_work = mem.cumulative_work
BY DEF Memory

LEMMA AppendType ==
    ASSUME NEW S, NEW s \in Seq(S), NEW x \in S
    PROVE  Append(s, x) \in Seq(S) /\ Append(s, x) # <<>>
OBVIOUS

LEMMA OrphansInv ==
    ASSUME IInv, ProcessOrphans \/ \E x \in Blocks : AddOrphan(x)
    PROVE  IInv'
<1>1. /\ NoWrite /\ Running /\ boots' = boots
      /\ \/ pc' = "idle" /\ cur' = None /\ ret' \in {"true", "false"}
         \/ pc' = "blocked" /\ cur' = cur /\ ret' = ret
  BY DEF ProcessOrphans, AddOrphan, Return, Running
<1>2. mem \in Memory /\ mem.orphan_blocks \in Seq(Blocks)
  BY DEF IInv, TypeOK, Memory
<1>3. PICK q \in Seq(Blocks) : mem' = [mem EXCEPT !.orphan_blocks = q]
  <2>1. CASE ProcessOrphans
    <3>1. mem' = [mem EXCEPT !.orphan_blocks = <<>>]
      BY <2>1 DEF ProcessOrphans
    <3>2. <<>> \in Seq(Blocks)
      OBVIOUS
    <3> QED BY <3>1, <3>2
  <2>2. ASSUME NEW x \in Blocks, AddOrphan(x)
        PROVE  \E q \in Seq(Blocks) : mem' = [mem EXCEPT !.orphan_blocks = q]
    <3> DEFINE w == Without(mem.orphan_blocks, x)
               o == Append(w, x)
    <3>1. w \in Seq(Blocks)
      BY <1>2, WithoutType
    <3> HIDE DEF w
    <3>2. o \in Seq(Blocks) /\ o # <<>>
      BY <3>1, AppendType
    <3> HIDE DEF o
    <3>3. Tail(o) \in Seq(Blocks)
      BY <3>2
    <3>4. mem' = [mem EXCEPT !.orphan_blocks =
                        IF Len(o) > MaxOrphans THEN Tail(o) ELSE o]
      BY <2>2 DEF AddOrphan, o, w
    <3> QED BY <3>2, <3>3, <3>4
  <2> QED BY <2>1, <2>2
<1>4. /\ mem' \in Memory
      /\ mem'.best_tip = mem.best_tip /\ mem'.best_height = mem.best_height
      /\ mem'.hash_to_height = mem.hash_to_height /\ mem'.blocks = mem.blocks
      /\ mem'.cumulative_work = mem.cumulative_work
  BY <1>2, <1>3, OrphansChange
<1>5. /\ db' = db /\ db' \in dbs' /\ (\A d \in dbs : d \in Database)'
      /\ (\A d \in dbs : DbInv(d))'
  BY <1>1, NoWriteInv
<1>6. TypeOK'
  BY <1>1, <1>4, <1>5 DEF IInv, TypeOK, BlockOpt
<1>7. MemInv'
  BY <1>1, <1>4, <1>5 DEF IInv, MemInv
<1> QED BY <1>1, <1>5, <1>6, <1>7 DEF IInv

LEMMA InitDbStepInv ==
    ASSUME IInv, InitDb
    PROVE  IInv'
<1> DEFINE e == [db EXCEPT !.genesis_hash = TRUE]
<1>1. DbInv(e)
  BY DbGood, InitDbInv
<1>2. Write(e) /\ pc = "down" /\ UNCHANGED <<mem, pc, cur, ret, boots>>
  BY DEF InitDb
<1> HIDE DEF e
<1>3. /\ db' \in dbs' /\ (\A d \in dbs : d \in Database)'
      /\ (\A d \in dbs : DbInv(d))'
  BY <1>1, <1>2, WriteInv
<1>4. TypeOK'
  BY <1>2, <1>3 DEF IInv, TypeOK
<1> QED BY <1>2, <1>3, <1>4 DEF IInv, Running

\* A journal that describes the stored tip leads back to the genesis block:
\* its depth is the stored height, so its block is connected at height 1.
LEMMA RecoverReplayInv ==
    ASSUME IInv, RecoverReplay
    PROVE  IInv'
<1> DEFINE j == Head(db.journals)
           S == {LoadBlock(db, k) : k \in (db.height - j.disconnect_depth + 1) .. db.height}
           e == Connect(Disconnect(db, S), j.new_block, 1, db.total_supply)
<1>1. /\ pc = "recover" /\ db.journals # <<>> /\ db.height = j.old_tip_height
      /\ SyncWrite(Replayed(db)) /\ pc' = "discard"
      /\ UNCHANGED <<mem, cur, ret, boots>>
  BY DEF RecoverReplay, JournalCurrent
<1>2. DbInv(db) /\ db.hdr[0] = Genesis /\ db.journals \in Seq(GoodJournal)
      /\ db.total_supply \in Nat \cup {None}
  BY <1>1, DbGood DEF DbInv, JournalsInv, Database
<1>3. j \in GoodJournal
  BY <1>1, <1>2
<1>4. j.new_block \in Child /\ db.height - j.disconnect_depth + 1 = 1
  BY <1>1, <1>3 DEF GoodJournal
<1>5. Replayed(db) = e
  BY <1>4 DEF Replayed
<1> HIDE DEF S, j
<1>6. DbInv(e) /\ e.journals = db.journals
  <2> DEFINE x == j.new_block
             s == db.total_supply
  <2>1. e = Connect(Disconnect(db, S), x, 1, s) /\ x \in Child /\ s \in Nat \cup {None}
    BY <1>2, <1>4
  <2>2. DbInv(db) /\ db.hdr[0] = Genesis
    BY <1>2
  <2> HIDE DEF e, x, s
  <2> QED BY ONLY <2>1, <2>2, ReplaceInv
<1> HIDE DEF e
<1>7. /\ db' = e /\ db' \in dbs' /\ (\A d \in dbs : d \in Database)'
      /\ (\A d \in dbs : DbInv(d))'
  BY <1>1, <1>5, <1>6, WriteInv
<1>8. TypeOK'
  BY <1>1, <1>7 DEF IInv, TypeOK
<1> QED BY <1>1, <1>6, <1>7, <1>8 DEF IInv, Running

LEMMA RecoverDiscardInv ==
    ASSUME IInv, RecoverDiscard
    PROVE  IInv'
<1> DEFINE q == Tail(db.journals)
           e == [db EXCEPT !.journals = q]
<1>1. /\ db.journals # <<>> /\ Write(e) /\ pc' = "recover"
      /\ UNCHANGED <<mem, cur, ret, boots>>
  BY DEF RecoverDiscard, IInv
<1>2. DbInv(db) /\ db.hdr[0] = Genesis /\ db.journals \in Seq(GoodJournal)
  BY <1>1, DbGood DEF DbInv, JournalsInv
<1>3. q \in Seq(GoodJournal)
  BY <1>1, <1>2
<1> HIDE DEF q
<1>4. DbInv(e)
  BY <1>2, <1>3, JournalsChangeInv
<1> HIDE DEF e
<1>5. /\ db' \in dbs' /\ (\A d \in dbs : d \in Database)'
      /\ (\A d \in dbs : DbInv(d))'
  BY <1>1, <1>4, WriteInv
<1>6. TypeOK'
  BY <1>1, <1>5 DEF IInv, TypeOK
<1> QED BY <1>1, <1>5, <1>6 DEF IInv, Running

LEMMA OpenInv ==
    ASSUME IInv, Open
    PROVE  IInv'
<1> DEFINE e == GenesisDb(db)
<1>1. ~Loads(db) /\ DbInv(e) /\ e.hdr[0] = Genesis /\ e.coinbase = e.tx_index
  BY DbGood, NeverLoads, GenesisDbInv
<1>2. /\ Write(e) /\ mem' = GenesisMemory(db) /\ pc' = "idle"
      /\ UNCHANGED <<cur, ret, boots>>
  BY <1>1 DEF Open
<1> HIDE DEF e
<1>3. /\ db' = e /\ db' \in dbs' /\ (\A d \in dbs : d \in Database)'
      /\ (\A d \in dbs : DbInv(d))'
  BY <1>1, <1>2, WriteInv
<1>4. db.state_supply + Subsidy \in Nat
  BY DbGood DEF Database
<1>5. /\ mem' \in Memory
      /\ mem'.best_tip = Genesis /\ mem'.best_height = 0
      /\ mem'.hash_to_height = [x \in Blocks |-> IF x = Genesis THEN 0 ELSE None]
      /\ mem'.blocks = [k \in Heights |-> IF k = 0 THEN Genesis ELSE None]
      /\ mem'.cumulative_work = [k \in Heights |-> IF k = 0 THEN 1 ELSE 0]
  <2>1. mem' = [best_tip |-> Genesis, best_height |-> 0,
                hash_to_height |-> [x \in Blocks |-> IF x = Genesis THEN 0 ELSE None],
                cumulative_work |-> [k \in Heights |-> IF k = 0 THEN 1 ELSE 0],
                blocks |-> [k \in Heights |-> IF k = 0 THEN Genesis ELSE None],
                total_supply |-> db.state_supply + Subsidy,
                orphan_blocks |-> <<>>]
    BY <1>2, HeightFacts DEF GenesisMemory, NoMemory
  <2> QED BY <1>4, <2>1, HeightFacts DEF Memory, BlockOpt, HeightOpt
<1>6. TypeOK'
  BY <1>2, <1>3, <1>5 DEF IInv, TypeOK
<1>7. MemInv'
  BY <1>1, <1>3, <1>5 DEF MemInv
<1> QED BY <1>2, <1>3, <1>6, <1>7 DEF IInv

LEMMA OpenFailsInv ==
    ASSUME IInv, OpenFails
    PROVE  IInv'
<1> DEFINE e == [db EXCEPT !.coinbase =
                    [t \in TxIds |-> IF t \in Txs[Genesis] THEN None ELSE @[t]]]
<1>1. DbInv(e)
  BY DbGood, GenesisRollbackInv
<1>2. (Write(e) \/ NoWrite) /\ pc' = "down" /\ UNCHANGED <<mem, cur, ret, boots>>
  BY DEF OpenFails
<1> HIDE DEF e
<1>3. /\ db' \in dbs' /\ (\A d \in dbs : d \in Database)'
      /\ (\A d \in dbs : DbInv(d))'
  BY <1>1, <1>2, WriteInv, NoWriteInv
<1>4. TypeOK'
  BY <1>2, <1>3 DEF IInv, TypeOK
<1> QED BY <1>2, <1>3, <1>4 DEF IInv, Running

LEMMA WriteJournalInv ==
    ASSUME IInv, WriteJournal
    PROVE  IInv'
<1> DEFINE j == [old_tip_height |-> mem.best_height,
                 old_tip_hash |-> mem.best_tip,
                 disconnect_depth |-> mem.best_height - PrevHeight(cur),
                 new_block |-> cur]
           q == Append(db.journals, j)
           e == [db EXCEPT !.journals = q]
<1>1. /\ pc = "journal" /\ Write(e) /\ pc' = "commit"
      /\ UNCHANGED <<mem, cur, ret, boots>>
  BY DEF WriteJournal
<1>2. MemInv /\ cur \in Child /\ PrevHeight(cur) = 0
  BY <1>1, PrevHeightZero DEF IInv, Running
<1>3. j \in GoodJournal
  BY <1>2, HeightFacts, ChildFacts DEF GoodJournal, Journal, MemInv, BlockOpt
<1> HIDE DEF j
<1>4. DbInv(db) /\ db.hdr[0] = Genesis /\ q \in Seq(GoodJournal)
  BY <1>2, <1>3, DbGood DEF DbInv, JournalsInv, MemInv
<1> HIDE DEF q
<1>5. DbInv(e) /\ e.hdr = db.hdr /\ e.coinbase = db.coinbase /\ e.tx_index = db.tx_index
  BY <1>4, JournalsChangeInv
<1> HIDE DEF e
<1>6. /\ db' = e /\ db' \in dbs' /\ (\A d \in dbs : d \in Database)'
      /\ (\A d \in dbs : DbInv(d))'
  BY <1>1, <1>5, WriteInv
<1>7. TypeOK'
  BY <1>1, <1>6 DEF IInv, TypeOK
<1>8. MemInv'
  BY <1>1, <1>2, <1>5, <1>6 DEF MemInv
<1> QED BY <1>1, <1>2, <1>6, <1>7, <1>8 DEF IInv

LEMMA CommitBatchInv ==
    ASSUME IInv, CommitBatch
    PROVE  IInv'
<1> DEFINE S == {LoadBlock(db, k) : k \in OldChain}
           s == mem.total_supply
           e == Connect(Disconnect(db, S), cur, 1, s)
<1>1. /\ pc = "commit" /\ pc' = "unjournal"
      /\ SyncWrite(Connect(Disconnect(db, S), cur, PrevHeight(cur) + 1, s))
      /\ UNCHANGED <<mem, cur, ret, boots>>
  BY DEF CommitBatch
<1>2. MemInv /\ cur \in Child /\ PrevHeight(cur) + 1 = 1
  BY <1>1, PrevHeightZero DEF IInv, Running
<1>3. s \in Nat \cup {None}
  BY DEF IInv, TypeOK, Memory
<1> HIDE DEF S, s
<1>4. /\ DbInv(e) /\ e.hdr[0] = Genesis /\ e.hdr[1] # None
      /\ e.coinbase = e.tx_index
  <2>1. e = Connect(Disconnect(db, S), cur, 1, s)
    OBVIOUS
  <2>2. DbInv(db) /\ db.hdr[0] = Genesis /\ db.coinbase = db.tx_index /\ cur \in Child
    BY <1>2, DbGood DEF MemInv
  <2> HIDE DEF e
  <2> QED BY ONLY <1>3, <2>1, <2>2, ReplaceInv
<1>5. SyncWrite(e)
  BY <1>1, <1>2
<1> HIDE DEF e
<1>6. /\ db' = e /\ db' \in dbs' /\ (\A d \in dbs : d \in Database)'
      /\ (\A d \in dbs : DbInv(d))'
  BY <1>4, <1>5, WriteInv
<1>7. TypeOK'
  BY <1>1, <1>6 DEF IInv, TypeOK
<1>8. MemInv'
  BY <1>1, <1>2, <1>4, <1>6 DEF MemInv
<1> QED BY <1>1, <1>2, <1>4, <1>6, <1>7, <1>8 DEF IInv

LEMMA DeleteJournalInv ==
    ASSUME IInv, DeleteJournal
    PROVE  IInv'
<1> DEFINE q == SubSeq(db.journals, 1, Len(db.journals) - 1)
           e == [db EXCEPT !.journals = q]
<1>1. /\ pc = "unjournal" /\ Write(e) /\ pc' = "save"
      /\ mem' = [mem EXCEPT !.best_height = PrevHeight(cur) + 1]
      /\ UNCHANGED <<cur, ret, boots>>
  BY DEF DeleteJournal
<1>2. MemInv /\ cur \in Child /\ PrevHeight(cur) + 1 = 1 /\ db.hdr[1] # None
  BY <1>1, PrevHeightZero DEF IInv, Running
<1>3. DbInv(db) /\ db.hdr[0] = Genesis /\ q \in Seq(GoodJournal)
  <2>1. DbInv(db) /\ db.hdr[0] = Genesis /\ db.journals \in Seq(GoodJournal)
    BY <1>2, DbGood DEF DbInv, JournalsInv, MemInv
  <2>2. q \in Seq(GoodJournal)
    BY ONLY <2>1
  <2> QED
    BY <2>1, <2>2
<1> HIDE DEF q
<1>4. DbInv(e) /\ e.hdr = db.hdr /\ e.coinbase = db.coinbase /\ e.tx_index = db.tx_index
  BY <1>3, JournalsChangeInv
<1> HIDE DEF e
<1>5. /\ db' = e /\ db' \in dbs' /\ (\A d \in dbs : d \in Database)'
      /\ (\A d \in dbs : DbInv(d))'
  BY <1>1, <1>4, WriteInv
<1>6. /\ mem' \in Memory /\ mem'.best_height = 1
      /\ mem'.best_tip = mem.best_tip
      /\ mem'.hash_to_height = mem.hash_to_height /\ mem'.blocks = mem.blocks
      /\ mem'.cumulative_work = mem.cumulative_work
  BY <1>1, <1>2, HeightFacts DEF IInv, TypeOK, Memory
<1>7. TypeOK'
  BY <1>1, <1>5, <1>6 DEF IInv, TypeOK
<1>8. MemInv'
  BY <1>2, <1>4, <1>5, <1>6 DEF MemInv
<1> QED BY <1>1, <1>2, <1>5, <1>7, <1>8 DEF IInv

LEMMA SaveStepInv ==
    ASSUME IInv, Save
    PROVE  IInv'
<1> DEFINE e == SaveBlock(db, 1, cur)
<1>1. /\ pc = "save" /\ SyncWrite(SaveBlock(db, PrevHeight(cur) + 1, cur))
      /\ pc' \in {"mempool", "blocked"} /\ UNCHANGED <<mem, cur, ret, boots>>
  BY DEF Save
<1>2. MemInv /\ cur \in Child /\ PrevHeight(cur) + 1 = 1
  BY <1>1, PrevHeightZero DEF IInv, Running
<1>3. DbInv(e) /\ e.hdr = db.hdr /\ e.coinbase = db.coinbase /\ e.tx_index = db.tx_index
  <2>1. e = SaveBlock(db, 1, cur) /\ cur \in Child
    BY <1>2
  <2>2. DbInv(db)
    BY DbGood
  <2> HIDE DEF e
  <2> QED BY ONLY <2>1, <2>2, SaveInv
<1>4. SyncWrite(e)
  BY <1>1, <1>2
<1> HIDE DEF e
<1>5. /\ db' = e /\ db' \in dbs' /\ (\A d \in dbs : d \in Database)'
      /\ (\A d \in dbs : DbInv(d))'
  BY <1>3, <1>4, WriteInv
<1>6. TypeOK'
  BY <1>1, <1>5 DEF IInv, TypeOK
<1>7. MemInv'
  BY <1>1, <1>2, <1>3, <1>5 DEF MemInv
<1> QED BY <1>1, <1>5, <1>6, <1>7 DEF IInv

LEMMA NoMemoryType == NoMemory \in Memory
BY HeightFacts DEF NoMemory, Memory, BlockOpt, HeightOpt

\* A clean shutdown saves the genesis block or nothing.
LEMMA StopInv ==
    ASSUME IInv, Shutdown \/ Crash
    PROVE  IInv'
<1>1. /\ mem' = NoMemory /\ pc' = "down" /\ cur' = None /\ ret' = "none" /\ boots' = boots
  BY DEF Shutdown, Crash
<1>2. PICK e : DbInv(e) /\ SyncWrite(e)
  <2>1. CASE Crash
    BY <2>1 DEF Crash, IInv
  <2>2. CASE Shutdown
    <3>1. MemInv
      BY <2>2 DEF Shutdown, IInv, Running
    <3>2. CASE mem.best_height = 0
      <4> DEFINE k == 0
                 e == SaveBlock(db, k, Genesis)
      <4>1. SyncWrite(e)
        BY <2>2, <3>1, <3>2, HeightFacts DEF Shutdown, MemInv
      <4>2. e = SaveBlock(db, k, Genesis) /\ k = 0 /\ DbInv(db)
        BY DbGood
      <4> HIDE DEF e, k
      <4>3. DbInv(e)
        BY ONLY <4>2, SaveInv
      <4> QED BY <4>1, <4>3
    <3>3. CASE mem.best_height = 1
      <4>1. SyncWrite(db)
        BY <2>2, <3>1, <3>3, HeightFacts DEF Shutdown, MemInv
      <4> QED BY <4>1, DbGood
    <3> QED BY <3>1, <3>2, <3>3 DEF MemInv
  <2> QED BY <2>1, <2>2
<1>3. /\ db' \in dbs' /\ (\A d \in dbs : d \in Database)'
      /\ (\A d \in dbs : DbInv(d))'
  BY <1>2, WriteInv
<1>4. TypeOK'
  BY <1>1, <1>3, NoMemoryType DEF IInv, TypeOK, BlockOpt
<1> QED BY <1>1, <1>3, <1>4 DEF IInv, Running

-----------------------------------------------------------------------------
(* The theorems.                                                           *)

\* IInv is an invariant of the node, whatever crashes and I/O errors happen.
THEOREM Inductive == Spec => []IInv
<1>1. Init => IInv
  <2> SUFFICES ASSUME Init PROVE IInv
    OBVIOUS
  <2>1. DbInv(EmptyDb) /\ EmptyDb \in Database
    BY EmptyDbInv DEF DbInv
  <2>2. TypeOK
    BY <2>1, NoMemoryType DEF Init, TypeOK, BlockOpt
  <2> QED BY <2>1, <2>2 DEF Init, IInv, Running
<1>2. IInv /\ [Next]_vars => IInv'
  <2> SUFFICES ASSUME IInv, [Next]_vars PROVE IInv'
    OBVIOUS
  <2>1. CASE UNCHANGED vars
    <3>1. NoWrite /\ UNCHANGED <<mem, pc, cur, ret, boots>>
      BY <2>1 DEF vars, NoWrite
    <3>2. /\ db' = db /\ db' \in dbs' /\ (\A d \in dbs : d \in Database)'
          /\ (\A d \in dbs : DbInv(d))'
      BY <3>1, NoWriteInv
    <3>3. TypeOK' /\ (Running' => MemInv')
      BY <3>1, <3>2 DEF IInv, TypeOK, Running, MemInv
    <3> QED BY <3>1, <3>2, <3>3 DEF IInv
  <2>2. CASE InitDb
    BY <2>2, InitDbStepInv
  <2>3. CASE RunNode
    BY <2>3, QuietInv
  <2>4. CASE Recover
    BY <2>4, QuietInv, RecoverReplayInv, RecoverDiscardInv DEF Recover
  <2>5. CASE Open
    BY <2>5, OpenInv
  <2>6. ASSUME NEW x \in Blocks,
               AddKnown(x) \/ AddOrphan(x) \/ AddInvalid(x) \/ AddBlock(x)
        PROVE  IInv'
    BY <2>6, QuietInv, OrphansInv, AddBlockInv
  <2>7. CASE StoreStep
    BY <2>7, WriteJournalInv, CommitBatchInv, DeleteJournalInv, SaveStepInv,
       QuietInv DEF StoreStep
  <2>10. CASE RemoveTxs \/ ProcessOrphans
    BY <2>10, QuietInv, OrphansInv
  <2>8. CASE Shutdown \/ Crash
    BY <2>8, StopInv
  <2>9. CASE RecoverIoError \/ OpenFails \/ AddIoError
    BY <2>9, OpenFailsInv, QuietInv
  <2> QED BY <2>1, <2>2, <2>3, <2>4, <2>5, <2>6, <2>7, <2>8, <2>9, <2>10
            DEF Next
<1> QED BY <1>1, <1>2, PTL DEF Spec

\* Type correctness of the node's state and of every database a crash leaves.
THEOREM TypeCorrect == Spec => []TypeOK
<1>1. IInv => TypeOK
  BY DEF IInv
<1> QED BY <1>1, Inductive, PTL

\* A stored tip can always be loaded, after any crash.
THEOREM TipAlwaysStored == Spec => []TipStored
<1>1. IInv => TipStored
  BY DEF IInv, DbInv, TipInv, TipStored
<1> QED BY <1>1, Inductive, PTL

\* The stored headers form a chain, after any crash and any recovery.
THEOREM HeadersAlwaysLinked == Spec => []HeadersLinked
<1>1. ASSUME IInv, NEW d \in dbs, NEW k \in Heights \ {0}, d.hdr[k] # None
      PROVE  d.hdr[k - 1] # None /\ Parent[d.hdr[k]] = d.hdr[k - 1]
  <2>1. k = 1 /\ d.hdr[k] \in Child /\ d.hdr[0] = Genesis
    BY <1>1 DEF IInv, DbInv, HeadersInv
  <2> QED BY <2>1, ChildFacts DEF Child
<1>2. IInv => HeadersLinked
  BY <1>1 DEF HeadersLinked
<1> QED BY <1>2, Inductive, PTL

\* Only validated blocks are stored, journalled or recovered.
THEOREM OnlyValidPersisted == Spec => []PersistedValid
<1>1. ASSUME IInv, NEW d \in dbs
      PROVE  /\ d.b \subseteq Valid \cup {Genesis}
             /\ \A k \in Heights : d.hdr[k] \in Valid \cup {Genesis, None}
             /\ \A i \in DOMAIN d.journals : d.journals[i].new_block \in Valid
  <2>0. BlocksInv(d) /\ HeadersInv(d) /\ JournalsInv(d)
    BY <1>1 DEF IInv, DbInv
  <2>1. d.b \subseteq Valid \cup {Genesis}
    BY <2>0, ChildFacts DEF BlocksInv
  <2>2. \A k \in Heights : d.hdr[k] \in Valid \cup {Genesis, None}
    BY <2>0, ChildFacts DEF HeadersInv
  <2>3. \A i \in DOMAIN d.journals : d.journals[i] \in GoodJournal
    BY <2>0 DEF JournalsInv
  <2>4. \A i \in DOMAIN d.journals : d.journals[i].new_block \in Valid
    BY <2>3, ChildFacts DEF GoodJournal
  <2> QED BY <2>1, <2>2, <2>4
<1>2. IInv => PersistedValid
  BY <1>1 DEF PersistedValid
<1> QED BY <1>2, Inductive, PTL

\* The stored chain is sound after any crash and any recovery.
THEOREM StoredChainAlways == Spec => []StoredChain
<1>1. TipStored /\ HeadersLinked /\ PersistedValid => StoredChain
  BY DEF StoredChain
<1> QED BY <1>1, TipAlwaysStored, HeadersAlwaysLinked, OnlyValidPersisted, PTL

\* Every transaction of a stored header's block can be found.
THEOREM HeadersAlwaysIndexed == Spec => []HeaderIndexed
<1>1. IInv => HeaderIndexed
  BY DEF IInv, DbInv, HeadersInv, HeaderIndexed
<1> QED BY <1>1, Inductive, PTL

\* The coinbase column family of a running node agrees with its tx_index.
THEOREM CoinbaseAlwaysIndexed == Spec => []CoinbaseMatchesIndex
<1>1. IInv => CoinbaseMatchesIndex
  BY DEF IInv, MemInv, CoinbaseMatchesIndex
<1> QED BY <1>1, Inductive, PTL

\* Both indices of transactions serve the stored chain.
THEOREM AlwaysIndexed == Spec => []Indexed
<1>1. HeaderIndexed /\ CoinbaseMatchesIndex => Indexed
  BY DEF Indexed
<1> QED BY <1>1, HeadersAlwaysIndexed, CoinbaseAlwaysIndexed, PTL

\* A running node serves chains of headers.
THEOREM HeadersAlwaysServed == Spec => []HeadersServed
<1>1. ASSUME IInv, Running, NEW locator \in Blocks, NEW stop \in Blocks,
             NEW i \in DOMAIN GetHeaders(locator, stop)
      PROVE  LET s == GetHeaders(locator, stop)
             IN  /\ s[i] # None
                 /\ Parent[s[i]] = IF i = 1 THEN locator ELSE s[i - 1]
  <2> DEFINE start == mem.hash_to_height[locator] + 1
             ends == {k \in start .. mem.best_height : LoadHeader(db, k) = stop}
             last == IF ends = {} THEN mem.best_height
                     ELSE CHOOSE k \in ends : \A l \in ends : k <= l
             s == GetHeaders(locator, stop)
  <2>1. MemInv
    BY <1>1 DEF IInv
  <2>2. mem.hash_to_height[locator] # None
    BY <1>1 DEF GetHeaders
  <2>3. locator = Genesis /\ start = 1
    BY <2>1, <2>2 DEF MemInv
  <2>4. s = [n \in 1 .. (last + 1 - start) |-> LoadHeader(db, start + n - 1)]
    BY <2>2 DEF GetHeaders
  <2>5. last \in {0, 1}
    <3>1. CASE ends = {}
      BY <2>1, <3>1 DEF MemInv
    <3>2. CASE ends # {}
      <4>1. ends = {1}
        BY <2>1, <2>3, <3>2 DEF MemInv
      <4> HIDE DEF ends
      <4> QED BY <4>1
    <3> QED BY <3>1, <3>2
  <2> HIDE DEF last, start, s
  <2>6. i = 1 /\ last = 1 /\ s[i] = LoadHeader(db, 1)
    BY <1>1, <2>3, <2>4, <2>5 DEF s
  <2>7. mem.best_height = 1
    <3>1. CASE mem.best_height = 0
      <4>1. ends = {}
        BY <2>3, <3>1
      <4> QED BY <2>6, <3>1, <4>1 DEF last
    <3> QED BY <2>1, <3>1 DEF MemInv
  <2>8. db.hdr[1] # None
    BY <2>1, <2>7 DEF MemInv
  <2>9. db.hdr[1] \in Child
    BY <1>1, <2>8, DbGood, HeightFacts DEF DbInv, HeadersInv
  <2> QED BY <2>3, <2>6, <2>8, <2>9, ChildFacts DEF LoadHeader, Child, s
<1>2. IInv => HeadersServed
  BY <1>1 DEF HeadersServed
<1> QED BY <1>2, Inductive, PTL

\* load_from_db never succeeds: whatever the node has stored, and whatever a
\* crash leaves of it, the next start falls back to Chain::new.
THEOREM LoadNeverSucceeds == Spec => [](\A d \in dbs : ~Loads(d))
<1>1. IInv => \A d \in dbs : ~Loads(d)
  BY NeverLoads DEF IInv
<1> QED BY <1>1, Inductive, PTL

\* add_block never gets into the branch that waits for the state_lock it holds
\* (chain.rs 725): every block it accepts has more work than its best height.
THEOREM NeverWaitsForItself == Spec => [](pc # "apply")
<1>1. IInv => pc # "apply"
  BY DEF IInv
<1> QED BY <1>1, Inductive, PTL

\* The header and the index entries after x has replaced S at height 1.
Replaced(d, S, x, e) ==
    /\ e.hdr = [d.hdr EXCEPT ![1] = x]
    /\ \A t \in TxIds :
         /\ t \in Txs[x] => e.tx_index[t] = 1
         /\ t \notin Txs[x] /\ (\E y \in S : t \in Txs[y]) => e.tx_index[t] = None
         /\ t \notin Txs[x] /\ ~(\E y \in S : t \in Txs[y])
                => e.tx_index[t] = d.tx_index[t]

LEMMA ReplaceFacts ==
    ASSUME NEW d \in Database, NEW S, NEW x \in Blocks, NEW s \in Nat \cup {None},
           NEW e, e = Connect(Disconnect(d, S), x, 1, s)
    PROVE  Replaced(d, S, x, e)
<1> DEFINE c == Disconnect(d, S)
           gone == UNION {Txs[y] : y \in S}
<1>1. /\ c \in Database
      /\ c.tip = d.tip /\ c.height = d.height /\ c.h = d.h /\ c.b = d.b
      /\ c.journals = d.journals /\ c.hdr = d.hdr
      /\ c.tx_index = [t \in TxIds |-> IF t \in gone THEN None ELSE d.tx_index[t]]
      /\ c.coinbase = [t \in TxIds |-> IF t \in gone THEN None ELSE d.coinbase[t]]
  BY DisconnectFacts
<1>4. /\ c \in Database /\ c.hdr = d.hdr
      /\ c.tx_index = [t \in TxIds |-> IF t \in gone THEN None ELSE d.tx_index[t]]
  BY <1>1
<1>2. e = Connect(c, x, 1, s)
  OBVIOUS
<1> HIDE DEF c
<1>3. /\ e.hdr = [c.hdr EXCEPT ![1] = x]
      /\ e.tx_index = [t \in TxIds |-> IF t \in Txs[x] THEN 1 ELSE c.tx_index[t]]
  <2>1. 1 \in Heights /\ x \in Blocks /\ s \in Nat \cup {None}
    BY HeightFacts
  <2>2. /\ e \in Database
        /\ e.tip = c.tip /\ e.height = c.height /\ e.h = c.h /\ e.b = c.b
        /\ e.journals = c.journals
        /\ e.hdr = [c.hdr EXCEPT ![1] = x]
        /\ e.tx_index = [t \in TxIds |-> IF t \in Txs[x] THEN 1 ELSE c.tx_index[t]]
        /\ e.coinbase = [t \in TxIds |-> IF t \in Txs[x] THEN 1 ELSE c.coinbase[t]]
    BY ONLY <1>4, <1>2, <2>1, ConnectFacts
  <2> QED BY <2>2
<1> QED BY <1>3, <1>4 DEF Replaced

\* CommitBatch on an exact index: the transactions of the block at height 1
\* lose their entries, those of the new block get theirs.
LEMMA CommitExact ==
    ASSUME IInv, CommitBatch, IndexExact(db),
           \A k \in Heights : k > mem.best_height => db.hdr[k] = None,
           \A k \in OldChain : LoadBlock(db, k) = db.hdr[k]
    PROVE  IndexExact(db')
<1>1. db \in Database /\ DbInv(db) /\ MemInv /\ cur \in Child
  BY DbGood DEF IInv, CommitBatch, Running
<1>2. PrevHeight(cur) = 0
  BY <1>1, PrevHeightZero DEF Running, CommitBatch
<1> DEFINE S == {LoadBlock(db, k) : k \in OldChain}
<1>3. db' = Connect(Disconnect(db, S), cur, 1, mem.total_supply)
  <2>1. db' = Connect(Disconnect(db, S), cur, PrevHeight(cur) + 1, mem.total_supply)
    BY DEF CommitBatch, SyncWrite
  <2>2. PrevHeight(cur) + 1 = 1
    BY ONLY <1>2
  <2> QED
    BY ONLY <2>1, <2>2
<1>4. S = {LoadBlock(db, k) : k \in OldChain}
  OBVIOUS
<1>5. cur \in Blocks /\ cur # None /\ 1 \in Heights
      /\ mem.total_supply \in Nat \cup {None}
  BY <1>1, ChildFacts, HeightFacts DEF IInv, TypeOK, Memory
<1> HIDE DEF S
<1>6. Replaced(db, S, cur, db')
  BY <1>1, <1>3, <1>5, ReplaceFacts
<1>7. OldChain = 1 .. mem.best_height
  <2>1. OldChain = (PrevHeight(cur) + 1) .. mem.best_height
    BY ONLY DEF OldChain
  <2>2. PrevHeight(cur) + 1 = 1
    BY ONLY <1>2
  <2> QED
    BY ONLY <2>1, <2>2
<1>8. db.hdr[1] # None => db.hdr[1] \in S
  <2>1. CASE mem.best_height = 0
    BY <2>1, <1>5
  <2>2. CASE mem.best_height = 1
    BY <1>4, <1>7, <2>2
  <2> QED BY <1>1, <2>1, <2>2 DEF MemInv
<1>9. \A k \in Heights \ {0} : k # 1 => db.hdr[k] = None
  BY <1>1 DEF DbInv, HeadersInv
<1>10. db.hdr \in [Heights -> BlockOpt] /\ db.tx_index \in [TxIds -> HeightOpt]
  BY <1>1 DEF Database
<1> SUFFICES ASSUME NEW k \in Heights \ {0}, NEW t \in TxIds
             PROVE  db'.tx_index[t] = k <=> db'.hdr[k] # None /\ t \in Txs[db'.hdr[k]]
  BY DEF IndexExact
<1>11. CASE k = 1
  <2>1. db'.hdr[k] = cur
    BY <1>5, <1>6, <1>10, <1>11 DEF Replaced
  <2>2. CASE t \in Txs[cur]
    BY <1>5, <1>6, <1>11, <2>1, <2>2 DEF Replaced
  <2>3. CASE t \notin Txs[cur]
    <3>1. ~(\E y \in S : t \in Txs[y]) => db.tx_index[t] # 1
      BY <1>5, <1>8, HeightFacts DEF IndexExact
    <3> QED BY <1>6, <1>11, <2>1, <2>3, <3>1 DEF Replaced
  <2> QED BY <2>2, <2>3
<1>12. CASE k # 1
  <2>1. db'.hdr[k] = None
    BY <1>6, <1>9, <1>10, <1>12 DEF Replaced
  <2>2. db.tx_index[t] # k
    BY <1>9, <1>12 DEF IndexExact
  <2>3. db'.tx_index[t] # k
    <3>1. db'.tx_index[t] \in {1, None, db.tx_index[t]}
      BY ONLY <1>6 DEF Replaced
    <3>2. k # None
      BY HeightFacts, NoneAssumption
    <3> QED
      BY ONLY <3>1, <3>2, <1>12, <2>2
  <2> QED BY <2>1, <2>3
<1> QED BY <1>11, <1>12

\* A replaced block is rolled back completely by the commit that replaces it,
\* unless an earlier failure left the index inexact.
THEOREM ReplacementAlwaysExact == Spec => ReplacementExact
<1> DEFINE A == /\ pc = "commit" /\ pc' = "unjournal"
                /\ IndexExact(db)
                /\ \A k \in Heights : k > mem.best_height => db.hdr[k] = None
                /\ \A k \in OldChain : LoadBlock(db, k) = db.hdr[k]
                => IndexExact(db')
<1>1. ASSUME IInv, [Next]_vars
      PROVE  [A]_vars
  <2>1. SUFFICES ASSUME pc = "commit", pc' = "unjournal"
                 PROVE  CommitBatch
    BY <1>1, CommitExact
  <2> QED
    BY <1>1, <2>1 DEF Next, vars, InitDb, RunNode, Recover, RecoverFails, RecoverReplay,
       RecoverDiscard, RecoverDone, RecoverIoError, Open, OpenFails, AddKnown,
       AddOrphan, AddInvalid, AddBlock, StoreStep, WriteJournal, DeleteJournal, RemoveTxs,
       Save, AddFails, AddIoError, ProcessOrphans, Return, Shutdown, Crash
<1> QED BY <1>1, Inductive, PTL DEF Spec, ReplacementExact

=============================================================================
