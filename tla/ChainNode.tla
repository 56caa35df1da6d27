----------------------------- MODULE ChainNode -----------------------------
(***************************************************************************)
(* The block store of a lyrion node through its whole life: boot, recovery *)
(* of pending reorganizations, add_block with its journal, batch and save, *)
(* clean shutdown, I/O errors and crashes (src/111/src/chain.rs, and the   *)
(* boot and shutdown code of src/111/src/main.rs).                         *)
(*                                                                         *)
(* RocksDB writes without set_sync reach the disk in order but may be lost *)
(* by a crash; a synced write makes everything before it durable.  `db' is *)
(* what reads return, `dbs' the set of states a crash may leave behind.    *)
(*                                                                         *)
(* The transactions of every block that reaches the store are coinbases:   *)
(* handle_utxo_action returns before a coinbase output enters the UTXO     *)
(* column families, so these stay empty, and validate_block rejects every  *)
(* other transaction for its missing inputs or its missing fee.            *)
(***************************************************************************)
EXTENDS Naturals, FiniteSets, Sequences

CONSTANTS
    Blocks,      \* the block hashes; a hash identifies its block
    Genesis,     \* the block of create_genesis_block
    Parent,      \* header.prev_hash, as a function on Blocks
    TxIds,       \* transaction ids
    Txs,         \* the transaction ids of a block, as a function on Blocks
    Stamp,       \* header.timestamp, as a function on Blocks
    Valid,       \* the blocks that pass the checks of validate_block that
                 \* do not read the stored chain's timestamps
    None,        \* an absent key, an Option::None, a block that is unknown
    Subsidy,     \* subsidy(h) of every height the node reaches
    MaxOrphans,  \* the 500 of add_block and process_orphans
    ReorgMaxDepth,  \* REORG_MAX_DEPTH
    Faults,      \* what may go wrong: "crash", "io"
    MaxHeight,   \* bound: highest height a key is kept for
    MaxJournals, \* bound: journals that can accumulate
    MaxBoots     \* bound: starts of the node

Heights == 0 .. MaxHeight

ASSUME BlocksAssumption ==
    /\ Genesis \in Blocks
    /\ Parent \in [Blocks -> Blocks \cup {None}]
    /\ Parent[Genesis] = None
    /\ Txs \in [Blocks -> SUBSET TxIds]
    /\ Stamp \in [Blocks -> Nat]
    /\ Valid \subseteq Blocks

ASSUME NoneAssumption ==
    /\ None \notin Blocks
    /\ None \notin Nat

ASSUME BoundsAssumption ==
    /\ MaxHeight \in Nat \ {0}
    /\ MaxOrphans \in Nat
    /\ ReorgMaxDepth \in Nat
    /\ Subsidy \in Nat \ {0}
    /\ Faults \subseteq {"crash", "io"}
    /\ MaxJournals \in Nat
    /\ MaxBoots \in Nat

VARIABLES
    db,     \* the RocksDB contents, as reads see them
    dbs,    \* the contents a crash may leave
    mem,    \* the in-memory Chain and ChainState
    pc,     \* where the node is
    cur,    \* the block add_block is working on
    ret,    \* what the last add_block returned
    boots   \* how often the node was started

vars == <<db, dbs, mem, pc, cur, ret, boots>>

BlockOpt == Blocks \cup {None}
HeightOpt == Heights \cup {None}

\* ReorgJournal
Journal == [old_tip_height: Heights, old_tip_hash: BlockOpt,
            disconnect_depth: Heights, new_block: Blocks]

\* The keys of the database: tip, height, genesis_hash (only whether it is
\* there), h:, b:, hdr:, the tx_index and coinbase column families (a height
\* per transaction), total_supply, state:total_supply and reorg:pending:.
Database ==
    [tip: BlockOpt, height: HeightOpt, genesis_hash: BOOLEAN,
     h: [Heights -> BlockOpt], b: SUBSET Blocks, hdr: [Heights -> BlockOpt],
     tx_index: [TxIds -> HeightOpt], coinbase: [TxIds -> HeightOpt],
     total_supply: Nat \cup {None}, state_supply: Nat,
     journals: Seq(Journal)]

EmptyDb ==
    [tip |-> None, height |-> None, genesis_hash |-> FALSE,
     h |-> [k \in Heights |-> None], b |-> {},
     hdr |-> [k \in Heights |-> None],
     tx_index |-> [t \in TxIds |-> None], coinbase |-> [t \in TxIds |-> None],
     total_supply |-> None, state_supply |-> 0,
     journals |-> <<>>]

\* cumulative_work counts blocks: validate_block accepts one `bits' only, so
\* every block has the work of the genesis block; 0 is a missing entry
\* (unwrap_or_default).  orphan_blocks is kept in the order of its Instants.
Memory ==
    [best_tip: BlockOpt, best_height: Heights,
     hash_to_height: [Blocks -> HeightOpt],
     cumulative_work: [Heights -> Nat],
     blocks: [Heights -> BlockOpt],
     total_supply: Nat,
     orphan_blocks: Seq(Blocks)]

NoMemory ==
    [best_tip |-> None, best_height |-> 0,
     hash_to_height |-> [x \in Blocks |-> None],
     cumulative_work |-> [k \in Heights |-> 0],
     blocks |-> [k \in Heights |-> None],
     total_supply |-> 0,
     orphan_blocks |-> <<>>]

-----------------------------------------------------------------------------
(* Writes.  An I/O error leaves the database as it was.                    *)

\* WriteOptions::default(): durable at the latest with the next synced write.
Write(d) == db' = d /\ dbs' = dbs \cup {d}

\* write_opts.set_sync(true)
SyncWrite(d) == db' = d /\ dbs' = {d}

NoWrite == UNCHANGED <<db, dbs>>

-----------------------------------------------------------------------------
(* Blocks in the database.                                                 *)

\* load_block_from_db and load_block_by_height: the block, None for an error.
LoadBlock(d, k) == IF d.h[k] \in d.b THEN d.h[k] ELSE None

\* load_header: the stored header, else the one of the stored block.
LoadHeader(d, k) == IF d.hdr[k] # None THEN d.hdr[k] ELSE LoadBlock(d, k)

\* build_block_ops and apply_block_action with BlockAction::Connect, as far
\* as they add operations to the batch; `supply' is the in-memory supply that
\* apply_utxo_changes starts from and a coinbase leaves alone.
Connect(d, x, k, supply) ==
    [d EXCEPT !.hdr[k] = x,
              !.tx_index = [t \in TxIds |-> IF t \in Txs[x] THEN k ELSE @[t]],
              !.coinbase = [t \in TxIds |-> IF t \in Txs[x] THEN k ELSE @[t]],
              !.total_supply = supply]

\* Slip: the coinbase column family is forgotten on disconnect.
DisconnectKeepsCoinbase(d, S) ==
    LET gone == UNION {Txs[x] : x \in S}
    IN  [d EXCEPT !.tx_index = [t \in TxIds |-> IF t \in gone THEN None ELSE @[t]]]

\* build_block_ops with BlockAction::Disconnect for each block of S.
Disconnect(d, S) ==
    LET gone == UNION {Txs[x] : x \in S}
    IN  [d EXCEPT !.tx_index = [t \in TxIds |-> IF t \in gone THEN None ELSE @[t]],
                  !.coinbase = [t \in TxIds |-> IF t \in gone THEN None ELSE @[t]]]

\* save_block
SaveBlock(d, k, x) ==
    [d EXCEPT !.b = @ \cup {x}, !.h[k] = x, !.tip = x, !.height = k]

-----------------------------------------------------------------------------
(* validate_block.                                                         *)

\* The timestamps get_median_timestamp(chain, k) collects: one per height
\* whose h: and b: keys are both there.
Window(d, k) ==
    {i \in Heights : i <= k /\ k <= i + 10 /\ LoadBlock(d, i) # None}

\* times[times.len() / 2] of the sorted times, 0 when there are none.
MedianTimestamp(d, k) ==
    LET W == Window(d, k)
        below(s)  == Cardinality({i \in W : Stamp[d.h[i]] < s})
        upTo(s)   == Cardinality({i \in W : Stamp[d.h[i]] <= s})
        middle    == Cardinality(W) \div 2
    IN  IF W = {} THEN 0
        ELSE CHOOSE s \in {Stamp[d.h[i]] : i \in W} :
                below(s) <= middle /\ middle < upTo(s)

\* The two checks that read the stored chain, and Valid for all the others.
\* calculate_next_bits panics without the header of height k - 1, which does not
\* happen: Chain::new has written the one header that is asked for.
ValidateBlock(d, x, k) ==
    /\ x \in Valid
    /\ LoadHeader(d, k - 1) # None
    /\ Stamp[x] > MedianTimestamp(d, k - 1)

-----------------------------------------------------------------------------
(* Starting the node: RunNode, Chain::load_from_db and Chain::new.         *)

Init ==
    /\ db = EmptyDb
    /\ dbs = {EmptyDb}
    /\ mem = NoMemory
    /\ pc = "down"
    /\ cur = None
    /\ ret = "none"
    /\ boots = 0

\* Commands::InitDb puts genesis_hash.
InitDb ==
    /\ pc = "down"
    /\ ~db.genesis_hash
    /\ Write([db EXCEPT !.genesis_hash = TRUE])
    /\ UNCHANGED <<mem, pc, cur, ret, boots>>

\* Commands::RunNode up to load_from_db.
RunNode ==
    /\ pc = "down"
    /\ boots < MaxBoots
    /\ boots' = boots + 1
    /\ pc' = "recover"
    /\ NoWrite
    /\ UNCHANGED <<mem, cur, ret>>

\* Slip: only the hash of the old tip is compared.
JournalTipCurrent(d) == d.tip = Head(d.journals).old_tip_hash

\* The journal the recovery loop is at describes the stored tip.
JournalCurrent(d) ==
    LET j == Head(d.journals)
    IN  d.height = j.old_tip_height /\ d.tip = j.old_tip_hash

\* The batch of recover_pending_reorgs.  The free function build_block_ops
\* has no ChainState: it starts from the stored supply.
Replayed(d) ==
    LET j == Head(d.journals)
        low == d.height - j.disconnect_depth
        S == {LoadBlock(d, k) : k \in (low + 1) .. d.height}
    IN  Connect(Disconnect(d, S), j.new_block, low + 1, d.total_supply)

\* Every block the disconnect loop of recover_pending_reorgs loads is there.
Replayable(d) ==
    LET low == d.height - Head(d.journals).disconnect_depth
    IN  \A k \in (low + 1) .. d.height : LoadBlock(d, k) # None

\* recover_pending_reorgs stops with an error at a missing tip, height or
\* block; load_from_db then fails.
RecoverFails ==
    /\ pc = "recover"
    /\ db.journals # <<>>
    /\ \/ db.height = None \/ db.tip = None
       \/ JournalCurrent(db) /\ ~Replayable(db)
    /\ pc' = "open"
    /\ NoWrite
    /\ UNCHANGED <<mem, cur, ret, boots>>

\* The batch of a journal that is not stale is written and synced.
RecoverReplay ==
    /\ pc = "recover"
    /\ db.journals # <<>>
    /\ db.height # None /\ db.tip # None
    /\ JournalCurrent(db)
    /\ Replayable(db)
    /\ SyncWrite(Replayed(db))
    /\ pc' = "discard"
    /\ UNCHANGED <<mem, cur, ret, boots>>

\* Slip: a stale journal is skipped but not deleted.
RecoverSkipStale ==
    /\ \/ /\ pc = "discard"
          /\ Write([db EXCEPT !.journals = Tail(@)])
       \/ /\ pc = "recover"
          /\ db.journals # <<>>
          /\ db.height # None /\ db.tip # None
          /\ ~JournalCurrent(db)
          /\ NoWrite
    /\ pc' = "recover"
    /\ UNCHANGED <<mem, cur, ret, boots>>

\* A stale journal, or one that has been replayed, is deleted.
RecoverDiscard ==
    /\ \/ pc = "discard"
       \/ /\ pc = "recover"
          /\ db.journals # <<>>
          /\ db.height # None /\ db.tip # None
          /\ ~JournalCurrent(db)
    /\ Write([db EXCEPT !.journals = Tail(@)])
    /\ pc' = "recover"
    /\ UNCHANGED <<mem, cur, ret, boots>>

\* A read, the write of the batch or the deletion of a journal fails.
RecoverIoError ==
    /\ pc \in {"recover", "discard"}
    /\ "io" \in Faults
    /\ pc' = "open"
    /\ NoWrite
    /\ UNCHANGED <<mem, cur, ret, boots>>

RecoverDone ==
    /\ pc = "recover"
    /\ db.journals = <<>>
    /\ pc' = "open"
    /\ NoWrite
    /\ UNCHANGED <<mem, cur, ret, boots>>

\* validate_state and validate_supply_smart, run on the ChainState that
\* load_from_db has just created with total_supply 0.  utxo_set_hash is
\* written together with total_supply; without them the UTXO column
\* families, which are empty, are summed (validate_supply_full).
SupplyValidated(d) ==
    LET theoretical == (d.height + 1) * Subsidy
    IN  /\ d.total_supply \in {None, 0}
        /\ IF d.total_supply # None THEN theoretical = d.total_supply
                                    ELSE theoretical = 0

\* load_from_db after the recovery returns Ok.
Loads(d) ==
    /\ d.tip # None
    /\ d.height # None
    /\ d.genesis_hash
    /\ \A k \in 0 .. d.height : LoadBlock(d, k) # None
    /\ SupplyValidated(d)

\* The Chain that load_from_db returns.
LoadedMemory(d) ==
    [best_tip |-> d.tip, best_height |-> d.height,
     hash_to_height |->
        [x \in Blocks |->
            IF \E k \in 0 .. d.height : d.h[k] = x
            THEN CHOOSE k \in 0 .. d.height :
                    d.h[k] = x /\ \A l \in 0 .. d.height : d.h[l] = x => l <= k
            ELSE None],
     cumulative_work |-> [k \in Heights |-> IF k <= d.height THEN k + 1 ELSE 0],
     blocks |-> [k \in Heights |-> IF k <= d.height THEN d.h[k] ELSE None],
     total_supply |-> (d.height + 1) * Subsidy,
     orphan_blocks |-> <<>>]

\* The batch of Chain::new, written without sync: apply_block_action on the
\* genesis block with the in-memory supply 0, and state:total_supply.
GenesisDb(d) ==
    [Connect(d, Genesis, 0, 0) EXCEPT !.state_supply = @ + Subsidy]

\* The Chain that Chain::new returns.
GenesisMemory(d) ==
    [NoMemory EXCEPT !.best_tip = Genesis,
                     !.hash_to_height[Genesis] = 0,
                     !.cumulative_work[0] = 1,
                     !.blocks[0] = Genesis,
                     !.total_supply = d.state_supply + Subsidy]

\* load_from_db returns; when it failed, Chain::new initializes the chain.
Open ==
    /\ pc = "open"
    /\ IF Loads(db)
       THEN mem' = LoadedMemory(db) /\ NoWrite
       ELSE mem' = GenesisMemory(db) /\ Write(GenesisDb(db))
    /\ pc' = "idle"
    /\ UNCHANGED <<cur, ret, boots>>

\* The write of Chain::new fails and apply_block_action rolls back, which
\* deletes the coinbase key if it can write at all; main unwraps the error.
OpenFails ==
    /\ pc = "open"
    /\ "io" \in Faults
    /\ ~Loads(db)
    /\ \/ Write([db EXCEPT !.coinbase =
                    [t \in TxIds |-> IF t \in Txs[Genesis] THEN None ELSE @[t]]])
       \/ NoWrite
    /\ pc' = "down"
    /\ UNCHANGED <<mem, cur, ret, boots>>

-----------------------------------------------------------------------------
(* add_block.                                                              *)

KnownBlock(x) == mem.hash_to_height[x] # None

ParentKnown(x) == Parent[x] # None /\ mem.hash_to_height[Parent[x]] # None

PrevHeight(x) == mem.hash_to_height[Parent[x]]

\* Slip: the work of the block itself is not counted.
ParentHasMoreWork(x) ==
    mem.cumulative_work[PrevHeight(x)] > mem.cumulative_work[mem.best_height]

\* new_work > current_work
HasMoreWork(x) ==
    mem.cumulative_work[PrevHeight(x)] + 1 > mem.cumulative_work[mem.best_height]

\* self.best_height.saturating_sub(prev_height) > REORG_MAX_DEPTH
TooDeep(x) == mem.best_height > PrevHeight(x) + ReorgMaxDepth

Return(r) == pc' = "idle" /\ cur' = None /\ ret' = r

\* A block that is already in hash_to_height: Ok(false).
AddKnown(x) ==
    /\ pc = "idle"
    /\ KnownBlock(x)
    /\ Return("false")
    /\ NoWrite
    /\ UNCHANGED <<mem, boots>>

\* orphan_blocks has one entry per hash: inserting x again replaces it.
Without(s, x) ==
    IF \E i \in DOMAIN s : s[i] = x
    THEN LET i == CHOOSE i \in DOMAIN s : s[i] = x
         IN  SubSeq(s, 1, i - 1) \o SubSeq(s, i + 1, Len(s))
    ELSE s

\* A block whose parent is not in hash_to_height becomes the newest orphan;
\* the oldest one goes when there are too many.
AddOrphan(x) ==
    /\ pc = "idle"
    /\ ~KnownBlock(x)
    /\ ~ParentKnown(x)
    /\ LET o == Append(Without(mem.orphan_blocks, x), x)
       IN  mem' = [mem EXCEPT !.orphan_blocks =
                        IF Len(o) > MaxOrphans THEN Tail(o) ELSE o]
    /\ Return("false")
    /\ NoWrite
    /\ UNCHANGED boots

\* validate_block or the depth check fails.
AddInvalid(x) ==
    /\ pc = "idle"
    /\ ~KnownBlock(x)
    /\ ParentKnown(x)
    /\ \/ ~ValidateBlock(db, x, PrevHeight(x) + 1)
       \/ HasMoreWork(x) /\ TooDeep(x)
    /\ Return("err")
    /\ NoWrite
    /\ UNCHANGED <<mem, boots>>

\* The block passes; with no more work than the best block add_block calls
\* apply_block_action, which waits for the state_lock add_block holds.
AddBlock(x) ==
    /\ pc = "idle"
    /\ ~KnownBlock(x)
    /\ ParentKnown(x)
    /\ ValidateBlock(db, x, PrevHeight(x) + 1)
    /\ ~(HasMoreWork(x) /\ TooDeep(x))
    /\ PrevHeight(x) < MaxHeight
    /\ Len(db.journals) < MaxJournals
    /\ pc' = IF HasMoreWork(x) THEN "journal" ELSE "apply"
    /\ cur' = x
    /\ ret' = "none"
    /\ NoWrite
    /\ UNCHANGED <<mem, boots>>

\* start_reorg_journal
WriteJournal ==
    /\ pc = "journal"
    /\ Write([db EXCEPT !.journals = Append(@,
                [old_tip_height |-> mem.best_height,
                 old_tip_hash |-> mem.best_tip,
                 disconnect_depth |-> mem.best_height - PrevHeight(cur),
                 new_block |-> cur])])
    /\ pc' = "commit"
    /\ UNCHANGED <<mem, cur, ret, boots>>

OldChain == (PrevHeight(cur) + 1) .. mem.best_height

\* Slip: the old chain is left connected.
CommitBatchNoRollback ==
    /\ pc = "commit"
    /\ SyncWrite(Connect(db, cur, PrevHeight(cur) + 1, mem.total_supply))
    /\ pc' = "unjournal"
    /\ UNCHANGED <<mem, cur, ret, boots>>

\* Slip: the memory is updated although the batch has not been written.
CommitBatchMemoryFirst ==
    /\ pc = "commit"
    /\ mem' = [mem EXCEPT !.best_height = PrevHeight(cur) + 1]
    /\ \/ /\ \A k \in OldChain : LoadBlock(db, k) # None
          /\ SyncWrite(Connect(Disconnect(db, {LoadBlock(db, k) : k \in OldChain}),
                               cur, PrevHeight(cur) + 1, mem.total_supply))
          /\ pc' = "unjournal"
          /\ UNCHANGED <<cur, ret>>
       \/ /\ "io" \in Faults
          /\ NoWrite
          /\ Return("err")
    /\ UNCHANGED boots

\* The disconnect loop, the connection of the new block and the synced
\* write of commit_reorg_batch.
CommitBatch ==
    /\ pc = "commit"
    /\ \A k \in OldChain : LoadBlock(db, k) # None
    /\ SyncWrite(Connect(Disconnect(db, {LoadBlock(db, k) : k \in OldChain}),
                         cur, PrevHeight(cur) + 1, mem.total_supply))
    /\ pc' = "unjournal"
    /\ UNCHANGED <<mem, cur, ret, boots>>

\* commit_reorg_batch deletes the journal; then the memory is updated.
DeleteJournal ==
    /\ pc = "unjournal"
    /\ Write([db EXCEPT !.journals = SubSeq(@, 1, Len(@) - 1)])
    /\ mem' = [mem EXCEPT !.best_height = PrevHeight(cur) + 1]
    /\ pc' = "save"
    /\ UNCHANGED <<cur, ret, boots>>

\* self.save_block(height, &block).  Then add_block takes the write lock of the
\* mempool, which the BLOCK handler already holds when it calls add_block: it
\* waits for itself.  The miner and the tests call add_block without the lock
\* (so does the HEADERS handler, but a block without transactions is not Valid).
Save ==
    /\ pc = "save"
    /\ SyncWrite(SaveBlock(db, PrevHeight(cur) + 1, cur))
    /\ pc' \in {"mempool", "blocked"}
    /\ UNCHANGED <<mem, cur, ret, boots>>

\* A block of the old chain cannot be loaded.
AddFails ==
    /\ pc = "commit"
    /\ \E k \in OldChain : LoadBlock(db, k) = None
    /\ Return("err")
    /\ NoWrite
    /\ UNCHANGED <<mem, boots>>

\* One of the four writes of add_block fails.
AddIoError ==
    /\ pc \in {"journal", "commit", "unjournal", "save"}
    /\ "io" \in Faults
    /\ Return("err")
    /\ NoWrite
    /\ UNCHANGED <<mem, boots>>

\* The lock of the mempool is granted and the transactions of the block are
\* removed.
RemoveTxs ==
    /\ pc = "mempool"
    /\ pc' = "orphans"
    /\ NoWrite
    /\ UNCHANGED <<mem, cur, ret, boots>>

\* process_orphans drops the orphans older than ORPHAN_TTL, evicts one if
\* there are too many and drains the rest into add_block, which waits for
\* the state_lock its caller holds.  Without orphans add_block returns.
ProcessOrphans ==
    /\ pc = "orphans"
    /\ \E n \in 0 .. Len(mem.orphan_blocks) :
          LET kept == SubSeq(mem.orphan_blocks, n + 1, Len(mem.orphan_blocks))
              drained == IF Len(kept) > MaxOrphans THEN Tail(kept) ELSE kept
          IN  /\ mem' = [mem EXCEPT !.orphan_blocks = <<>>]
              /\ IF drained = <<>>
                 THEN Return("true")
                 ELSE pc' = "blocked" /\ UNCHANGED <<cur, ret>>
    /\ NoWrite
    /\ UNCHANGED boots

-----------------------------------------------------------------------------
(* Stopping the node.                                                      *)

\* Ctrl-C: tasks waiting at an .await are aborted, the best block is saved if
\* it is in memory, and the write-ahead log is flushed.
Shutdown ==
    /\ pc \in {"idle", "apply", "mempool", "orphans", "blocked"}
    /\ LET best == mem.blocks[mem.best_height]
       IN  SyncWrite(IF best = None THEN db
                                    ELSE SaveBlock(db, mem.best_height, best))
    /\ mem' = NoMemory
    /\ pc' = "down"
    /\ cur' = None
    /\ ret' = "none"
    /\ UNCHANGED boots

\* The process or the machine stops anywhere; so does a shutdown whose
\* save_block fails.
Crash ==
    /\ "crash" \in Faults
    /\ pc # "down"
    /\ \E d \in dbs : SyncWrite(d)
    /\ mem' = NoMemory
    /\ pc' = "down"
    /\ cur' = None
    /\ ret' = "none"
    /\ UNCHANGED boots

-----------------------------------------------------------------------------
(* Serving headers.                                                        *)

\* get_headers(locator, stop): the headers above the locator, up to and
\* including `stop'; None stands for a header that cannot be loaded.
GetHeaders(locator, stop) ==
    LET start == mem.hash_to_height[locator] + 1
        ends  == {k \in start .. mem.best_height : LoadHeader(db, k) = stop}
        last  == IF ends = {} THEN mem.best_height
                 ELSE CHOOSE k \in ends : \A l \in ends : k <= l
    IN  IF mem.hash_to_height[locator] = None THEN <<>>
        ELSE [i \in 1 .. (last + 1 - start) |-> LoadHeader(db, start + i - 1)]

-----------------------------------------------------------------------------

Recover == RecoverFails \/ RecoverReplay \/ RecoverDiscard \/ RecoverDone

\* add_block from its checks to save_block: no lock but those it holds.
StoreStep == WriteJournal \/ CommitBatch \/ DeleteJournal \/ Save \/ AddFails

Next ==
    \/ InitDb \/ RunNode
    \/ Recover
    \/ Open
    \/ RecoverIoError \/ OpenFails \/ AddIoError
    \/ \E x \in Blocks : AddKnown(x) \/ AddOrphan(x) \/ AddInvalid(x) \/ AddBlock(x)
    \/ StoreStep \/ RemoveTxs \/ ProcessOrphans
    \/ Shutdown
    \/ Crash

Spec == Init /\ [][Next]_vars

\* The task that boots the node, and add_block as long as it only reads and
\* writes the database, wait for no other task.  Nothing is assumed of the
\* steps that wait for a lock, and nothing makes an I/O error happen.
FairSpec ==
    /\ Spec
    /\ WF_vars(Recover)
    /\ WF_vars(Open)
    /\ WF_vars(StoreStep)

-----------------------------------------------------------------------------
(* Properties.                                                             *)

Running == pc \notin {"down", "recover", "discard", "open"}

\* Types of all state, the contents a crash may leave included.
TypeOK ==
    /\ db \in dbs
    /\ \A d \in dbs : d \in Database
    /\ mem \in Memory
    /\ pc \in {"down", "recover", "discard", "open", "idle", "journal",
              "commit", "unjournal", "save", "apply", "mempool", "orphans",
              "blocked"}
    /\ cur \in BlockOpt
    /\ ret \in {"none", "false", "true", "err"}
    /\ boots \in Nat

\* Whatever a crash leaves behind, a stored tip comes with its height, its
\* h: entry and its block, so that the tip can be loaded (save_block writes
\* the four keys in one synced batch; a new tip never outlives a crash alone).
TipStored ==
    \A d \in dbs :
        /\ d.tip = None <=> d.height = None
        /\ d.tip # None => d.h[d.height] = d.tip /\ d.tip \in d.b

\* Whatever a crash leaves behind, the header stored above height 0 extends
\* the header stored below it: journal replay and add_block never connect a
\* block to a chain it does not extend.
HeadersLinked ==
    \A d \in dbs : \A k \in Heights \ {0} :
        d.hdr[k] # None => d.hdr[k - 1] # None /\ Parent[d.hdr[k]] = d.hdr[k - 1]

\* Recovery connects the block of a journal without validating it again;
\* still only validated blocks (and the genesis block) are ever stored.
PersistedValid ==
    \A d \in dbs :
        /\ d.b \subseteq Valid \cup {Genesis}
        /\ \A k \in Heights : d.hdr[k] \in Valid \cup {Genesis, None}
        /\ \A i \in DOMAIN d.journals : d.journals[i].new_block \in Valid

\* The stored chain is sound, whatever a crash leaves of it: its tip can be
\* loaded, its headers are linked and its blocks are validated.
StoredChain == TipStored /\ HeadersLinked /\ PersistedValid

\* Every transaction of the block whose header is stored above height 0 can
\* be found in tx_index, after any crash: header and index entries are one
\* batch, and a disconnected block loses its entries only together with its
\* header.
HeaderIndexed ==
    \A d \in dbs : \A k \in Heights \ {0} :
        d.hdr[k] # None => \A t \in Txs[d.hdr[k]] : d.tx_index[t] # None

\* While the node runs, the coinbase column family, which the maturity check
\* of validate_transaction reads, agrees with tx_index on every coinbase.
CoinbaseMatchesIndex ==
    Running => db.coinbase = db.tx_index

\* Both indices of transactions serve the stored chain: every transaction of
\* a stored header is found, and the maturity of a coinbase is counted from
\* the height under which it is found.
Indexed == HeaderIndexed /\ CoinbaseMatchesIndex

\* A peer that asks for headers gets a chain: the first header extends the
\* locator, each further one extends the one before, none is missing.
HeadersServed ==
    Running =>
        \A locator, stop \in Blocks :
            LET s == GetHeaders(locator, stop)
            IN  \A i \in DOMAIN s :
                    /\ s[i] # None
                    /\ Parent[s[i]] = IF i = 1 THEN locator ELSE s[i - 1]

\* tx_index points above height 0 exactly at the stored headers that hold the
\* transaction.
IndexExact(d) ==
    \A k \in Heights \ {0} : \A t \in TxIds :
        d.tx_index[t] = k <=> d.hdr[k] # None /\ t \in Txs[d.hdr[k]]

\* A replaced block is rolled back completely: if the index is exact, nothing
\* is stored above the best height in memory, and the blocks to disconnect
\* are those whose headers are stored (what an interrupted add_block or a
\* restart breaks), then the index is exact after the commit.
ReplacementExact ==
    [][ /\ pc = "commit" /\ pc' = "unjournal"
        /\ IndexExact(db)
        /\ \A k \in Heights : k > mem.best_height => db.hdr[k] = None
        /\ \A k \in OldChain : LoadBlock(db, k) = db.hdr[k]
        => IndexExact(db') ]_vars

\* A started node gets to work (or stops): the recovery loop ends however
\* many journals earlier runs have left.
BootCompletes == pc = "recover" ~> pc \in {"idle", "down"}

\* Every block that passes the checks of add_block is stored, or add_block
\* returns an error: whatever the node knows of other blocks, it never gets into
\* the branch that waits for the state_lock it holds itself.
AddBlockStores ==
    pc \in {"journal", "apply"} ~> pc \in {"mempool", "blocked", "idle", "down"}

(* What the code says and does not do.                                     *)

\* "4. Update memory state only after DB success" (chain.rs 720): when
\* add_block has stored a block, the best tip in memory is the stored tip.
MemoryFollowsCommit == pc \in {"mempool", "blocked"} => mem.best_tip = db.tip

\* "chain loaded from DB at height {} - supply validated" (chain.rs 282),
\* "Unable to load the blockchain. First run 'lyrion InitDb' or check if the
\* node is synchronized" (main.rs 120): once InitDb has run, a stored chain
\* none of whose blocks is missing is loaded by the next start.
StoredChainLoads ==
    /\ pc = "open"
    /\ db.genesis_hash
    /\ db.tip # None
    /\ \A k \in 0 .. db.height : LoadBlock(db, k) # None
    => Loads(db)

=============================================================================
