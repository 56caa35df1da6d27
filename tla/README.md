# A TLA+ model of the lyrion node

The repository holds a blockchain node and its wallets in Rust (`src/111/src`). This
directory models them in TLA+, checks the models with TLC on small instances and proves
the most important results with TLAPS for every value of the constants. `PROJECT.json`
lists components, runs, mutants, hazards and theorems, and maps every definition to the
source lines it models.

## The system

| part | source | modules | run |
|---|---|---|---|
| block store: journal, batches, recovery, genesis, orphans; start and shutdown | `chain.rs`, `main.rs` 131-163, 244-261 | `ChainNode`, `ChainNode_proofs` | `chain`, `chain_memory`, `chain_load` |
| mempool and its expiration task | `mempool.rs`, `main.rs` 226-242 | `Mempool`, `Mempool_proofs` | `mempool`, `mempool_cleaning` |
| selection of transactions for a block | `mempool.rs` 225-267 | `MempoolSelect`, `Blocks_proofs` | `blocks` |
| locks that peers, miner, RPC and the node's own tasks share | `net.rs`, `miner.rs`, `main.rs`, `chain.rs` | `NodeLocks`, `Tasks_proofs` | `locks` |
| UTXO ledger, validation of transactions | `chain.rs` 484-648, `tx.rs` | `Ledger`, `Blocks_proofs` | `blocks` |
| backups and their rotation | `db.rs`, `main.rs` | `Backup`, `BackupStore`, `Tasks_proofs` | `backup` |
| peer manager and handshake | `net.rs`, `main.rs` 170-185 | `PeerManager`, `PeerManager_proofs` | `peers` |
| miner | `miner.rs` | `Miner`, `Blocks_proofs` | `blocks` |
| compact targets, next bits, merkle root | `utils.rs`, `chain.rs`, `tx.rs` | `Consensus`, `Consensus_proofs` | `blocks`, `consensus_genesis` |
| graphical wallet | `main.rs` 855-1266 | `WalletApp`, `Wallet_proofs` | `wallet_app` |
| wallet: `create_tx` | `main.rs` 1443-1513 | `CreateTx`, `Wallet_proofs` | `wallet` |

`Sums` holds what the proofs know about sums over finite sets and sequences.

A node is one process. `RunNode` opens the database, calls `Chain::load_from_db` (which
first replays pending reorganization journals) and, when that fails, `Chain::new`. It
connects to the seeds, then accepts peers; peers and the miner hand blocks to
`Chain::add_block`, peers and RPC clients hand transactions to `Mempool::insert`; a task
expires old transactions every five minutes, another makes a backup every hour, the miner
takes transactions out of the mempool with `select_txs`. On Ctrl-C the best block is
saved. The tasks share chain, mempool and the tables of the peer manager behind fair
read-write locks. The wallets read the database of a node.

The modules meet at named facts. `ChainNode` relies on `Ledger` for "all connected
transactions are coinbases" (theorem `AlwaysCoinbasesOnly`). `MempoolSelect` starts from
the pools that `Mempool` can hold (theorems `PoolsAlwaysSelectable`,
`IndexesAlwaysExact`). `Mempool` and `Miner` treat a call as one
step while the caller holds its lock, which `NodeLocks` shows (`Isolated`). `PeerManager`
and `Backup` model the locks that their own code takes twice. `MCBlocks` puts the four
modules about the making of a block into one run.

### How the source is read

The sources do not type-check as they stand. Where the text leaves open what runs, the
models take the reading below.

1. `add_block` is called without its unused second argument; the argument is ignored.
2. `height` and `cf_key_images` in `handle_utxo_action` are those of the caller.
3. The last puts of `build_block_ops` (set hash, supply) are the values
   `apply_utxo_changes` computes.
4. `load_supply_from_db` is a read of `state:total_supply`, 0 when it is absent.
5. The `build_block_ops` that recovery calls has no `ChainState`; it starts from the
   stored supply.
6. Every column family that is used can be opened (`db.rs` 56 lists only some of them).
7. The program is the release build: integer arithmetic wraps, and a panic anywhere ends
   the process (`panic = "abort"`, `Cargo.toml` 77), not only the task it happens in.
   `.await` in the synchronous `remove` waits for the lock.
8. The key of the genesis coinbase comes from the configuration, so all starts of a node
   build the same genesis block.
9. The receiver of a peer's `write_tx` is dropped where the channel is made, so that the
   send of the handshake fails; behind the hypothetical handshake (below) both ends live as
   long as the peer. The flags that would interrupt its tasks are never set.
10. eframe calls `save` of the graphical wallet from time to time and when the window
    closes (it does so when its persistence feature is on).
11. `send_transaction_task`, `scan_mempool` and `WALLET_FILE` are used and not defined
    under `src/`: a payment that succeeds or fails, no activity, and a file.

**A hypothetical switch.** The handshake of the code admits nobody: its message goes into
a channel without a receiver (`net.rs` 188), the buffer is four bytes longer than the
length it is compared with (328, 331), and the nonce is erased before it is compared with
zero. Everything behind it would be unreachable, so `PeerManager` has a variable
`repaired` that `Init` chooses and no step changes. With `FALSE` it is the code. With
`TRUE` it is a program that does not exist: the code with these three places corrected.
What the run `peers` and its theorems say about connections, bans and the cache is about
that second program; of the code they say it too, for an empty table.

### Common to all runs

- The bounds are `CONSTANTS` with names that begin with `Max`, `Last` or the name of the
  constant in the code, and are conjuncts of guards.
- Deadlock is not checked where the system may stop: a node that is switched off for the
  last time, tasks that wait for their own lock, a clock at its bound.
- Fairness is assumed in two runs only, `chain` and `backup`, and only of steps that wait
  for no other task (see there). Handlers await sends, reads and locks under their guards,
  so of them no progress is claimed. No message, block, crash or user input is forced.
- Every property of a passing run has a mutant: an operator above the one it replaces,
  with a comment that begins with `Slip:`, which makes TLC find the property violated.
- A run with the expectation "violation" states what a comment, a message or a test of the
  code says and TLC shows by a counterexample that the code does otherwise.
- Some properties are conjunctions of named facts; the facts have comments of their own.

## ChainNode

**State.** `db` is what reads of RocksDB return: a record with one field per kind of key
(`tip`, `height`, `h:`, `b:`, `hdr:`, `tx_index`, `coinbase`, the supplies, the
journals). `dbs` is the set of contents a crash may leave. A write without `set_sync`
(`Write`) adds a possible content, a synced write (`SyncWrite`) makes its result the only
one. `mem` is `Chain` with its `ChainState`; `pc` and `cur` say where the node is and on
which block `add_block` works; `ret` is what `add_block` returned last.

**Actions.** Every durable write is a step of its own, since a crash can fall between two.

| action | code |
|---|---|
| `InitDb`, `RunNode` | the commands of `main.rs` |
| `RecoverReplay`, `RecoverDiscard`, `RecoverDone`, `RecoverFails` | the loop of `recover_pending_reorgs`: replay a current journal, delete a journal, end, or fail on an unreadable block |
| `Open`, `OpenFails` | `load_from_db`, or `Chain::new` with the genesis batch and its rollback |
| `AddKnown`, `AddOrphan`, `AddInvalid`, `AddBlock` | the first half of `add_block`, up to the decision for the main branch or the `else` branch |
| `WriteJournal`, `CommitBatch`, `DeleteJournal`, `Save` | journal, batch, deletion of the journal, `save_block` |
| `RemoveTxs`, `ProcessOrphans` | removal from the mempool; `process_orphans`, which evicts one orphan at the limit and hands the rest to `add_block` |
| `AddFails`, `AddIoError`, `RecoverIoError` | the error returns in between |
| `Shutdown`, `Crash` | Ctrl-C; the process or the machine stops |

`GetHeaders` models `get_headers`, which only reads.

**Abstractions.** A block is its hash, with a parent, coinbase ids and a timestamp. Work
counts blocks, because `calculate_next_bits` admits one value of `bits` at every height
the node reaches. The validity of a block without its timestamp is the constant set
`Valid`. Journals are ordered by their millisecond ids; two in one millisecond are not
told apart. All blocks contain coinbases only (see `Ledger`), so the removal from the
mempool in `add_block` finds nothing here. `prune` and the periodic `validate_state` need
heights the node does not reach. The `else` branch of `add_block` waits for `state_lock`,
which it holds: `pc = "apply"`. So does the `add_block` that `process_orphans` calls for an
orphan: `pc = "blocked"`.

**Bounds.** `MCChainNode` has five blocks: two valid children of the genesis block, one of
which repeats its coinbase and its timestamp, an invalid child, and a grandchild. Three
starts allow a crash, a recovery, and a restart of what recovery left; two journals can
pile up; one orphan reaches the limit of the orphan map. `MaxHeight` 2 is one more than
any height the node stores (proved, see below).

**Fairness** (`FairSpec`). Weak fairness for recovery, for `Open`, and for `add_block` from
its journal to `save_block` (`StoreStep`). On this stretch it holds its locks and only
reads and writes the database. Before it, it waits for `state_lock`; after it, for the
mempool (`RemoveTxs`), which its own caller may hold (`NodeLocks`), and then in
`process_orphans`. Of these steps nothing is assumed.

**Run `chain`**, with a crash or an I/O error possible at every step:

- `StoredChain`: whatever a crash leaves, the stored tip can be loaded, the headers are
  linked, only validated blocks are stored or journalled.
- `Indexed`: every transaction of a stored header is found in `tx_index`, and the coinbase
  heights that the maturity check reads agree with it.
- `HeadersServed`: `get_headers` answers with a gapless chain that extends the locator.
- `ReplacementExact`: the commit that replaces a block leaves `tx_index` exact, if it was
  exact and memory knows the stored height. The premise is what a restart breaks.
- `BootCompletes`: recovery ends however many journals there are.
- `AddBlockStores`: a block that passes the checks is stored, or `add_block` returns an
  error. Nothing that the node knows of other blocks leads into the branch that waits for
  its own lock.

**Run `chain_memory`** (violation). `chain.rs` 720 says "4. Update memory state only after
DB success", and after a successful `add_block` only `best_height` has changed in memory.
The tip stays the genesis block, so no block above height 1 is ever accepted.

**Run `chain_load`** (violation). `chain.rs` 282 announces "chain loaded from DB at height
{}", and `main.rs` 120 advises who cannot load it to run `InitDb`. `StoredChainLoads`:
when `InitDb` has run and no block is missing, the next start loads the chain. The
counterexample is `InitDb`, a run and a clean shutdown: `save_block` stored the genesis
block, and the supply beside it, counted without coinbases, is not that of the subsidies.

**Proofs** (`ChainNode_proofs`), for every block tree, every bound and every set of
faults: `StoredChainAlways` (from `TipAlwaysStored`, `HeadersAlwaysLinked`,
`OnlyValidPersisted`), `AlwaysIndexed`, `HeadersAlwaysServed`, `ReplacementAlwaysExact`,
`LoadNeverSucceeds` (no database that can be left is loaded), `NeverWaitsForItself` (the
safety part of `AddBlockStores`), and the type invariant (`TypeCorrect`). Assumptions: the
three named `ASSUME`s of `ChainNode` (the genesis block has no parent in the tree, `None`
is neither a block nor a number, the bounds are numbers).

None of the invariants is inductive: recovery connects the block of a journal to whatever
is stored, so one has to know what journals can say. `IInv` adds

- `GoodJournal`: every journal was written with the genesis block as old tip, and its
  block is a valid child of it (`Child`);
- `DbInv`, for every content a crash may leave: blocks, headers and `h:` entries above
  height 0 are children at height 1, a header has its transactions indexed, `coinbase`
  and `tx_index` differ at most on the genesis coinbase;
- `MemInv`: a running node knows the genesis block and nothing else, and the header of
  its best height is stored.

One lemma per database operator says what it does to `DbInv`, one per action what it does
to `IInv`. `Replaced` names what a batch does to headers and index, and `CommitExact`
turns it into `IndexExact`.

## Mempool

**State.** One variable per index of the struct: `txs` with `depends_on` and `rate` of
its entries, `by_parent`, `fee_index`, `key_images`, `total_bytes`, `ttl_heap`; the clock
`now`; `pc`, which says where an `insert` waits forever or that the process has ended.

**Actions.** Callers hold the write lock of the mempool, so each call is a step: `Insert`
(accepted; a refused insert changes nothing), `RemoveMined` (the loop at the end of
`add_block`), `CleanExpired`, `Tick` for time, and `Restart`, a new process. `heap`,
`lru`, `expiration_index`, `FEE_CACHE`, the metrics and the value of `avg_fee` are left
out, since nothing that runs reads them. Two effects of `avg_fee` stay:

- `insert` holds its lock to the end, and `evict_low_fee_package` and `remove` lock it
  again. So an `insert` that exceeds a limit never returns (`pc = "evict"`), and one that
  found an orphan would not either (`pc = "prune"`).
- `remove` divides by the number of remaining transactions. The removal of the last one
  panics, whoever asked for it, and the process ends (`Abort`).

`Reach` is what a depth-first walk visits, as the least closed set. Which outputs are
stored when a transaction arrives is arbitrary: the mempool is checked for any chain, also
one that fills the UTXO column families, which the chain as it is does not. A removed
transaction may come back.

**Bounds.** Four transactions in a chain are the shortest that `insert` refuses as a
cycle; the fifth conflicts with one of them by key image. Three bytes fit, so the fourth
insert gets stuck. Two insertion times and one more tick: a pair of the first time can
expire alone, and can be kept from it by a pair of the second.

**Run `mempool`.** `PackagesIntact`: no transaction outlives one it depends on.
`IndexesExact`: `key_images` holds the images of the pooled transactions and no others,
and `fee_index` lists every pooled transaction once, and nothing else.
`StuckOnlyWhenFull`: an insert that does not return has really filled the mempool.
`Shallow`: no more than three generations, whatever `MAX_PACKAGE_DEPTH` is.

**Run `mempool_cleaning`** (violation). The task of `main.rs` 229-242 logs the error of
`clean_expired` and sleeps until its next turn. `CleaningGoesOn` says that cleaning leaves
the node running. `clean_expired` takes all transactions or none, since it starts at the
newest, so the first expiry removes the last transaction and aborts.

**Proofs** (`Mempool_proofs`), for every set of transactions and all limits:
`PackagesAlwaysIntact`, `IndexesAlwaysExact`, `PackagesAlwaysShallow`,
`CleaningAlwaysAborts` (an expiry that removes anything ends the process), `NeverPrunes`,
`AlwaysStuckOnlyWhenFull` and `PoolsAlwaysSelectable` (the pools have the form that
`MempoolSelect` assumes), from the types of the constants (`TxAssumption`,
`LimitAssumption`). The inductive invariant adds that `depends_on` is transitive and
irreflexive, that a pooled transaction is in `by_parent` of everything it depends on, and
that no two ancestors of one share an ancestor (`Apart`); then the set `remove` reaches
contains every dependent, and a fourth generation would make two ancestors share one,
which `insert` refuses. `AlwaysStuckOnlyWhenFull` rests on `AlwaysCounted`: the counter is
the sum over the pooled transactions, since `insert` adds one that was not there and
`remove` takes off the sum over what it removes (`SumAdd`, `SumDifference` of `Sums`).

## MempoolSelect

`select_txs` runs under the read lock, so the pool is fixed: `Init` chooses it among all
that `Mempool` can hold (dependencies pooled and transitive, no two ancestors of a
transaction with an ancestor in common). `todo` are the ids of `fee_index` not reached
yet; `walk` is the package being put together. `Stop`, `Skip`, `Begin`, `Pop`, `Close` are
the early return, the two `continue`s, the start of a walk, one turn of its loop, and the
tests behind it. `depends_on` is a `HashSet`, so it is pushed in every order.

**Run `blocks`**, stage `select`: every pool of up to four transactions with two rates, and
one of five whose walk is cut by `MAX_PACKAGE_DEPTH`. `SelectionSound`: the size counts
every selected byte and stays within `max_size`, so that `max_size - size` does not wrap,
and a selected transaction comes with all its pooled ancestors if its relatives have at
most half as many as `MAX_PACKAGE_DEPTH` (each ancestor can be popped twice before the walk
is cut). It does not promise that the block is valid: a package lists a transaction before
its ancestors, and an ancestor that was selected before is listed again. `NothingLeftOut`:
with room for every package nothing is left out.

**Proofs** (`Blocks_proofs`), for all pools of that form, all sizes and limits:
`SelectionAlwaysSound` and `NothingEverLeftOut`. The invariant of a walk (`WalkInv`):
every ancestor is visited or on the stack, the package is the transaction and what was
visited, each once, and depth and stack together count at most the ancestors and those
that were pushed for a second time. An ancestor is pushed once by the transaction and,
because ancestors share none, at most once more by another one. So a walk that is not cut
ends with all of them (`WalkEnds`), and it is not cut within twice as many turns.
`SelectionSound` adds that the size is the sum over what is selected. `NothingLeftOut`
adds `RoomInv`: while there is room, everything that was passed is selected, and the size
is at most the sum of the packages passed, so that the next one fits. `PackageSize` and
`Bytes` are folds; that both give the same sum is `WeighInjective` of `Sums`.

## NodeLocks

**State.** One pass through a handler is a script: the locks in the order in which the
code awaits them, and the places where a guard is dropped. `script`, `at` and `guards`
say what each task runs, where it is and what it holds; `queue` is the line before each
lock. What happens between lock operations is left out. There is a script for every
handler of a message, every RPC call and every task that takes a lock of chain, mempool,
`state_lock` or the tables of the peer manager; where a handler takes different locks on
different paths it has several (`BlockRefused`, `BlockConnected`).

**Actions.** `Start`, and for a task that runs: `Acquire` (free, nobody waits), `Wait`,
`Grant` (the head of the queue: tokio's locks are fair, readers wait behind writers),
`Release`, `Return` (the remaining guards are dropped).

**Run `locks`**: two peers, an RPC client and a task of the node. The scripts in
`MCJobs` dominate the others (they take the same locks and more). `Isolated`: `insert` and
`add_block` work on a chain and a mempool that nobody else changes.
`OwnLockNeverGranted`: the block handler, the miner and `remove_peer` stop at a lock they
hold themselves. The run has no fairness and claims no progress: handlers await sends to
peers under their guards, and tasks that take mempool and chain in opposite orders
(`net.rs` 432, `main.rs` 192) do wait for each other in it.

**Proofs** (`Tasks_proofs`), for any tasks and any scripts: `AlwaysIsolated`,
`OwnLockNever`, `TypesAlways`. The inductive invariant: no task is twice in a queue
(`QueueOnce`), a write guard is alone on its lock (`WriterAlone`). `OwnLockNever` needs
that a guard is held until the drop that names it (`GuardsKept`), so the lock the handler
asks for is its own (`NotPastOwn`).

## Ledger

**State.** `best_height` (in memory, `Off` while no node runs), `saved`, the blocks under
the keys `h:` and `b:` of any run, `journals`, and the column families `utxo`, `anonymous`,
`key_images`, `coinbase`, `addr_index` as sets of entries.

**Actions.** `NewChain` connects the genesis block, as every start does. `AddBlock(p, b)`
is `add_block` on the parent at height `p`: validation of every transaction
(`ValidTransaction` follows `validate_transaction` check by check, with the fee, the
maturity and the anonymous branch), then one batch that rolls back the blocks that are
loaded from `best_height` down and connects the new one, then `save_block`, which may
fail. `JournalLeft` and `JournalNotDeleted` are an `add_block` that ends before the batch
or after it with its journal in the database; `Exit` ends the run; `Replay` and `Discard`
are recovery. Which parents are known and which journals are stale is in `ChainNode`; here
every one may be. The lookups and sums that make `handle_utxo_action` fail are conditions
(`Connects`, `Disconnects`). Values are bounded by `MaxValue`, which stands for
`u64::MAX`.

**Run `blocks`**, stage `connect`: coinbases, one of them with a fee, a payment, the
payment of its change, a transaction without inputs and an anonymous one, in blocks of
every shape, offered on every parent up to height 2, with one journal. `CoinbasesOnly`: in
any run only coinbases are saved or journalled, every saved block can be rolled back, no
output is ever stored.

**Proof** (`Blocks_proofs`), for every set of transactions and all bounds:
`AlwaysCoinbasesOnly`. The inductive invariant `Blocked` says that nothing is stored and
that neither a saved block nor a journal holds a spending transaction. The step is that
with nothing stored a transaction that is not a coinbase has no input value and cannot pay
its fee, which is above 0 (`TxsAssumption`).

## Backup and BackupStore

**State.** `files[t]` are the suffixes that exist of the backup begun at `t`, `full` the
archives that hold all of the checkpoint; `pc` is the place in `secure_backup_db`,
`holder` who has `maintenance_lock`, `node` whether the node runs, `victim` the backup
`rotate_backups` is removing. Every change of the file system is an action (`Lock`,
`CreateCheckpoint`, `CreateZip`, `FinishZip`, `Sign`, `RenameZip`, `RenameSig`,
`RotateZip`, `RotateSig`, `RotateDone`, `Cleanup`); `Fail` and `FailEarly` are the error
returns, `Crash` ends the process. RocksDB admits one process, so `BackupNow` and the node
exclude each other. Loss of written file contents in a power failure is not modelled: the
files are renamed without a sync, and nothing here says what of them survives one.

`BackupStore` is the promise: backups that can be verified (archive, signature, complete)
appear in order, and one is removed only when there is a newer one. `Backup` implements it
with `verified <- Verified`.

**Run `backup`**: four backups of which two are kept, crash and I/O error at every step.
`NewestSurvives` is the refinement. `ArchivesSound`: nothing that was cut short has a
final name, a signature without archive is left only of a replaced backup, and a backup
that succeeds leaves at most `keep` archives, also those that crashes left in excess.
`CommandEnds`: `BackupNow` ends (weak fairness of its thread, which shares the database
with nobody). `NoBackupWhileRunning`: a
running node never writes a backup, because its hourly task holds the lock that
`secure_backup_db` asks for.

**Proofs** (`Tasks_proofs`): `BackupsImplementStore`, `ArchivesAlwaysSound` (with
`ArchivesComplete`) and `NeverBackupWhileRunning`, for every `keep` above 0 and any number
of backups. The inductive invariant: no file belongs to a
backup that has not begun (`NothingAhead`), what is on disk at each point of
`secure_backup_db` (`Progress`), archives under final names are complete (`Complete`). It
is needed because rotation counts archives and not verified backups: only `Progress` says
that the backup in progress is complete and newest when rotation starts.
`ArchivesAlwaysSound` adds that a signature without archive is older than a complete
backup (`Replaced`) and that after a success nothing is in excess until the next backup
begins (`Rotated`).

## PeerManager

**State.** The fields of `PeerManager` by the names of the code (`peers`, `peers_by_id`,
`known_peers`, `bans`, the signature cache, `pending_inv`), the position of each caller of
`add_peer` (`pc`, `addr`) and of the two loops (`seedpos`, `batch`), and `held`, the
connection that waits in `remove_peer` for a lock it holds. `add_peer` waits for the tasks
it spawns, two of which never end (`net.rs` 296-300), so a connection is named by its
caller: start, accept loop, reconnection task.

**Actions.** `Startup`, `Accept`, `Wake`, `Reconnect` enter `add_peer`; `Handshake` and
`HandshakeFails`; `Learn`, `Enlist`, `Index` are the three tables it fills, one lock each;
`BadMessage`, `Inv`, `Addr` are the messages that change the manager; `RemovePeers` ends a
ban, `RemovePeer` and `Abort` a connection; `Tick`. `reputation` is an `i8` that wraps.

**Run `peers`**, with the handshake of the code and with the hypothetical one. An error
costs 50 instead of 10, so that the first one reaches the limit and the third one wraps.
`TableBounded`: at most two connections whatever `max_peers` is, and more than the limit
per address only when two handshakes overlapped (the count at 167 is stale at 206).
`BansHold`: a ban empties the table but for connections being opened, and every error from
the limit to the overflow bans. `CacheExpires`: a key gets through only if it passed every
check less than the lifetime of the cache ago. No fairness is assumed: the TLS handshake
of `connect_to_seeds` (548) and the wait for the chain at 310 have no limit.

**Proofs** (`PeerManager_proofs`), for all addresses, seeds, keys and limits:
`CacheAlwaysExpires`, because the cache has an entry for a key exactly since its last full
check (it needs a lifetime that is not 0); `TableAlwaysBounded` and `BansAlwaysHold`. The
last two go by the few things a step can do to table and bans (`Effects`). The table
holds only callers that are past the handshake (`Enlisted`), accept loop and start-up are
never in `add_peer` at once (`OneServes`), and an address without overlap has at most its
limit of connections, those being opened included (`SlotsBounded`). For the bans: what is
being opened when a ban begins is spared and nothing else is let in before it ends
(`OpeningSpared`), and the reputation falls by the penalty with every error until it wraps
(`ErrorsCount`), for every penalty from 1 to 128.

## Miner

Rounds of `miner_task` beside a task that writes to the chain: template under the read
lock (`guard`), second read lock (`CurrentTip`), search by the threads of the pool with
`found` and `found_nonce` as separate stores (`Take`, `Hash`, `Store`), end of the chunk.
`good` are the nonces that the search takes for hits, arbitrary for each timestamp (a hash
that fails counts as zero, and so as a hit). A round that
found a nonce stops at the write lock of line 149 (`NodeLocks`).

The branch for read-only mode (57-67) is left out: the mode is set only at `chain.rs` 436,
when `Chain::new` fails and the process ends. So is the interrupt, whose one sender (153)
is behind that lock. The writer (`Arrive`, `Write`) may move the tip or not; that is wider
than the code, which never moves `best_tip` (run `chain_memory`).

**Run `blocks`**, stage `mine`: two threads, three nonces. `BlockFits`: the tip cannot
move between template and submission, and whichever thread stores last, the nonce was a
hit for the header that was searched. It does not say that the block has its work: line
148 takes the timestamp anew, and for another timestamp `good` is another set.

**Proof** (`Blocks_proofs`): `BlockAlwaysFits`, `BlockFits` for any number of threads, any
nonces and bounds. The inductive invariant adds that the guard is held from the template
on, that threads are idle outside the search and store hits only, and that once `found` is
set a hit is stored or about to be: `found` and `found_nonce` are two stores, and between
them `BlockFits` alone would not carry over.

## Consensus

Compact targets have an exponent and three digits to the base `Radix`, 256 in the code and
16 in the instance; the sign bit, the clamping and the times scale with it. `Retarget`
takes a period of any length in `Ends`, also one that ends before it began (timestamps
wrap), and the case without an adjustment. `sha256d` is taken to be injective: the hash of
a transaction is a tuple of one element (`TxHash`), the hash of two hashes their pair, so
that the two never coincide. `Power`, `Rounds` (the loop of `compute_merkle_root`) and
`Descent` are recursive functions, which the provers can use.

**Run `blocks`**, stage `bits`: all sequences of adjustments down to target zero.
`TargetsSound`: the target never exceeds that of the genesis block, changes by at most a
factor 4 and what the mantissa loses, and bits that an adjustment produced are a fixed
point of the encoding. The bits of the genesis block are not one, and the property leaves
them out. `RootIdentifies`: for all lists of up to six transactions two lists have the
same merkle root exactly when they fill the same tree (`Leaves` is the reference
definition), and two lists of the same length only when they are equal.

**Run `consensus_genesis`** (violation). `chain.rs` 1047 asserts that
`target_to_compact(compact_to_target(0x1d00ffff))` is `0x1d00ffff` (`GenesisBitsSurvive`).
`target_to_compact` cuts the mantissa off at 0x007fffff before it looks at the sign bit, so
that the code gives 0x1c7fffff, half the target. The model has the same digits in its
radix. The assertion at 1049 does not hold either: 2^256 is encoded as 0x21010000.

**Proofs** (`Consensus_proofs`). `TargetsAlwaysSound`: `TargetsSound` along every sequence
of adjustments, for periods of any length, every even radix from 8 on, every exponent of
the genesis bits from 3 to the largest size that is encoded, and an expected time of at
least 4. `ConsensusAssumption` has these bounds, and the code's 256, 0x1d, 80 and
`EXPECTED_TIME` satisfy them: the sign bit is half of the mantissa's range when the radix
is even, and from 8 on it is at least four times the smallest mantissa of three digits;
below 4 the shortest period would count as zero. `TargetsSound` does not say that bits are
an exponent and a mantissa at all. The inductive invariant `TargetsInv` adds that they are
`Canonical`: those of the genesis block, or a target from 1 to that of the genesis
block which decoding and encoding leaves as it is. The steps are what an encoding gives
back: targets below three digits exactly (`EncodeSmall`), larger ones their three leading
digits, cut off at the largest mantissa (`EncodeLarge`), so never more than the target and
the same bits when encoded again (`EncodeDecode`); hence every adjustment makes bits
canonical (`EncodeCanonical`), and twice what is left of a target, and 2, is at least a
quarter of the old one (`StepDown`).

`RootAlwaysIdentifies`: `RootIdentifies` for any transactions and any bound on their
number. A path from the root leads to one `Node` of each round. Where the roots agree,
nodes on the same path agree down to the leaves (`SameRootSteps`); two trees of different
depth cannot have the same root, because a leaf is no pair (`NotShorter`); and equal leaves
give equal nodes back up to the root (`LeavesGiveRoot`). For lists of the same length each
round can be taken back (`PairUpInjective`).

## MCBlocks

`MempoolSelect`, `Miner`, `Consensus` and `Ledger` share no variable. `MCBlocks` declares
them together and a variable `stage`, which `Init` chooses and no step changes; each
behaviour is one of a single module with the others at their initial states. So the run
`blocks` is the sum of four instances, and each theorem is about one module's own
specification.

## CreateTx

`create_tx` on any set of outputs that `get_utxos` may return: selection and first fee
(`Create`), a round of the loop (`Round`), the test and the outputs (`Finish`, `Return`).
All sums, products and differences wrap at `Word`, which stands for 2^64.

**Run `wallet`**: every subset of four outputs, amounts and rates on both sides of the
margin, the dust limit, what the inputs can pay, and `Word` = 2^28. `PaymentSound`: a
transaction that is made pays its fee exactly when amount and fee together fit in a word
(the sum at 1469 is not checked), keeps at most dust beyond it, pays the rate for one
output, and is refused only when the inputs do not pay for change; the last two as long as
the fee does not wrap (`InRange`).

**Proof** (`Wallet_proofs`), for every finite set of outputs and all parameters:
`PaymentAlwaysSound`. `PayInv` brackets the fee: it starts from one output and each round
sets it to the rate for one or two (`Charged`). `SupplyAssumption` says that all outputs
together are worth less than a word, which a supply below 2^64 gives; amounts and rates
are arbitrary.

The readers of the address index (balance, outputs, scan, history, rich list) are not
modelled. `CoinbasesOnly` says that the index they read is always empty.

## WalletApp

**State.** `app`, the fields of `LyrionWalletApp`; `file`, absent, cut short, or whole with
the seed and the password it is encrypted with; history variables: the password each seed
was confirmed with, the first seed that was written, whether a start could not read the
file, whether a save came while the wallet was locked, and a payment that was shown.

**Actions.** One frame of `update` with at most one input of the user, as the
composition of the code's steps in their order (`MainFrame`, `MenuFrame`, `CreateFrame`,
`Unlock`); the end of a scan or payment (`ScanDone`, `SendDone`); `Activity` on the chain;
`Save`, which writes the file, fails before it, leaves it cut short, or panics without a
seed; `Restart`, which can read the file or not. The screen `RestoreWallet` is never
entered.

**Run `wallet_app`**: two passwords, two phrases. `SecretsKept`: there is a seed on the
screen `Main`, so that no `unwrap` panics, and the file opens with the password its seed
was confirmed with. The exception is the empty password, after a save of a locked wallet
(997 clears the password and keeps the seed). `FileKeepsSeed`: a whole file holds the seed
that was written first, unless a start could not read the file; a save that is cut short
can destroy it, and does not lead to a new one. `OnePayment`: after a payment was shown no
other is started before a restart.

**Proofs** (`Wallet_proofs`): `SecretsAlwaysKept`, `FileSeed` and `OnlyOnePayment`, for
every set of passwords and all bounds. The inductive invariant relates the seed of the
application, the file and the first seed written, says that `CreateWallet` is shown only
without a file or after a start that could not read it, and that the password of an open
wallet is that of its seed or empty.

## What is proved and what is only model-checked

Proved for every value of the constants: the theorems named above, from the named
`ASSUME`s only, which TLC evaluates on the instances. They state every safety invariant
and every action property that a passing run checks.

Several are about sums: bytes of a mempool, of a package, inputs of a payment.
The models compute them with folds of the community modules, which are recursive
functions. `Sums` proves what the proofs need of them for every finite set and every
sequence: the fold exists and is unique, it may take its elements in any order, it is
additive over unions, and it is the same for a sequence and the set of its elements when
none repeats. The induction in these proofs is by a smallest counterexample
(`MinimalSubset`), since induction schemes with an operator as parameter cannot be
instantiated.

`Consensus` computes with powers, divisions and rounds of a loop. Powers, rounds and
descents are recursive functions; that they exist and satisfy their equations is proved in
`Consensus_proofs` in the same way, with the property as a set of numbers (`UpTo`,
`Induct`).

Only model-checked: liveness under fairness (`BootCompletes`, `AddBlockStores`,
`CommandEnds`), which is out of the reach of the provers.

## Where the code and its own words differ

The models follow the code. While they were written these differences between what the
code does and what its comments, messages or tests say came up. The first four are
violation runs; for the others the property in brackets holds of the code and contains the
behaviour.

- `chain.rs` 721: `best_tip` is never updated, "4. Update memory state only after DB
  success" (run `chain_memory`).
- `chain.rs` 281: `load_from_db` refuses what the node stored; `main.rs` 120 advises to run
  `InitDb` first (run `chain_load`).
- `mempool.rs` 207: the first expiry removes everything and panics; `main.rs` 235 expects
  the task to go on (run `mempool_cleaning`).
- `utils.rs` 190: the genesis target loses half in its own encoding, against the assertion
  at `chain.rs` 1047 (run `consensus_genesis`).
- `chain.rs` 719: "3. Atomic Commit" is two synced writes, header and index first, tip and
  block later (`StoredChain` is what survives a crash between them).
- `chain.rs` 710: "1. Disconnect the old chain (Rollback)" starts from the height in
  memory, which is 0 after a restart (the premise of `ReplacementExact`).
- `chain.rs` 815: `add_block` drains an orphan by calling itself with its lock held
  (`pc = "blocked"`).
- `chain.rs` 510: the outputs of coinbases are never stored, against 850, which compares
  the stored supply with the subsidies [`CoinbasesOnly`].
- `mempool.rs` 88: "Cycle detected in dependencies" without a cycle [`Shallow`].
- `net.rs` 444, `net.rs` 537 and `miner.rs` 149: each waits for a lock it holds, the first
  and the last before "Broadcast INV BLOCK" and "Block mined at height"
  [`OwnLockNeverGranted`].
- `miner.rs` 148: the block gets another timestamp than the header that was searched at 99,
  so that its nonce need not meet the target any more (`NonceWasHit` is about the template).
- `net.rs` 432 and `main.rs` 192 take mempool and chain in opposite orders (`TxAccepted`,
  `Inventory`).
- `db.rs` 145: "Finalisation (renommage atomique)" is two renames [`ArchivesSound`].
- `main.rs` 219 and `db.rs` 92: the hourly backup waits for its own lock
  [`NoBackupWhileRunning`].
- `net.rs` 188 and 328-353: the handshake fails with every peer (`Passes`).
- `net.rs` 385: one counter "Anti INV flood" for all peers (`Inv`).
- `main.rs` 989: the file is cut before it is written, and no copy is kept (`Save`).
- `main.rs` 997: a save while the wallet is locked encrypts with the empty password
  [`SecretsKept`].
- `main.rs` 1042: the phrase is generated again in every frame (`CreateFrame`).
- `main.rs` 1170: "New receive address" changes a counter that the screen does not show
  (`Receive`).
- `chain.rs` 594 and `main.rs` 1317 compute two different digests of an address; the index
  is empty anyway [`CoinbasesOnly`].
- `main.rs` 1461: "Insufficient funds (fees included)" although the inputs pay for a
  transaction without change [`PaymentSound`].

## Not modelled

- RPC and health servers: parsing, tokens and serialization around single calls of chain
  and mempool. Their locks are in `NodeLocks`.
- Commands of the CLI that create, print or restore keys: one file or one line of output.
- Proof of work, hashing, signatures, ring signatures, range proofs, address encoding:
  calls of libraries, whose verdict is a constant set of the models.
- The database pool: opening RocksDB. `ChainNode` models what its reads, unsynced and
  synced writes do.
- `config.rs`, `errors.rs`, `lib.rs`: settings read once, declarations.
- Code that nothing calls or that lies behind a wait that never ends: `update_max_size`,
  `validate_script_with_timeout`, `evict_low_fee_package` after its first line, `prune`
  above `PRUNE_DEPTH`, the miner in read-only mode and after line 149.
- The readers of the address index, which is always empty (see `CreateTx`).
- What a power failure leaves of files that were not synced: the backups and the wallet.
