------------------------------- MODULE Miner -------------------------------
(***************************************************************************)
(* The miner task (miner.rs) against the chain it shares with the tasks    *)
(* that write to it.                                                       *)
(*                                                                         *)
(* chain_read (56) is held until the end of the round, also when the write *)
(* lock is asked for at 149: a round that found a nonce stops there.  The  *)
(* flag interrupt is left out: tip_change_tx has no other sender than line *)
(* 153, which that round does not reach.  So is the branch for read-only   *)
(* mode (57-67): no running node is in it, since read_only_mode is set     *)
(* only at chain.rs 436, when the batch of the genesis block fails and     *)
(* Chain::new returns the error that ends the process.                     *)
(***************************************************************************)
EXTENDS Naturals, FiniteSets

CONSTANTS
    Threads,      \* the threads of the pool
    Nonces,       \* the nonces of one chunk (NONCE_CHUNK_SIZE)
    MaxTip,       \* bound on the number of tips
    MaxTime       \* bound on the clock, in seconds

ASSUME MinerAssumption ==
    /\ IsFiniteSet(Threads) /\ Threads # {} /\ Nonces # {}
    /\ {MaxTip, MaxTime} \subseteq Nat

VARIABLES
    pc,         \* top, tip, search or submit
    guard,      \* the miner holds the read lock of the chain
    writer,     \* a task that writes to the chain: away or waiting
    tip,        \* Chain.best_tip, numbered
    template,   \* prev_hash and timestamp of header_base
    good,       \* the nonces that the search takes for hits, by timestamp: the
                \* hash meets the target, or fails and counts as zero
    chunk,      \* nonces of the chunk that no thread has taken
    thread,     \* what a thread does: idle, hash or store, and its nonce
    found, found_nonce,
    block,      \* the block of line 148, or NoBlock
    now

miner_vars == <<pc, guard, writer, tip, template, good, chunk, thread, found,
                found_nonce, block, now>>
search == <<chunk, thread, found, found_nonce>>

NoBlock == [prev |-> 0, time |-> 0, nonce |-> 0]
Idle == [at |-> "idle"]

MinerInit ==
    /\ pc = "top" /\ guard = FALSE /\ writer = "away"
    /\ tip = 0 /\ template = [prev |-> 0, time |-> 0]
    /\ good \in [1 .. MaxTime -> SUBSET Nonces]
    /\ chunk = {} /\ thread = [t \in Threads |-> Idle]
    /\ found = FALSE /\ found_nonce = 0 /\ block = NoBlock /\ now = 1

-----------------------------------------------------------------------------
(* A round of the miner *)

\* The template and header_base, under the read lock of the chain.
Template ==
    /\ pc = "top" /\ writer = "away"
    /\ guard' = TRUE /\ pc' = "tip"
    /\ template' = [prev |-> tip, time |-> now]
    /\ UNCHANGED <<writer, tip, good, search, block, now>>

\* current_tip: a second read lock, which is not granted past a waiting
\* writer; then the search starts.
CurrentTip ==
    /\ pc = "tip" /\ writer = "away"
    /\ pc' = "search" /\ chunk' = Nonces /\ found' = FALSE
    /\ UNCHANGED <<guard, writer, tip, template, good, thread, found_nonce, block,
                   now>>

\* find_any: a thread takes a nonce while none has been found,
Take(t) ==
    /\ pc = "search" /\ thread[t] = Idle /\ ~found
    /\ \E n \in chunk :
         /\ chunk' = chunk \ {n}
         /\ thread' = [thread EXCEPT ![t] = [at |-> "hash", nonce |-> n]]
    /\ UNCHANGED <<pc, guard, writer, tip, template, good,
                   found, found_nonce, block, now>>

\* hashes the header with it and compares with the target,
Hash(t) ==
    /\ thread[t].at = "hash"
    /\ LET hit == thread[t].nonce \in good[template.time] IN
       /\ found' = (found \/ hit)
       /\ thread' = [thread EXCEPT ![t] = IF hit THEN [@ EXCEPT !.at = "store"]
                                                 ELSE Idle]
    /\ UNCHANGED <<pc, guard, writer, tip, template, good,
                   chunk, found_nonce, block, now>>

\* Slip: the nonce that is stored is the one after the hit.
StoreNext(t) ==
    /\ thread[t].at = "store"
    /\ found_nonce' = thread[t].nonce + 1
    /\ thread' = [thread EXCEPT ![t] = Idle]
    /\ UNCHANGED <<pc, guard, writer, tip, template, good,
                   chunk, found, block, now>>

\* and stores it.
Store(t) ==
    /\ thread[t].at = "store"
    /\ found_nonce' = thread[t].nonce
    /\ thread' = [thread EXCEPT ![t] = Idle]
    /\ UNCHANGED <<pc, guard, writer, tip, template, good,
                   chunk, found, block, now>>

\* find_any returns when every thread has: another chunk, or the block with
\* the time of this moment.
ChunkDone ==
    /\ pc = "search" /\ \A t \in Threads : thread[t] = Idle
    /\ \/ /\ ~found /\ chunk = {}
          /\ chunk' = Nonces /\ UNCHANGED <<pc, block>>
       \/ /\ found
          /\ pc' = "submit" /\ UNCHANGED chunk
          /\ block' = [prev |-> template.prev, time |-> now, nonce |-> found_nonce]
    /\ UNCHANGED <<guard, writer, tip, template, good, thread, found, found_nonce,
                   now>>

-----------------------------------------------------------------------------
(* The tasks that write to the chain *)

Arrive ==
    /\ writer = "away" /\ writer' = "waiting"
    /\ UNCHANGED <<pc, guard, tip, template, good, search, block, now>>

\* add_block under the write lock.  That the tip may move is more than the
\* code does today: add_block raises best_height and leaves best_tip.
Write ==
    /\ writer = "waiting" /\ ~guard
    /\ writer' = "away"
    /\ \/ tip < MaxTip /\ tip' = tip + 1
       \/ UNCHANGED tip
    /\ UNCHANGED <<pc, guard, template, good, search, block, now>>

Tick ==
    /\ now < MaxTime /\ now' = now + 1
    /\ UNCHANGED <<pc, guard, writer, tip, template, good,
                   search, block>>

Round == Template \/ CurrentTip \/ ChunkDone
Thread(t) == Take(t) \/ Hash(t) \/ Store(t)

MinerNext == Round \/ (\E t \in Threads : Thread(t)) \/ Arrive \/ Write \/ Tick

MinerSpec == MinerInit /\ [][MinerNext]_miner_vars

-----------------------------------------------------------------------------
(* Properties *)

\* The tip cannot change between the template and the end of the round: the
\* comparison at line 151 never finds a tip that moved.
TipStands == pc \in {"tip", "search", "submit"} => tip = template.prev

\* Whichever of several threads stores last, the nonce in the block was a hit
\* for the header that was searched (127-148).  The header of the block is
\* another one when the clock has moved since: its timestamp is taken anew,
\* and of the hash it has then nothing is known.
NonceWasHit == block # NoBlock => block.nonce \in good[template.time]

\* A block that is submitted extends the tip, with a nonce that was a hit for
\* its template (not always for the timestamp the block gets at line 148).
BlockFits == TipStands /\ NonceWasHit
=============================================================================
