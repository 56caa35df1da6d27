----------------------------- MODULE NodeLocks -----------------------------
(***************************************************************************)
(* The locks that the tasks of a running node share: the read-write locks  *)
(* of chain, mempool and the tables of the peer manager, and the mutex     *)
(* inside add_block (net.rs, miner.rs, main.rs, chain.rs).                 *)
(*                                                                         *)
(* What a task does between its lock operations is left out.  One pass     *)
(* through a handler is a script: the locks in the order in which the code *)
(* awaits them and the places where a guard is dropped; the guards that    *)
(* are left are dropped together when the handler returns.                 *)
(*                                                                         *)
(* A step may take as long as it likes, or for ever: handlers await        *)
(* bounded channels to a peer while they hold guards (net.rs 409-501), and *)
(* the task that empties a channel writes to the peer without a timeout    *)
(* (net.rs 232).  So no fairness is assumed and nothing is claimed to end. *)
(***************************************************************************)
EXTENDS Naturals, Sequences, FiniteSets

CONSTANTS
    Tasks,   \* the tasks of the runtime: one per peer, RPC request, ...
    Jobs     \* the scripts each task may run, as a function on Tasks

Locks == {"mempool", "chain", "state_lock", "peers", "peers_by_id",
          "known_peers", "bans", "bans_persistent"}

Step == [op: {"read", "write", "drop"}, lock: Locks, guard: Nat]

\* l.read().await, l.write().await or l.lock().await, and drop(guard), where
\* a guard is named by the place in the script at which it was obtained.
Read(l)    == [op |-> "read", lock |-> l, guard |-> 0]
Write(l)   == [op |-> "write", lock |-> l, guard |-> 0]
Drop(l, g) == [op |-> "drop", lock |-> l, guard |-> g]

ASSUME JobsAssumption == Jobs \in [Tasks -> SUBSET (Seq(Step) \ {<<>>})]

-----------------------------------------------------------------------------
(* Peers: the connection itself. *)

\* add_peer up to the tasks it spawns, with is_banned, handshake and the
\* broadcast of the new address.
AddPeer ==
    <<Write("bans"), Write("bans_persistent"),
      Drop("bans_persistent", 2), Drop("bans", 1),
      Read("peers"), Drop("peers", 5),
      Read("chain"), Drop("chain", 7),
      Write("known_peers"), Drop("known_peers", 9),
      Read("peers"), Drop("peers", 11),
      Write("peers"), Drop("peers", 13),
      Write("peers_by_id")>>

\* remove_peer at the end of a connection.
RemovePeer == <<Write("peers"), Write("peers_by_id"), Read("peers")>>

\* decrease_reputation when it reaches ban_ip, with remove_peers.
BanIp ==
    <<Write("bans"), Drop("bans", 1),
      Write("bans_persistent"), Drop("bans_persistent", 3), Write("peers")>>

\* A round of the reconnection task before it calls add_peer.
Reconnect == <<Read("peers"), Drop("peers", 1), Read("known_peers")>>

(* Peers: the arms of handle_message that take a lock. *)

GetDataTx    == <<Read("mempool")>>
GetDataBlock == <<Read("chain")>>
GetHeaders   == <<Read("chain")>>
GetAddr      == <<Read("known_peers")>>
Addr         == <<Write("known_peers")>>

\* A transaction that insert refuses, and one that it takes and that is then
\* announced to the peers (broadcast).
TxRefused  == <<Write("mempool"), Read("chain")>>
TxAccepted == <<Write("mempool"), Read("chain"), Read("peers")>>

\* Slip: the handler gives the mempool back before add_block asks for it.
BlockConnectedDropsFirst ==
    <<Write("chain"), Write("mempool"), Drop("mempool", 2), Write("mempool"),
      Drop("mempool", 4), Read("peers")>>

\* A block that is known, invalid or an orphan; one that becomes the tip, for
\* which add_block locks the mempool before it is announced.  The branch of
\* add_block for a block without more work is never taken (NeverWaitsForItself
\* in ChainNode_proofs).
BlockRefused   == <<Write("chain"), Write("mempool"), Write("state_lock")>>
BlockConnected == <<Write("chain"), Write("mempool"), Write("state_lock"),
                    Write("mempool"), Drop("mempool", 4),
                    Drop("state_lock", 3), Read("peers")>>

\* The light block of a header has no coinbase: add_block always refuses it.
Headers == <<Write("chain"), Write("state_lock")>>

(* The other tasks of the node. *)

\* The inventory task, for one announcement.
Inventory == <<Write("chain"), Write("mempool")>>

\* A round of the expiration task.
Clean == <<Write("mempool")>>

\* A round of miner_task.  It ends with a nonce: nothing interrupts it, since
\* the only sender of tip_change is line 153, behind the lock of 149, and
\* read-only mode never begins in a running node (see Miner).
MineFound == <<Read("chain"), Read("mempool"), Drop("mempool", 2),
               Read("chain"), Drop("chain", 4),
               Write("chain"), Write("state_lock"), Write("mempool")>>

\* The RPC handlers behind a valid token.
RpcHeight  == <<Read("chain")>>
RpcBlock   == <<Read("chain")>>
RpcMempool == <<Read("mempool")>>
RpcSendTx  == <<Write("mempool"), Read("chain")>>

-----------------------------------------------------------------------------
VARIABLES
    script,   \* the script a task runs, <<>> between two
    at,       \* the place in it
    guards,   \* the guards the task holds
    queue     \* the tasks that wait for a lock, first come first served

vars == <<script, at, guards, queue>>

Next1(t)   == script[t][at[t]]
Running(t) == script[t] # <<>> /\ at[t] <= Len(script[t])
Asks(t, l) == Running(t) /\ Next1(t).op # "drop" /\ Next1(t).lock = l
Waits(t)   == \E l \in Locks : \E i \in 1 .. Len(queue[l]) : queue[l][i] = t

\* Slip: a reader is let in beside a writer.
BlocksWritersOnly(u, t) ==
    \E g \in guards[u] :
        /\ script[u][g].lock = Next1(t).lock
        /\ Next1(t).op = "write"

\* A task u keeps task t from the lock it asks for.
Blocks(u, t) ==
    \E g \in guards[u] :
        /\ script[u][g].lock = Next1(t).lock
        /\ "write" \in {script[u][g].op, Next1(t).op}

Free(t) == \A u \in Tasks : ~ Blocks(u, t)

Init ==
    /\ script = [t \in Tasks |-> <<>>]
    /\ at = [t \in Tasks |-> 1]
    /\ guards = [t \in Tasks |-> {}]
    /\ queue = [l \in Locks |-> <<>>]

Start(t) ==
    /\ script[t] = <<>>
    /\ \E s \in Jobs[t] : script' = [script EXCEPT ![t] = s]
    /\ UNCHANGED <<at, guards, queue>>

Take(t) ==
    /\ guards' = [guards EXCEPT ![t] = @ \cup {at[t]}]
    /\ at' = [at EXCEPT ![t] = @ + 1]

\* The lock is free and nobody waits for it: the task has it at once.
Acquire(t) ==
    \E l \in Locks :
        /\ Asks(t, l) /\ ~ Waits(t)
        /\ queue[l] = <<>> /\ Free(t)
        /\ Take(t)
        /\ UNCHANGED <<script, queue>>

\* Otherwise it waits behind those that came before, readers behind writers
\* as well (the tokio locks are fair).
Wait(t) ==
    \E l \in Locks :
        /\ Asks(t, l) /\ ~ Waits(t)
        /\ queue[l] # <<>> \/ ~ Free(t)
        /\ queue' = [queue EXCEPT ![l] = Append(@, t)]
        /\ UNCHANGED <<script, at, guards>>

\* The first in the queue gets the lock.
Grant(t) ==
    \E l \in Locks :
        /\ queue[l] # <<>> /\ Head(queue[l]) = t /\ Free(t)
        /\ queue' = [queue EXCEPT ![l] = Tail(@)]
        /\ Take(t)
        /\ UNCHANGED script

Release(t) ==
    /\ Running(t) /\ Next1(t).op = "drop"
    /\ guards' = [guards EXCEPT ![t] = @ \ {Next1(t).guard}]
    /\ at' = [at EXCEPT ![t] = @ + 1]
    /\ UNCHANGED <<script, queue>>

\* The handler returns and drops its remaining guards.
Return(t) ==
    /\ script[t] # <<>> /\ at[t] = Len(script[t]) + 1
    /\ script' = [script EXCEPT ![t] = <<>>]
    /\ at' = [at EXCEPT ![t] = 1]
    /\ guards' = [guards EXCEPT ![t] = {}]
    /\ UNCHANGED queue

Proceed(t) == Acquire(t) \/ Wait(t) \/ Grant(t) \/ Release(t) \/ Return(t)
Next       == \E t \in Tasks : Start(t) \/ Proceed(t)

Spec       == Init /\ [][Next]_vars

-----------------------------------------------------------------------------
(* Properties. *)

QueuedAsk == \A l \in Locks : \A i \in 1 .. Len(queue[l]) : Asks(queue[l][i], l)

\* Every task is at a place of one of its scripts, holds guards it obtained
\* there, and waits only for the lock it asks for.
TypeOK ==
    /\ script \in [Tasks -> Seq(Step)]
    /\ at \in [Tasks -> Nat \ {0}]
    /\ guards \in [Tasks -> SUBSET Nat]
    /\ queue \in [Locks -> Seq(Tasks)]
    /\ \A t \in Tasks :
        /\ script[t] \in Jobs[t] \cup {<<>>}
        /\ at[t] <= Len(script[t]) + 1
        /\ guards[t] \subseteq 1 .. (at[t] - 1)
    /\ QueuedAsk

Holds(t, l, ops) == \E g \in guards[t] : script[t][g].lock = l /\ script[t][g].op \in ops

\* insert and add_block work on a chain and a mempool that nobody else is
\* changing: while TX and send_tx are past their locks no other task has the
\* mempool and none may write the chain, while BLOCK is past them no other
\* task has either.
Isolated ==
    \A t, u \in Tasks :
        /\ u # t /\ at[t] > 2 /\ {1, 2} \subseteq guards[t]
        => /\ script[t] \in {TxRefused, TxAccepted, RpcSendTx}
                => ~ Holds(u, "mempool", {"read", "write"}) /\ ~ Holds(u, "chain", {"write"})
           /\ script[t] \in {BlockRefused, BlockConnected}
                => ~ Holds(u, "mempool", {"read", "write"})
                   /\ ~ Holds(u, "chain", {"read", "write"})

\* A block that becomes the tip is never announced (net.rs 446), a found block
\* is never handed to add_block (miner.rs 150) and remove_peer never returns:
\* the three wait for a lock that they hold themselves (chain.rs 728, miner.rs
\* 149, net.rs 537), whatever the other tasks do.
OwnLockNeverGranted ==
    \A t \in Tasks :
        /\ script[t] = BlockConnected => at[t] <= 4
        /\ script[t] = MineFound => at[t] <= 6
        /\ script[t] = RemovePeer => at[t] <= 3
=============================================================================
