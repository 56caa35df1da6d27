---------------------------- MODULE MCNodeLocks ----------------------------
(***************************************************************************)
(* The tasks of a node with two peers.  A peer handles its messages one    *)
(* after the other; every other task repeats its own round.                *)
(***************************************************************************)
EXTENDS NodeLocks, TLC

CONSTANTS peer1, peer2, rpc, own

\* own stands for the inventory task, the miner and the reconnection task, of
\* which one runs at a time; rpc also for the expiration task.
MCTasks == {peer1, peer2, rpc, own}
MCJobs ==
    (peer1 :> {TxRefused, TxAccepted, BlockRefused, BlockConnected, GetHeaders,
               GetDataBlock, GetDataTx, BanIp})
    @@ (peer2 :> {AddPeer, RemovePeer, Headers, Addr, GetAddr})
    @@ (rpc :> {RpcSendTx, RpcHeight, RpcBlock, RpcMempool, Clean})
    @@ (own :> {Inventory, MineFound, Reconnect})
=============================================================================
