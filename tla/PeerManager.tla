---------------------------- MODULE PeerManager ----------------------------
(***************************************************************************)
(* The peer manager (net.rs) with the two loops of RunNode that call it    *)
(* (main.rs 170-185): admission, handshake, the table of connections,      *)
(* reputation, bans, known addresses and the end of a connection.          *)
(*                                                                         *)
(* add_peer waits for the tasks it spawns (296-300), two of which never    *)
(* end, so that its caller is taken up by a connection for good: a         *)
(* connection is named by the caller of add_peer it came from.  The locks  *)
(* are in NodeLocks; here only the one that remove_peer never gets back    *)
(* matters (held).  bans and bans_persistent always get the same entries   *)
(* and are one variable; the database record of a ban is never read.       *)
(*                                                                         *)
(* As the code stands every handshake fails.  The variable repaired also   *)
(* admits the hypothetical handshake that can succeed, so that the rest of *)
(* add_peer, the table and the bans can be looked at.                      *)
(***************************************************************************)
EXTENDS Naturals, Integers, FiniteSets, FiniteSetsExt, Sequences, SequencesExt

CONSTANTS
    Ips, NoIp,      \* addresses of peers (one port each)
    Subnet,         \* the address with the last octet cleared, on Ips
    Seeds,          \* config.seed_nodes, a sequence of addresses
    Keys,           \* public keys that peers present
    MaxPeers,       \* config.max_peers
    MaxPerSubnet,   \* MAX_PEERS_PER_SUBNET
    InvLimit,       \* announcements before they count as a flood (1000)
    BanTime,        \* 72 hours, in ticks
    CacheTime,      \* SIGNATURE_CACHE_TTL_MS, in ticks
    MaxTime,        \* bound on the clock
    MaxErrors,      \* bound on the errors of a connection
    MaxInv,         \* bound on the announcements
    Penalty         \* what an error costs (10)

ASSUME PeersAssumption ==
    /\ Subnet \in [Ips -> Ips] /\ Seeds \in Seq(Ips) /\ NoIp \notin Ips
    /\ \A n \in {MaxPeers, MaxPerSubnet, InvLimit, BanTime, CacheTime,
                 MaxTime, MaxErrors, MaxInv} : n \in Nat
    /\ CacheTime # 0
    /\ Penalty \in 1 .. 128

\* The tasks that call add_peer: connect_to_seeds, the accept loop and the
\* automatic reconnection.
Callers == {"startup", "listener", "reconnect"}
Nobody == "nobody"
Never == 0

VARIABLES
    repaired,     \* FALSE: the handshake as it is in the code.  TRUE: its message
                  \* is sent, the frame is read without the 4 extra bytes, and
                  \* the nonce is compared before it is erased
    pc,           \* where each caller is in add_peer
    addr,         \* the address of its connection
    seedpos,      \* seeds that connect_to_seeds is done with
    batch,        \* known addresses the reconnection task will still try
    peers,        \* PeerManager.peers: connections by address
    peers_by_id,  \* its one entry: every Peer has the node's own peer_id
    known_peers,  \* PeerManager.known_peers, without order and repeats
    bans,         \* the time a ban ends, or Never
    cache,        \* signature_cache: time of the entry of a key, or Never
    reputation,   \* Peer.reputation, an i8
    pending_inv,  \* the one entry of PeerManager.pending_inv
    held,         \* the connection that waits in remove_peer with the locks
    now,
    errors,       \* history: errors charged to a connection, and when last
    erred_at,
    checked,      \* history: when a key last passed every check
    overlap,      \* history: addresses with two handshakes at once
    spared        \* history: connections being opened when the ban came

tables  == <<peers, peers_by_id, held>>
history == <<errors, erred_at, checked, overlap, spared>>
vars == <<repaired, pc, addr, seedpos, batch, tables, known_peers, bans, cache,
          reputation, pending_inv, now, history>>

Listening == seedpos = Len(Seeds) /\ pc["startup"] = "idle"

Opening(c) == pc[c] \in {"handshake", "accepted", "known", "listed"}

Init ==
    /\ repaired \in BOOLEAN
    /\ pc = [c \in Callers |-> "idle"] /\ addr = [c \in Callers |-> NoIp]
    /\ seedpos = 0 /\ batch = {}
    /\ peers = [i \in Ips |-> {}] /\ peers_by_id = Nobody /\ held = Nobody
    /\ known_peers = ToSet(Seeds)
    /\ bans = [i \in Ips |-> Never] /\ cache = [k \in Keys |-> Never]
    /\ reputation = [c \in Callers |-> 0] /\ pending_inv = 0 /\ now = 1
    /\ errors = [c \in Callers |-> 0] /\ erred_at = errors
    /\ checked = cache /\ overlap = {}
    /\ spared = [i \in Ips |-> {}]

-----------------------------------------------------------------------------
(* Admission *)

\* is_banned after its retain: the entries that have not expired.
Current(i) == IF now < bans[i] THEN bans[i] ELSE Never

Connected == {i \in Ips : peers[i] # {}}

\* Slip: one connection more per address.
RoomForOneMore(i) ==
    /\ Cardinality(peers[i]) <= MaxPeers \div 10
    /\ Cardinality(Connected) < MaxPeers
    /\ Cardinality(peers[Subnet[i]]) < MaxPerSubnet

\* The limits of add_peer.  The table is keyed by address, also where the
\* connections of the subnet are counted.
Room(i) ==
    /\ Cardinality(peers[i]) < MaxPeers \div 10
    /\ Cardinality(Connected) < MaxPeers
    /\ Cardinality(peers[Subnet[i]]) < MaxPerSubnet

\* add_peer up to the handshake.
Enter(c, i) ==
    /\ held = Nobody
    /\ bans' = [j \in Ips |-> Current(j)]
    /\ LET admitted == bans'[i] = Never /\ Room(i) IN
       /\ pc' = [pc EXCEPT ![c] = IF admitted THEN "handshake" ELSE "idle"]
       /\ addr' = [addr EXCEPT ![c] = IF admitted THEN i ELSE NoIp]
       /\ overlap' = IF admitted /\ \E d \in Callers : Opening(d) /\ addr[d] = i
                     THEN overlap \cup {i} ELSE overlap
    /\ reputation' = [reputation EXCEPT ![c] = 0]
    /\ UNCHANGED <<tables, known_peers, cache, pending_inv, now, repaired,
                   errors, erred_at, checked, spared>>

\* connect_to_seeds: a seed that answers, and one that does not.  The wait for
\* TCP is bounded; the one for TLS (548) is not, and no step here is obliged to
\* happen.
Startup ==
    /\ pc["startup"] = "idle" /\ seedpos < Len(Seeds)
    /\ seedpos' = seedpos + 1 /\ UNCHANGED batch
    /\ \/ Enter("startup", Seeds[seedpos + 1])
       \/ UNCHANGED <<pc, addr, tables, known_peers, bans, cache, reputation,
                      pending_inv, now, repaired, history>>

\* The accept loop, which RunNode starts when connect_to_seeds has returned.
Accept(i) ==
    /\ Listening /\ pc["listener"] = "idle"
    /\ Enter("listener", i) /\ UNCHANGED <<seedpos, batch>>

\* A round of the reconnection task: it looks at the table, takes up to ten
\* known addresses, and tries one after the other.
Wake ==
    /\ pc["reconnect"] = "idle" /\ batch = {} /\ held = Nobody
    /\ Cardinality(Connected) < MaxPeers \div 2
    /\ batch' \in {B \in SUBSET known_peers :
                     Cardinality(B) = Min({10, Cardinality(known_peers)})}
    /\ UNCHANGED <<pc, addr, seedpos, tables, known_peers, bans, cache,
                   reputation, pending_inv, now, repaired, history>>

Reconnect ==
    /\ pc["reconnect"] = "idle"
    /\ \E i \in batch :
         /\ batch' = batch \ {i} /\ UNCHANGED seedpos
         /\ \/ Enter("reconnect", i)
            \/ UNCHANGED <<pc, addr, tables, known_peers, bans, cache,
                           reputation, pending_inv, now, repaired, history>>

-----------------------------------------------------------------------------
(* Handshake *)

\* What a peer sends back: the key it presents, its nonce, and whether
\* signature, version, genesis hash and clock are as lines 342-358 want them.
Replies == [key: Keys, sound: BOOLEAN, nonce: {"zero", "random"}]

\* write_tx is a channel whose receiver was dropped with it (188): its send
\* fails.
Sent == repaired

\* Version, genesis hash, time and nonce; and the buffer that is read, with key,
\* signature and four bytes more, whose length is then compared.
MsgLen == 4 + 32 + 8 + 12
BufLen == MsgLen + 32 + 64 + (IF repaired THEN 0 ELSE 4)
FrameFits == BufLen = MsgLen + 32 + 64

\* The nonce that is compared with zero: it is erased first.
NonceSeen(r) == IF repaired THEN r.nonce ELSE "zero"

\* Slip: an entry of exactly the lifetime still counts.
CachedTooLong(k) == cache[k] # Never /\ now - cache[k] <= CacheTime

\* The lookup in signature_cache.
Cached(k) == cache[k] # Never /\ now - cache[k] < CacheTime

\* handshake: a key in the cache is accepted at once; otherwise everything is
\* compared and the key enters the cache.
Checks(r) == r.sound /\ NonceSeen(r) # "zero"
Passes(r) == Sent /\ FrameFits /\ (Cached(r.key) \/ Checks(r))

CacheAfter(r) ==
    IF Passes(r) /\ ~Cached(r.key) THEN [cache EXCEPT ![r.key] = now] ELSE cache

\* A handshake that fails lowers the reputation of a Peer that is dropped.
Handshake(c, r) ==
    /\ pc[c] = "handshake"
    /\ pc' = [pc EXCEPT ![c] = IF Passes(r) THEN "accepted" ELSE "idle"]
    /\ addr' = [addr EXCEPT ![c] = IF Passes(r) THEN @ ELSE NoIp]
    /\ cache' = CacheAfter(r)
    /\ checked' = IF Passes(r) /\ r.sound /\ ~Cached(r.key)
                  THEN [checked EXCEPT ![r.key] = now] ELSE checked
    /\ UNCHANGED <<seedpos, batch, tables, known_peers, bans, reputation,
                   pending_inv, now, repaired, errors, erred_at, overlap,
                   spared>>

\* The send of our message, HANDSHAKE_TIMEOUT, a closed stream or a frame that is
\* no key.  The wait for the chain before them (310) has no limit.
HandshakeFails(c) ==
    /\ pc[c] = "handshake"
    /\ pc' = [pc EXCEPT ![c] = "idle"] /\ addr' = [addr EXCEPT ![c] = NoIp]
    /\ UNCHANGED <<seedpos, batch, tables, known_peers, bans, cache,
                   reputation, pending_inv, now, repaired, history>>

-----------------------------------------------------------------------------
(* The rest of add_peer *)

Learn(c) ==
    /\ pc[c] = "accepted"
    /\ known_peers' = known_peers \cup {addr[c]}
    /\ pc' = [pc EXCEPT ![c] = "known"]
    /\ UNCHANGED <<addr, seedpos, batch, tables, bans, cache, reputation,
                   pending_inv, now, repaired, history>>

\* The broadcast of the address and the entry in peers.
Enlist(c) ==
    /\ pc[c] = "known" /\ held = Nobody
    /\ peers' = [peers EXCEPT ![addr[c]] = @ \cup {c}]
    /\ pc' = [pc EXCEPT ![c] = "listed"]
    /\ UNCHANGED <<addr, seedpos, batch, peers_by_id, held, known_peers, bans,
                   cache, reputation, pending_inv, now, repaired, history>>

\* The entry in peers_by_id; then the tasks of the connection run.
Index(c) ==
    /\ pc[c] = "listed" /\ held = Nobody
    /\ peers_by_id' = c
    /\ pc' = [pc EXCEPT ![c] = "reading"]
    /\ UNCHANGED <<addr, seedpos, batch, peers, held, known_peers, bans, cache,
                   reputation, pending_inv, now, repaired, history>>

-----------------------------------------------------------------------------
(* Messages *)

I8(x) == ((x + 128) % 256) - 128

\* decrease_reputation and the first half of ban_ip.
Penalize(c) ==
    LET r == I8(reputation[c] - Penalty) IN
    /\ errors[c] < MaxErrors
    /\ reputation' = [reputation EXCEPT ![c] = r]
    /\ errors' = [errors EXCEPT ![c] = @ + 1]
    /\ erred_at' = [erred_at EXCEPT ![c] = now]
    /\ IF r <= -50
       THEN /\ bans' = [bans EXCEPT ![addr[c]] = now + BanTime]
            /\ pc' = [pc EXCEPT ![c] = "banning"]
            /\ spared' = [spared EXCEPT ![addr[c]] =
                            {d \in Callers : Opening(d) /\ addr[d] = addr[c]}]
       ELSE UNCHANGED <<bans, pc, spared>>

\* A message that is too long or that handle_message answers with an error.
BadMessage(c) ==
    /\ pc[c] = "reading"
    /\ Penalize(c)
    /\ UNCHANGED <<addr, seedpos, batch, tables, known_peers, cache,
                   pending_inv, now, repaired, checked, overlap>>

\* INV of a transaction or a block, with the test against floods.
Inv(c) ==
    /\ pc[c] = "reading"
    /\ pending_inv < MaxInv
    /\ pending_inv' = pending_inv + 1
    /\ IF pending_inv' > InvLimit
       THEN Penalize(c)
       ELSE UNCHANGED <<pc, bans, reputation, errors, erred_at, spared>>
    /\ UNCHANGED <<addr, seedpos, batch, tables, known_peers, cache, now,
                   repaired, checked, overlap>>

\* ADDR.
Addr(c, S) ==
    /\ pc[c] = "reading"
    /\ known_peers' = known_peers \cup S
    /\ UNCHANGED <<pc, addr, seedpos, batch, tables, bans, cache, reputation,
                   pending_inv, now, repaired, history>>

\* Slip: only the connection that erred is taken out.
RemoveOne(c) ==
    /\ pc[c] = "banning" /\ held = Nobody
    /\ peers' = [peers EXCEPT ![addr[c]] = @ \ {c}]
    /\ pc' = [pc EXCEPT ![c] = "reading"]
    /\ UNCHANGED <<addr, seedpos, batch, peers_by_id, held, known_peers, bans,
                   cache, reputation, pending_inv, now, repaired, history>>

\* The second half of ban_ip, remove_peers.  The tasks of the connections
\* that it takes out of the table go on.
RemovePeers(c) ==
    /\ pc[c] = "banning" /\ held = Nobody
    /\ peers' = [peers EXCEPT ![addr[c]] = {}]
    /\ pc' = [pc EXCEPT ![c] = "reading"]
    /\ UNCHANGED <<addr, seedpos, batch, peers_by_id, held, known_peers, bans,
                   cache, reputation, pending_inv, now, repaired, history>>

-----------------------------------------------------------------------------
(* The end of a connection *)

\* The reader stops (timeout, end of stream, shutdown) and calls remove_peer,
\* which asks for peers again while it holds it.
RemovePeer(c) ==
    /\ pc[c] = "reading" /\ held = Nobody
    /\ peers' = [peers EXCEPT ![addr[c]] = @ \ {c}]
    /\ peers_by_id' = Nobody
    /\ held' = c
    /\ pc' = [pc EXCEPT ![c] = "closed"]
    /\ UNCHANGED <<addr, seedpos, batch, known_peers, bans, cache, reputation,
                   pending_inv, now, repaired, history>>

\* The reader is left with `?` or bail! by a frame that is too short or does
\* not decompress: remove_peer is not called.
Abort(c) ==
    /\ pc[c] = "reading"
    /\ pc' = [pc EXCEPT ![c] = "closed"]
    /\ UNCHANGED <<addr, seedpos, batch, tables, known_peers, bans, cache,
                   reputation, pending_inv, now, repaired, history>>

Tick ==
    /\ now < MaxTime
    /\ now' = now + 1
    /\ UNCHANGED <<pc, addr, seedpos, batch, tables, known_peers, bans, cache,
                   reputation, pending_inv, repaired, history>>

Next ==
    \/ Startup \/ Wake \/ Reconnect \/ Tick
    \/ \E i \in Ips : Accept(i)
    \/ \E c \in Callers :
         \/ \E r \in Replies : Handshake(c, r)
         \/ HandshakeFails(c)
         \/ Learn(c) \/ Enlist(c) \/ Index(c)
         \/ BadMessage(c) \/ Inv(c) \/ RemovePeers(c)
         \/ \E i \in Ips : Addr(c, {i})
         \/ RemovePeer(c) \/ Abort(c)

Spec == Init /\ [][Next]_vars

-----------------------------------------------------------------------------
(* Properties *)

\* Whatever max_peers says, the table never holds more than two connections:
\* add_peer keeps its caller, and the accept loop does not start after a
\* connected seed.
AtMostTwo == Cardinality(UNION {peers[i] : i \in Ips}) <= 2

\* An address has more connections than max_peers / 10 only when two of them
\* were being opened at the same time (count at 167, insertion at 206).
LimitUnlessOverlap ==
    \A i \in Ips : Cardinality(peers[i]) <= MaxPeers \div 10 \/ i \in overlap

\* The table of peers is bounded, in all and for each address.
TableBounded == AtMostTwo /\ LimitUnlessOverlap

\* While a ban lasts and no remove_peers is outstanding, the table holds for
\* that address only connections that were being opened when it was
\* pronounced (is_banned at 164, ban_ip).
BanEmptiesTable ==
    \A i \in Ips :
      (now < bans[i] /\ ~\E c \in Callers : pc[c] = "banning" /\ addr[c] = i)
        => peers[i] \subseteq spared[i]

\* From the error that takes it to -50 (the fifth) to the last one before
\* the i8 overflows (the twelfth) a connection's address is banned for BanTime
\* after each one (506-509).
ErrorsBan ==
    \A c \in Callers :
      (errors[c] * Penalty \in 50 .. 128 /\ now < erred_at[c] + BanTime)
        => now < bans[addr[c]]

\* Errors lead to bans, and bans keep the address out of the table.
BansHold == BanEmptiesTable /\ ErrorsBan

\* A handshake that accepts a key which was checked less than CacheTime ago.
AcceptsChecked ==
    \A c \in Callers, r \in Replies :
      (Handshake(c, r) /\ pc'[c] = "accepted")
        => (checked'[r.key] # Never /\ now - checked'[r.key] < CacheTime)

\* A key gets through the handshake only if it passed every check less than
\* CacheTime ago, by itself or as an entry of the cache (336-341).
CacheExpires == [][AcceptsChecked]_vars
=============================================================================
