------------------------- MODULE PeerManager_proofs -------------------------
(***************************************************************************)
(* For all addresses, seeds, keys and limits: the cache of signatures lets *)
(* a key in only as long as an entry lives.                                *)
(*                                                                         *)
(* The table and the bans: every step enters add_peer, leaves it, moves    *)
(* on, enters or empties the table, counts an error or does none of these  *)
(* (Effects), and each invariant is proved from these few cases.           *)
(***************************************************************************)
EXTENDS PeerManager, FiniteSetTheorems, TLAPS

\* Where a caller can be in add_peer.
Places == {"idle", "handshake", "accepted", "known", "listed", "reading",
           "banning", "closed"}

\* The cache has an entry for a key exactly since its last full check.
CacheChecked ==
    /\ now \in Nat \ {0}
    /\ cache \in [Keys -> Nat]
    /\ checked = cache

LEMMA StepCacheChecked == CacheChecked /\ [Next]_vars => CacheChecked'
<1> SUFFICES ASSUME CacheChecked, [Next]_vars
             PROVE  CacheChecked'
  OBVIOUS
<1>0. ASSUME UNCHANGED <<now, cache, checked>>
      PROVE  CacheChecked'
  BY <1>0 DEF CacheChecked
<1>1. ASSUME NEW c, NEW i, Enter(c, i)
      PROVE  CacheChecked'
  BY <1>0, <1>1 DEF Enter
<1>2. CASE Startup \/ Reconnect \/ (\E i \in Ips : Accept(i))
  BY <1>0, <1>1, <1>2 DEF Startup, Reconnect, Accept, history
<1>3. CASE Wake \/ UNCHANGED vars
  BY <1>0, <1>3 DEF Wake, vars, history
<1>4. CASE Tick
  BY <1>4 DEF Tick, CacheChecked, history
<1>5. ASSUME NEW c \in Callers, NEW r \in Replies, Handshake(c, r)
      PROVE  CacheChecked'
  <2> DEFINE fresh == Passes(r) /\ ~Cached(r.key)
  <2>1. /\ now' = now
        /\ cache' = IF fresh THEN [cache EXCEPT ![r.key] = now] ELSE cache
        /\ checked' = IF fresh THEN [checked EXCEPT ![r.key] = now] ELSE checked
    BY <1>5 DEF Handshake, CacheAfter, Passes, Checks
  <2> HIDE DEF fresh
  <2> QED
    BY <2>1 DEF CacheChecked
<1>6. ASSUME NEW c \in Callers,
             \/ HandshakeFails(c)
             \/ Learn(c) \/ Enlist(c) \/ Index(c) \/ BadMessage(c) \/ Inv(c)
             \/ RemovePeers(c) \/ (\E i \in Ips : Addr(c, {i}))
             \/ RemovePeer(c) \/ Abort(c)
      PROVE  CacheChecked'
  BY <1>0, <1>6 DEF HandshakeFails, Learn, Enlist, Index, BadMessage, Inv,
                    RemovePeers, Addr, RemovePeer, Abort, history
<1> QED
  BY <1>2, <1>3, <1>4, <1>5, <1>6 DEF Next

-----------------------------------------------------------------------------
(* The table of connections and the bans.  The proofs go by what a step    *)
(* does to them, which is one of few things.                               *)

frame == <<pc, addr, peers, overlap, bans, spared, reputation, errors, erred_at>>

\* Places of a caller whose connection is in the table, or was.
Entered == {"listed", "reading", "banning", "closed"}

\* Places between the admission and the entry in the table.
Pending == {"handshake", "accepted", "known"}

Shape ==
    /\ pc \in [Callers -> Places] /\ addr \in [Callers -> Ips \cup {NoIp}]
    /\ seedpos \in 0 .. Len(Seeds)
    /\ batch \subseteq Ips /\ known_peers \subseteq Ips
    /\ peers \in [Ips -> SUBSET Callers] /\ overlap \subseteq Ips
    /\ spared \in [Ips -> SUBSET Callers]
    /\ now \in Nat \ {0} /\ bans \in [Ips -> Nat]
    /\ reputation \in [Callers -> Int]
    /\ errors \in [Callers -> Nat] /\ erred_at \in [Callers -> Nat]
    /\ \A c \in Callers : pc[c] # "idle" => addr[c] \in Ips

\* A connection in the table belongs to a caller that has come so far.
Enlisted ==
    \A i \in Ips : \A c \in peers[i] : addr[c] = i /\ pc[c] \in Entered

\* The accept loop runs only once connect_to_seeds has returned.
OneServes == pc["listener"] # "idle" => Listening

\* add_peer up to the handshake, for a caller that is free.
Admits(c, i) ==
    /\ pc[c] = "idle" /\ Current(i) = Never /\ Room(i)
    /\ pc' = [pc EXCEPT ![c] = "handshake"] /\ addr' = [addr EXCEPT ![c] = i]
    /\ overlap' = IF \E d \in Callers : Opening(d) /\ addr[d] = i
                  THEN overlap \cup {i} ELSE overlap
    /\ c = "listener" => Listening
    /\ c = "startup" => seedpos < Len(Seeds)

Refuses(c) ==
    /\ pc[c] = "idle" /\ pc' = pc /\ overlap' = overlap
    /\ addr' = [addr EXCEPT ![c] = NoIp]

Enters(c, i) ==
    /\ Admits(c, i) \/ Refuses(c)
    /\ bans' = [j \in Ips |-> Current(j)]
    /\ reputation' = [reputation EXCEPT ![c] = 0]
    /\ UNCHANGED <<peers, spared, errors, erred_at, now>>

Gives(c) ==
    /\ pc[c] = "handshake" /\ pc' = [pc EXCEPT ![c] = "idle"]
    /\ addr' = [addr EXCEPT ![c] = NoIp]
    /\ UNCHANGED <<peers, overlap, bans, spared, reputation, errors, erred_at, now>>

Advances(c, to) ==
    /\ <<pc[c], to>> \in {<<"handshake", "accepted">>, <<"accepted", "known">>,
                          <<"listed", "reading">>, <<"reading", "closed">>}
    /\ pc' = [pc EXCEPT ![c] = to]
    /\ UNCHANGED <<addr, peers, overlap, bans, spared, reputation, errors, erred_at, now>>

Enlists(c) ==
    /\ pc[c] = "known" /\ pc' = [pc EXCEPT ![c] = "listed"]
    /\ peers' = [peers EXCEPT ![addr[c]] = @ \cup {c}]
    /\ UNCHANGED <<addr, overlap, bans, spared, reputation, errors, erred_at, now>>

Errs(c) ==
    /\ pc[c] = "reading" /\ Penalize(c)
    /\ UNCHANGED <<addr, peers, overlap, now>>

Empties(c) ==
    /\ pc[c] = "banning" /\ pc' = [pc EXCEPT ![c] = "reading"]
    /\ peers' = [peers EXCEPT ![addr[c]] = {}]
    /\ UNCHANGED <<addr, overlap, bans, spared, reputation, errors, erred_at, now>>

Removes(c) ==
    /\ pc[c] = "reading" /\ pc' = [pc EXCEPT ![c] = "closed"]
    /\ peers' = [peers EXCEPT ![addr[c]] = @ \ {c}]
    /\ UNCHANGED <<addr, overlap, bans, spared, reputation, errors, erred_at, now>>

Rests == UNCHANGED frame /\ now' \in {now, now + 1}

Acts(c) ==
    \/ \E i \in Ips : Enters(c, i)
    \/ Gives(c) \/ (\E to \in Places : Advances(c, to)) \/ Enlists(c)
    \/ Errs(c) \/ Empties(c) \/ Removes(c)

\* What happens to the seeds and the known addresses in the same step.
Sides ==
    /\ \/ seedpos' = seedpos
       \/ /\ seedpos < Len(Seeds) /\ pc["startup"] = "idle"
          /\ seedpos' = seedpos + 1
    /\ batch' \subseteq batch \cup known_peers
    /\ known_peers' \subseteq known_peers \cup Ips

\* Every caller enters add_peer free, and through Enter.
LEMMA EnterEffect ==
    ASSUME Shape, NEW c \in Callers, NEW i \in Ips, Enter(c, i), pc[c] = "idle",
           c = "listener" => Listening, c = "startup" => seedpos < Len(Seeds)
    PROVE  Enters(c, i) /\ known_peers' = known_peers
<1>1. bans' = [j \in Ips |-> Current(j)]
  BY DEF Enter
<1>2. bans'[i] = Current(i)
  BY <1>1
<1>3. /\ reputation' = [reputation EXCEPT ![c] = 0] /\ known_peers' = known_peers
      /\ UNCHANGED <<peers, spared, errors, erred_at, now>>
  BY DEF Enter, tables
<1>4. CASE bans'[i] = Never /\ Room(i)
  <2>1. Admits(c, i)
    BY <1>2, <1>4 DEF Enter, Admits
  <2> QED
    BY <1>1, <1>3, <2>1 DEF Enters
<1>5. CASE ~(bans'[i] = Never /\ Room(i))
  <2>1. /\ pc' = [pc EXCEPT ![c] = "idle"] /\ addr' = [addr EXCEPT ![c] = NoIp]
        /\ overlap' = overlap
    BY <1>5 DEF Enter
  <2>2. pc' = pc
    BY <2>1 DEF Shape
  <2> QED
    BY <1>1, <1>3, <2>1, <2>2 DEF Enters, Refuses
<1> QED
  BY <1>4, <1>5

LEMMA Effects ==
    ASSUME Shape, [Next]_vars
    PROVE  (Rests \/ \E c \in Callers : Acts(c)) /\ Sides
<1>0. ASSUME NEW c \in Callers, Acts(c), Sides
      PROVE  (Rests \/ \E d \in Callers : Acts(d)) /\ Sides
  BY <1>0
<1>1. CASE Startup
  <2>1. CASE Enter("startup", Seeds[seedpos + 1])
    <3>1. Seeds[seedpos + 1] \in Ips
      BY <1>1, PeersAssumption DEF Startup, Shape
    <3>2. Enters("startup", Seeds[seedpos + 1]) /\ known_peers' = known_peers
      BY <1>1, <2>1, <3>1, EnterEffect DEF Startup, Callers
    <3>3. Acts("startup")
      BY <3>1, <3>2 DEF Acts
    <3>4. Sides
      BY <1>1, <3>2 DEF Startup, Sides
    <3> QED
      BY <1>0, <3>3, <3>4 DEF Callers
  <2>2. CASE ~Enter("startup", Seeds[seedpos + 1])
    BY <1>1, <2>2 DEF Startup, Rests, Sides, frame, tables, history
  <2> QED
    BY <2>1, <2>2
<1>2. CASE Reconnect
  <2>1. PICK i \in batch :
          /\ batch' = batch \ {i} /\ UNCHANGED seedpos
          /\ \/ Enter("reconnect", i)
             \/ UNCHANGED <<pc, addr, tables, known_peers, bans, cache,
                            reputation, pending_inv, now, repaired, history>>
    BY <1>2 DEF Reconnect
  <2>2. CASE Enter("reconnect", i)
    <3>1. i \in Ips
      BY DEF Shape
    <3>2. Enters("reconnect", i) /\ known_peers' = known_peers
      BY <1>2, <2>2, <3>1, EnterEffect DEF Reconnect, Callers
    <3>3. Acts("reconnect")
      BY <3>1, <3>2 DEF Acts
    <3>4. Sides
      BY <2>1, <3>2 DEF Sides
    <3> QED
      BY <1>0, <3>3, <3>4 DEF Callers
  <2>3. CASE ~Enter("reconnect", i)
    BY <2>1, <2>3 DEF Rests, Sides, frame, tables, history
  <2> QED
    BY <2>2, <2>3
<1>3. ASSUME NEW i \in Ips, Accept(i)
      PROVE  (Rests \/ \E d \in Callers : Acts(d)) /\ Sides
  <2>1. Enters("listener", i) /\ known_peers' = known_peers
    BY <1>3, EnterEffect DEF Accept, Callers
  <2>2. Acts("listener") /\ Sides
    BY <1>3, <2>1 DEF Acts, Accept, Sides
  <2> QED
    BY <1>0, <2>2 DEF Callers
<1>4. CASE Wake
  BY <1>4 DEF Wake, Rests, Sides, frame, tables, history
<1>5. CASE Tick \/ UNCHANGED vars
  BY <1>5 DEF Tick, vars, Rests, Sides, frame, tables, history
<1>6. ASSUME NEW c \in Callers, NEW r \in Replies, Handshake(c, r)
      PROVE  (Rests \/ \E d \in Callers : Acts(d)) /\ Sides
  <2>1. Sides
    BY <1>6 DEF Handshake, Sides
  <2>2. CASE Passes(r)
    <3>1. addr' = addr
      BY <1>6, <2>2 DEF Handshake, Shape
    <3>2. Advances(c, "accepted")
      BY <1>6, <2>2, <3>1 DEF Handshake, Advances, tables
    <3> QED
      BY <1>0, <2>1, <3>2 DEF Acts, Places
  <2>3. CASE ~Passes(r)
    <3>1. Gives(c)
      BY <1>6, <2>3 DEF Handshake, Gives, tables
    <3> QED
      BY <1>0, <2>1, <3>1 DEF Acts
  <2> QED
    BY <2>2, <2>3
<1>7. ASSUME NEW c \in Callers, HandshakeFails(c)
      PROVE  (Rests \/ \E d \in Callers : Acts(d)) /\ Sides
  <2>1. Gives(c) /\ Sides
    BY <1>7 DEF HandshakeFails, Gives, Sides, tables, history
  <2> QED
    BY <1>0, <2>1 DEF Acts
<1>8. ASSUME NEW c \in Callers, Learn(c) \/ Index(c) \/ Abort(c)
      PROVE  (Rests \/ \E d \in Callers : Acts(d)) /\ Sides
  <2>1. Sides
    BY <1>8 DEF Learn, Index, Abort, Sides, Shape
  <2>2. \E to \in {"known", "reading", "closed"} : Advances(c, to)
    BY <1>8 DEF Learn, Index, Abort, Advances, tables, history
  <2> QED
    BY <1>0, <2>1, <2>2 DEF Acts, Places
<1>9. ASSUME NEW c \in Callers, Enlist(c)
      PROVE  (Rests \/ \E d \in Callers : Acts(d)) /\ Sides
  <2>1. Enlists(c) /\ Sides
    BY <1>9 DEF Enlist, Enlists, Sides, history
  <2> QED
    BY <1>0, <2>1 DEF Acts
<1>10. ASSUME NEW c \in Callers, BadMessage(c)
       PROVE  (Rests \/ \E d \in Callers : Acts(d)) /\ Sides
  <2>1. Errs(c) /\ Sides
    BY <1>10 DEF BadMessage, Errs, Sides, tables
  <2> QED
    BY <1>0, <2>1 DEF Acts
<1>11. ASSUME NEW c \in Callers, Inv(c)
       PROVE  (Rests \/ \E d \in Callers : Acts(d)) /\ Sides
  <2>1. Sides
    BY <1>11 DEF Inv, Sides
  <2>2. CASE pending_inv' > InvLimit
    <3>1. Errs(c)
      BY <1>11, <2>2 DEF Inv, Errs, tables
    <3> QED
      BY <1>0, <2>1, <3>1 DEF Acts
  <2>3. CASE ~(pending_inv' > InvLimit)
    BY <1>11, <2>1, <2>3 DEF Inv, Rests, frame, tables
  <2> QED
    BY <2>2, <2>3
<1>12. ASSUME NEW c \in Callers, RemovePeers(c)
       PROVE  (Rests \/ \E d \in Callers : Acts(d)) /\ Sides
  <2>1. Empties(c) /\ Sides
    BY <1>12 DEF RemovePeers, Empties, Sides, history
  <2> QED
    BY <1>0, <2>1 DEF Acts
<1>13. ASSUME NEW c \in Callers, RemovePeer(c)
       PROVE  (Rests \/ \E d \in Callers : Acts(d)) /\ Sides
  <2>1. Removes(c) /\ Sides
    BY <1>13 DEF RemovePeer, Removes, Sides, history
  <2> QED
    BY <1>0, <2>1 DEF Acts
<1>14. ASSUME NEW c \in Callers, NEW i \in Ips, Addr(c, {i})
       PROVE  (Rests \/ \E d \in Callers : Acts(d)) /\ Sides
  BY <1>14 DEF Addr, Rests, Sides, frame, tables, history
<1> QED
  BY <1>1, <1>2, <1>3, <1>4, <1>5, <1>6, <1>7, <1>8, <1>9, <1>10, <1>11, <1>12, <1>13,
     <1>14 DEF Next

LEMMA ReputationRange ==
    ASSUME NEW x \in Int
    PROVE  /\ I8(x) \in Int
           /\ x \in -128 .. 127 => I8(x) = x
BY DEF I8

LEMMA StepShape ==
    ASSUME Shape, [Next]_vars
    PROVE  Shape'
<1>1. (Rests \/ \E c \in Callers : Acts(c)) /\ Sides
  BY Effects
<1>2. /\ seedpos' \in 0 .. Len(Seeds)
      /\ batch' \subseteq Ips /\ known_peers' \subseteq Ips
  BY <1>1, PeersAssumption DEF Sides, Shape
<1>3. CASE Rests
  BY <1>2, <1>3 DEF Rests, frame, Shape
<1>4. ASSUME NEW c \in Callers, NEW i \in Ips, Enters(c, i)
      PROVE  Shape'
  <2>1. /\ bans' \in [Ips -> Nat] /\ reputation' \in [Callers -> Int]
        /\ UNCHANGED <<peers, spared, errors, erred_at, now>>
    BY <1>4 DEF Enters, Current, Never, Shape
  <2>2. CASE Admits(c, i)
    BY <1>2, <2>1, <2>2 DEF Admits, Shape, Places
  <2>3. CASE Refuses(c)
    BY <1>2, <2>1, <2>3 DEF Refuses, Shape
  <2> QED
    BY <1>4, <2>2, <2>3 DEF Enters
<1>5. ASSUME NEW c \in Callers, Gives(c) \/ (\E to \in Places : Advances(c, to))
      PROVE  Shape'
  BY <1>2, <1>5 DEF Gives, Advances, Shape, Places
<1>6. ASSUME NEW c \in Callers, Enlists(c) \/ Empties(c) \/ Removes(c)
      PROVE  Shape'
  <2>1. \E to \in {"listed", "reading", "closed"} : pc' = [pc EXCEPT ![c] = to] /\ pc[c] # "idle"
    BY <1>6 DEF Enlists, Empties, Removes
  <2>2. UNCHANGED <<addr, overlap, bans, spared, reputation, errors, erred_at, now>>
    BY <1>6 DEF Enlists, Empties, Removes
  <2>3. pc' \in [Callers -> Places] /\ \A d \in Callers : pc'[d] # "idle" => addr'[d] \in Ips
    BY <2>1, <2>2 DEF Shape, Places
  <2>4. peers' \in [Ips -> SUBSET Callers]
    <3>1. peers[addr[c]] \subseteq Callers
      BY <2>1 DEF Shape
    <3>2. \E S \in SUBSET Callers : peers' = [peers EXCEPT ![addr[c]] = S]
      BY <1>6, <3>1 DEF Enlists, Empties, Removes
    <3> QED
      BY <3>2 DEF Shape
  <2> QED
    BY <1>2, <2>2, <2>3, <2>4 DEF Shape
<1>7. ASSUME NEW c \in Callers, Errs(c)
      PROVE  Shape'
  <2>1. I8(reputation[c] - Penalty) \in Int
    <3>1. reputation[c] - Penalty \in Int
      BY PeersAssumption DEF Shape
    <3> QED
      BY <3>1, ReputationRange
  <2>2. /\ reputation' \in [Callers -> Int] /\ errors' \in [Callers -> Nat]
        /\ erred_at' \in [Callers -> Nat] /\ UNCHANGED <<addr, peers, overlap, now>>
    BY <1>7, <2>1 DEF Errs, Penalize, Shape
  <2>3. pc' \in [Callers -> Places] /\ \A d \in Callers : pc'[d] # "idle" => addr'[d] \in Ips
    BY <1>7, <2>2 DEF Errs, Penalize, Shape, Places
  <2>4. bans' \in [Ips -> Nat]
    <3>1. now + BanTime \in Nat
      BY PeersAssumption DEF Shape
    <3>2. bans' = bans \/ bans' = [bans EXCEPT ![addr[c]] = now + BanTime]
      BY <1>7 DEF Errs, Penalize
    <3> QED
      BY <3>1, <3>2 DEF Shape
  <2>5. spared' \in [Ips -> SUBSET Callers]
    <3>1. \E S \in SUBSET Callers : spared' \in {spared, [spared EXCEPT ![addr[c]] = S]}
      BY <1>7 DEF Errs, Penalize
    <3> QED
      BY <3>1 DEF Shape
  <2> QED
    BY <1>2, <2>2, <2>3, <2>4, <2>5 DEF Shape
<1> QED
  BY <1>1, <1>3, <1>4, <1>5, <1>6, <1>7 DEF Acts

LEMMA StepEnlisted ==
    ASSUME Shape, Enlisted, [Next]_vars
    PROVE  Enlisted'
<1>1. Rests \/ \E c \in Callers : Acts(c)
  BY Effects
<1>2. CASE Rests
  BY <1>2 DEF Rests, frame, Enlisted
<1>3. ASSUME NEW c \in Callers, NEW i \in Ips, Enters(c, i)
      PROVE  Enlisted'
  <2>1. /\ pc[c] = "idle" /\ peers' = peers
        /\ \A d \in Callers \ {c} : pc'[d] = pc[d] /\ addr'[d] = addr[d]
    BY <1>3 DEF Enters, Admits, Refuses, Shape
  <2>2. \A j \in Ips : c \notin peers[j]
    BY <2>1 DEF Enlisted, Entered
  <2> QED
    BY <2>1, <2>2 DEF Enlisted, Shape
<1>4. ASSUME NEW c \in Callers, Gives(c)
      PROVE  Enlisted'
  <2>1. /\ pc[c] = "handshake" /\ peers' = peers
        /\ \A d \in Callers \ {c} : pc'[d] = pc[d] /\ addr'[d] = addr[d]
    BY <1>4 DEF Gives, Shape
  <2>2. \A j \in Ips : c \notin peers[j]
    BY <2>1 DEF Enlisted, Entered
  <2> QED
    BY <2>1, <2>2 DEF Enlisted, Shape
<1>5. ASSUME NEW c \in Callers, NEW to \in Places, Advances(c, to)
      PROVE  Enlisted'
  <2>1. /\ pc' = [pc EXCEPT ![c] = to] /\ addr' = addr /\ peers' = peers
        /\ pc[c] \in Entered => to \in Entered
    BY <1>5 DEF Advances, Entered
  <2> QED
    BY <2>1 DEF Enlisted, Shape
<1>6. ASSUME NEW c \in Callers, Enlists(c)
      PROVE  Enlisted'
  <2>1. addr[c] \in Ips /\ addr' = addr
    BY <1>6 DEF Enlists, Shape
  <2>2. \A i \in Ips : \A d \in peers'[i] : d \in peers[i] \/ (d = c /\ i = addr[c])
    BY <1>6, <2>1 DEF Enlists, Shape
  <2>3. pc'[c] \in Entered /\ \A d \in Callers \ {c} : pc'[d] = pc[d]
    BY <1>6 DEF Enlists, Shape, Entered
  <2>4. \A i \in Ips : peers[i] \subseteq Callers
    BY DEF Shape
  <2> QED
    BY <2>1, <2>2, <2>3, <2>4 DEF Enlisted
<1>7. ASSUME NEW c \in Callers, Errs(c)
      PROVE  Enlisted'
  <2>1. peers' = peers /\ addr' = addr /\ (pc' = pc \/ pc' = [pc EXCEPT ![c] = "banning"])
    BY <1>7 DEF Errs, Penalize
  <2> QED
    BY <2>1 DEF Enlisted, Shape, Entered
<1>8. ASSUME NEW c \in Callers, Empties(c) \/ Removes(c)
      PROVE  Enlisted'
  <2>1. addr[c] \in Ips /\ addr' = addr
    BY <1>8 DEF Empties, Removes, Shape
  <2>2. \A i \in Ips : peers'[i] \subseteq peers[i]
    BY <1>8, <2>1 DEF Empties, Removes, Shape
  <2>3. pc'[c] \in Entered /\ \A d \in Callers \ {c} : pc'[d] = pc[d]
    BY <1>8 DEF Empties, Removes, Shape, Entered
  <2>4. \A i \in Ips : peers[i] \subseteq Callers
    BY DEF Shape
  <2> QED
    BY <2>1, <2>2, <2>3, <2>4 DEF Enlisted
<1> QED
  BY <1>1, <1>2, <1>3, <1>4, <1>5, <1>6, <1>7, <1>8 DEF Acts

LEMMA StepOneServes ==
    ASSUME Shape, OneServes, [Next]_vars
    PROVE  OneServes'
<1>1. (Rests \/ \E c \in Callers : Acts(c)) /\ Sides
  BY Effects
<1>2. SUFFICES ASSUME pc'["listener"] # "idle"
               PROVE  seedpos' = Len(Seeds) /\ pc'["startup"] = "idle"
  BY DEF OneServes, Listening
<1>3. Len(Seeds) \in Nat /\ seedpos \in Nat
  BY PeersAssumption DEF Shape
<1>4. Listening => seedpos' = Len(Seeds)
  BY <1>1, <1>3 DEF Sides, Listening
<1>5. Listening
  <2>1. CASE pc["listener"] # "idle"
    BY <2>1 DEF OneServes
  <2>2. CASE pc["listener"] = "idle"
    <3>1. PICK c \in Callers : Acts(c)
      BY <1>1, <1>2, <2>2 DEF Rests, frame
    <3>2. CASE c # "listener"
      <4>1. pc'["listener"] = pc["listener"]
        BY <3>1, <3>2 DEF Acts, Enters, Admits, Refuses, Gives, Advances, Enlists, Errs,
               Penalize, Empties, Removes, Shape, Callers
      <4> QED
        BY <1>2, <2>2, <4>1
    <3>3. CASE c = "listener"
      <4>1. \E i \in Ips : Enters(c, i)
        BY <2>2, <3>1, <3>3 DEF Acts, Gives, Advances, Enlists, Errs, Empties, Removes
      <4> QED
        BY <1>2, <2>2, <3>3, <4>1 DEF Enters, Admits, Refuses
    <3> QED
      BY <3>2, <3>3
  <2> QED
    BY <2>1, <2>2
<1>6. pc'["startup"] = "idle"
  <2>1. CASE Rests
    BY <1>5, <2>1 DEF Rests, frame, Listening
  <2>2. ASSUME NEW c \in Callers, Acts(c), c # "startup"
        PROVE  pc'["startup"] = "idle"
    BY <1>5, <2>2 DEF Acts, Enters, Admits, Refuses, Gives, Advances, Enlists, Errs,
           Penalize, Empties, Removes, Shape, Callers, Listening
  <2>3. CASE Acts("startup")
    <3>1. \E i \in Ips : Enters("startup", i)
      BY <1>5, <2>3 DEF Acts, Gives, Advances, Enlists, Errs, Empties, Removes, Listening
    <3>2. ~(seedpos < Len(Seeds))
      BY <1>3, <1>5 DEF Listening
    <3> QED
      BY <1>5, <3>1, <3>2 DEF Enters, Admits, Refuses, Listening
  <2> QED
    BY <1>1, <2>1, <2>2, <2>3
<1> QED
  BY <1>4, <1>5, <1>6
\* The connections to an address that are in the table or on the way to it.
Slots(i) == peers[i] \cup {c \in Callers : pc[c] \in Pending /\ addr[c] = i}

SlotsBounded ==
    \A i \in Ips : Cardinality(Slots(i)) <= MaxPeers \div 10 \/ i \in overlap

\* Nobody is on the way to a banned address who was not when the ban came.
OpeningSpared ==
    \A i \in Ips : now < bans[i]
      => {c \in Callers : pc[c] \in Pending /\ addr[c] = i} \subseteq spared[i]

\* The reputation as a function of the errors, and the end of the ban.
ErrorsCount ==
    \A c \in Callers :
      /\ pc[c] \in {"idle", "listed"} \cup Pending => errors[c] = 0 /\ reputation[c] = 0
      /\ errors[c] * Penalty <= 128 => reputation[c] = -(errors[c] * Penalty)
      /\ erred_at[c] <= now
      /\ (errors[c] * Penalty \in 50 .. 128 /\ now < erred_at[c] + BanTime)
           => bans[addr[c]] >= erred_at[c] + BanTime

LEMMA SlotsMove ==
    ASSUME Shape, [Next]_vars, NEW i \in Ips
    PROVE  /\ i \in overlap => i \in overlap'
           /\ Slots(i)' \subseteq Slots(i) \/ \E c \in Callers : Admits(c, i)
<1>1. Rests \/ \E c \in Callers : Acts(c)
  BY Effects
<1>2. CASE Rests
  BY <1>2 DEF Rests, frame, Slots
<1>3. ASSUME NEW c \in Callers, NEW j \in Ips, Enters(c, j)
      PROVE  /\ i \in overlap => i \in overlap'
             /\ Slots(i)' \subseteq Slots(i) \/ \E d \in Callers : Admits(d, i)
  <2>1. CASE Admits(c, j) /\ j # i
    <3>1. /\ peers' = peers /\ addr'[c] # i
          /\ \A d \in Callers \ {c} : pc'[d] = pc[d] /\ addr'[d] = addr[d]
      BY <1>3, <2>1 DEF Enters, Admits, Shape
    <3>2. Slots(i)' \subseteq Slots(i)
      BY <3>1 DEF Slots
    <3> QED
      BY <2>1, <3>2 DEF Admits
  <2>2. CASE Admits(c, j) /\ j = i
    BY <2>2 DEF Admits
  <2>3. CASE Refuses(c)
    <3>1. /\ peers' = peers /\ pc' = pc /\ overlap' = overlap /\ pc[c] = "idle"
          /\ \A d \in Callers \ {c} : addr'[d] = addr[d]
      BY <1>3, <2>3 DEF Enters, Refuses, Shape
    <3> QED
      BY <3>1 DEF Slots, Pending
  <2> QED
    BY <1>3, <2>1, <2>2, <2>3 DEF Enters
<1>4. ASSUME NEW c \in Callers, Gives(c)
      PROVE  overlap' = overlap /\ Slots(i)' \subseteq Slots(i)
  <2>1. /\ peers' = peers /\ pc'[c] \notin Pending /\ overlap' = overlap
        /\ \A d \in Callers \ {c} : pc'[d] = pc[d] /\ addr'[d] = addr[d]
    BY <1>4 DEF Gives, Shape, Pending
  <2> QED
    BY <2>1 DEF Slots
<1>5. ASSUME NEW c \in Callers, NEW to \in Places, Advances(c, to)
      PROVE  overlap' = overlap /\ Slots(i)' \subseteq Slots(i)
  <2>1. /\ peers' = peers /\ addr' = addr /\ overlap' = overlap
        /\ pc'[c] \in Pending => pc[c] \in Pending
        /\ \A d \in Callers \ {c} : pc'[d] = pc[d]
    BY <1>5 DEF Advances, Shape, Pending
  <2> QED
    BY <2>1 DEF Slots
<1>6. ASSUME NEW c \in Callers, Enlists(c)
      PROVE  overlap' = overlap /\ Slots(i)' \subseteq Slots(i)
  <2>1. /\ addr' = addr /\ overlap' = overlap /\ pc[c] \in Pending
        /\ pc'[c] \notin Pending /\ \A d \in Callers \ {c} : pc'[d] = pc[d]
    BY <1>6 DEF Enlists, Shape, Pending
  <2>2. peers'[i] \subseteq peers[i] \cup {d \in {c} : addr[d] = i}
    BY <1>6, <2>1 DEF Enlists, Shape
  <2> QED
    BY <2>1, <2>2 DEF Slots
<1>7. ASSUME NEW c \in Callers, Errs(c) \/ Empties(c) \/ Removes(c)
      PROVE  overlap' = overlap /\ Slots(i)' \subseteq Slots(i)
  <2>1. /\ addr' = addr /\ overlap' = overlap /\ pc'[c] \notin Pending
        /\ \A d \in Callers \ {c} : pc'[d] = pc[d]
    BY <1>7 DEF Errs, Penalize, Empties, Removes, Shape, Pending
  <2>2. peers'[i] \subseteq peers[i]
    <3>1. addr[c] \in Ips
      BY <1>7 DEF Errs, Empties, Removes, Shape
    <3>2. peers \in [Ips -> SUBSET Callers]
      BY DEF Shape
    <3>3. \/ peers' = peers
          \/ peers' = [peers EXCEPT ![addr[c]] = {}]
          \/ peers' = [peers EXCEPT ![addr[c]] = @ \ {c}]
      BY <1>7 DEF Errs, Empties, Removes
    <3>4. peers'[i] = peers[i] \/ peers'[i] = {} \/ peers'[i] = peers[i] \ {c}
      BY <3>1, <3>2, <3>3
    <3> QED
      BY ONLY <3>4
  <2> QED
    BY <2>1, <2>2 DEF Slots
<1> QED
  BY <1>1, <1>2, <1>3, <1>4, <1>5, <1>6, <1>7 DEF Acts

LEMMA CallersFinite ==
    ASSUME NEW S, S \subseteq Callers
    PROVE  IsFiniteSet(S) /\ Cardinality(S) \in Nat
<1>1. IsFiniteSet({"startup", "listener", "reconnect"})
  <2>1. IsFiniteSet({}) /\ IsFiniteSet({} \cup {"startup"})
    BY FS_EmptySet, FS_AddElement
  <2>2. IsFiniteSet(({} \cup {"startup"}) \cup {"listener"})
    BY <2>1, FS_AddElement
  <2>3. IsFiniteSet((({} \cup {"startup"}) \cup {"listener"}) \cup {"reconnect"})
    BY <2>2, FS_AddElement
  <2>4. (({} \cup {"startup"}) \cup {"listener"}) \cup {"reconnect"}
          = {"startup", "listener", "reconnect"}
    OBVIOUS
  <2> QED
    BY <2>3, <2>4
<1>2. IsFiniteSet(Callers)
  BY <1>1 DEF Callers
<1>3. IsFiniteSet(S)
  BY <1>2, FS_Subset
<1> QED
  BY <1>3, FS_CardinalityType

LEMMA StepSlots ==
    ASSUME Shape, SlotsBounded, [Next]_vars
    PROVE  SlotsBounded'
<1>1. SUFFICES ASSUME NEW i \in Ips, i \notin overlap'
               PROVE  Cardinality(Slots(i)') <= MaxPeers \div 10
  BY DEF SlotsBounded, Slots
<1>2. /\ i \notin overlap
      /\ Slots(i)' \subseteq Slots(i) \/ \E c \in Callers : Admits(c, i)
  BY <1>1, SlotsMove
<1>3. Slots(i) \subseteq Callers /\ peers[i] \subseteq Callers
  BY DEF Slots, Shape
<1>4. MaxPeers \div 10 \in Nat
  BY PeersAssumption
<1>5. CASE Slots(i)' \subseteq Slots(i)
  <2>1. Cardinality(Slots(i)) <= MaxPeers \div 10
    BY <1>2 DEF SlotsBounded
  <2>2. /\ IsFiniteSet(Slots(i)) /\ Cardinality(Slots(i)) \in Nat
        /\ Slots(i)' \subseteq Callers
    BY <1>3, <1>5, CallersFinite
  <2>3. Cardinality(Slots(i)') <= Cardinality(Slots(i)) /\ Cardinality(Slots(i)') \in Nat
    BY <1>5, <2>2, FS_Subset, CallersFinite
  <2> QED
    BY <1>4, <2>1, <2>2, <2>3
<1>6. ASSUME NEW c \in Callers, Admits(c, i), \E d \in Callers : Acts(d)
      PROVE  Cardinality(Slots(i)') <= MaxPeers \div 10
  <2>1. ~\E d \in Callers : Opening(d) /\ addr[d] = i
    BY <1>1, <1>6 DEF Admits
  <2>2. /\ Cardinality(peers[i]) < MaxPeers \div 10
        /\ pc' = [pc EXCEPT ![c] = "handshake"] /\ addr' = [addr EXCEPT ![c] = i]
    BY <1>6 DEF Admits, Room
  <2>3. peers' = peers
    <3>1. PICK d \in Callers : Acts(d)
      BY <1>6
    <3>2. CASE d = c
      BY <1>6, <3>1, <3>2 DEF Admits, Acts, Enters, Gives, Advances, Enlists, Errs,
             Empties, Removes
    <3>3. CASE d # c
      <4>1. pc'[c] = "handshake" /\ pc[c] = "idle"
        BY <1>6, <2>2 DEF Admits, Shape
      <4>2. pc'[c] = pc[c]
        BY <3>1, <3>3 DEF Acts, Enters, Admits, Refuses, Gives, Advances, Enlists, Errs,
               Penalize, Empties, Removes, Shape
      <4> QED
        BY <4>1, <4>2
    <3> QED
      BY <3>2, <3>3
  <2>4. Slots(i)' \subseteq peers[i] \cup {c}
    BY <2>1, <2>2, <2>3 DEF Slots, Opening, Pending, Shape
  <2>5. IsFiniteSet(peers[i]) /\ Cardinality(peers[i]) \in Nat
    BY <1>3, CallersFinite
  <2>6. /\ IsFiniteSet(peers[i] \cup {c})
        /\ Cardinality(peers[i] \cup {c}) \in {Cardinality(peers[i]), Cardinality(peers[i]) + 1}
    BY <2>5, FS_AddElement
  <2>7. Cardinality(Slots(i)') <= Cardinality(peers[i] \cup {c})
    BY <2>4, <2>6, FS_Subset
  <2>8. Cardinality(Slots(i)') \in Nat
    BY <2>4, <2>6, FS_Subset, FS_CardinalityType
  <2> QED
    BY <1>4, <2>2, <2>5, <2>6, <2>7, <2>8
<1>7. CASE \E c \in Callers : Admits(c, i)
  <2>1. ~Rests
    BY <1>7 DEF Admits, Rests, frame, Shape
  <2> QED
    BY <1>6, <1>7, <2>1, Effects
<1> QED
  BY <1>2, <1>5, <1>7

LEMMA InitShape ==
    ASSUME Init
    PROVE  Shape /\ Enlisted /\ OneServes /\ SlotsBounded
<1>1. Shape
  <2>1. Len(Seeds) \in Nat /\ ToSet(Seeds) \subseteq Ips
    BY PeersAssumption DEF ToSet
  <2> QED
    BY <2>1 DEF Init, Shape, Places, Never
<1>2. Enlisted /\ OneServes
  BY DEF Init, Enlisted, OneServes, Callers
<1>3. ASSUME NEW i \in Ips
      PROVE  Cardinality(Slots(i)) <= MaxPeers \div 10
  <2>1. Slots(i) = {}
    BY DEF Init, Slots, Pending
  <2>2. Cardinality(Slots(i)) = 0
    BY <2>1, FS_EmptySet
  <2> QED
    BY <2>2, PeersAssumption
<1> QED
  BY <1>1, <1>2, <1>3 DEF SlotsBounded

\* For every lifetime of the cache and any keys: a key that the handshake
\* accepts passed every check less than that lifetime ago (net.rs 336-341).
THEOREM CacheAlwaysExpires == Spec => CacheExpires
<1>1. Init => CacheChecked
  BY DEF Init, CacheChecked, Never
<1>2. ASSUME CacheChecked, Shape, NEW c \in Callers, NEW r \in Replies,
             Handshake(c, r), pc'[c] = "accepted"
      PROVE  checked'[r.key] # Never /\ now - checked'[r.key] < CacheTime
  <2>1. Passes(r) /\ r.key \in Keys
    BY <1>2 DEF Handshake, Shape, Places, Replies
  <2>2. CASE Cached(r.key)
    <3>1. checked' = checked
      BY <1>2, <2>2 DEF Handshake
    <3> QED
      BY <1>2, <2>2, <3>1 DEF Cached, CacheChecked
  <2>3. CASE ~Cached(r.key)
    <3>1. checked' = [checked EXCEPT ![r.key] = now]
      BY <1>2, <2>1, <2>3 DEF Handshake, Passes, Checks
    <3>2. checked'[r.key] = now
      BY <1>2, <2>1, <3>1 DEF CacheChecked
    <3> QED
      BY <1>2, <3>2, PeersAssumption DEF CacheChecked, Never
  <2> QED
    BY <2>2, <2>3
<1>3. CacheChecked /\ Shape => [AcceptsChecked]_vars
  BY <1>2 DEF AcceptsChecked
<1>4. Init => Shape
  BY InitShape
<1>5. Shape /\ [Next]_vars => Shape'
  BY StepShape
<1> QED
  BY <1>1, <1>3, <1>4, <1>5, StepCacheChecked, PTL DEF Spec, CacheExpires

LEMMA PairCardinality ==
    ASSUME NEW a, NEW b, NEW S, S \subseteq {a, b}
    PROVE  Cardinality(S) <= 2
<1>1. IsFiniteSet({a}) /\ Cardinality({a}) = 1
  BY FS_Singleton
<1>2. /\ IsFiniteSet({a} \cup {b})
      /\ Cardinality({a} \cup {b}) \in {1, 2}
  BY <1>1, FS_AddElement
<1>3. S \in SUBSET ({a} \cup {b})
  OBVIOUS
<1>4. Cardinality(S) <= Cardinality({a} \cup {b}) /\ IsFiniteSet(S)
  BY <1>2, <1>3, FS_Subset
<1>5. Cardinality(S) \in Nat
  BY <1>4, FS_CardinalityType
<1> QED
  BY <1>2, <1>4, <1>5

\* The table of peers is bounded, in all and for each address: add_peer keeps
\* its caller (net.rs 296-300), so that no task enters it twice, and an address
\* is over max_peers / 10 only after two handshakes at once (167, 206).
THEOREM TableAlwaysBounded == Spec => []TableBounded
<1> DEFINE I == Shape /\ Enlisted /\ OneServes /\ SlotsBounded
<1>1. Init => I
  BY InitShape
<1>2. I /\ [Next]_vars => I'
  BY StepShape, StepEnlisted, StepOneServes, StepSlots
<1>3. I => TableBounded
  <2>1. SUFFICES ASSUME I PROVE TableBounded
    OBVIOUS
  <2>2. AtMostTwo
    <3>1. \A c \in UNION {peers[i] : i \in Ips} : c \in Callers /\ pc[c] # "idle"
      <4>1. \A i \in Ips : \A c \in peers[i] : c \in Callers /\ pc[c] # "idle"
        BY <2>1 DEF Shape, Enlisted, Entered
      <4> QED
        BY <4>1
    <3>2. pc["listener"] = "idle" \/ pc["startup"] = "idle"
      BY <2>1 DEF OneServes, Listening
    <3>3. \/ UNION {peers[i] : i \in Ips} \subseteq {"startup", "reconnect"}
          \/ UNION {peers[i] : i \in Ips} \subseteq {"listener", "reconnect"}
      BY <3>1, <3>2 DEF Callers
    <3> QED
      BY <3>3, PairCardinality DEF AtMostTwo
  <2>3. ASSUME NEW i \in Ips, i \notin overlap
        PROVE  Cardinality(peers[i]) <= MaxPeers \div 10
    <3>1. Slots(i) \subseteq Callers /\ peers[i] \in SUBSET Slots(i)
      BY <2>1 DEF Slots, Shape
    <3>2. IsFiniteSet(Slots(i)) /\ Cardinality(Slots(i)) \in Nat
      BY <3>1, CallersFinite
    <3>3. Cardinality(peers[i]) <= Cardinality(Slots(i)) /\ Cardinality(peers[i]) \in Nat
      BY <3>1, <3>2, FS_Subset, FS_CardinalityType
    <3>4. Cardinality(Slots(i)) <= MaxPeers \div 10 /\ MaxPeers \div 10 \in Nat
      BY <2>1, <2>3, PeersAssumption DEF SlotsBounded
    <3> QED
      BY <3>2, <3>3, <3>4
  <2> QED
    BY <2>2, <2>3 DEF TableBounded, LimitUnlessOverlap
<1> QED
  BY <1>1, <1>2, <1>3, PTL DEF Spec
-----------------------------------------------------------------------------
(* Bans *)

\* No remove_peers for the address is outstanding.
NoneBanning(i) == ~\E c \in Callers : pc[c] = "banning" /\ addr[c] = i

LEMMA StepSpared ==
    ASSUME Shape, OpeningSpared, BanEmptiesTable, [Next]_vars
    PROVE  OpeningSpared' /\ BanEmptiesTable'
<1> DEFINE Goal(i) == now' < bans'[i]
             => /\ {c \in Callers : pc'[c] \in Pending /\ addr'[c] = i} \subseteq spared'[i]
                /\ NoneBanning(i)' => peers'[i] \subseteq spared'[i]
<1>0. SUFFICES ASSUME NEW i \in Ips, now' < bans'[i]
               PROVE  Goal(i)
  BY DEF OpeningSpared, BanEmptiesTable, NoneBanning
<1>1. (now < bans[i]
         => /\ {c \in Callers : pc[c] \in Pending /\ addr[c] = i} \subseteq spared[i]
            /\ NoneBanning(i) => peers[i] \subseteq spared[i])
  BY DEF OpeningSpared, BanEmptiesTable, NoneBanning
<1>2. Rests \/ \E c \in Callers : Acts(c)
  BY Effects
<1> HIDE DEF Goal
<1>3. CASE Rests
  <2>1. UNCHANGED <<pc, addr, peers, bans, spared>> /\ now < bans[i]
    BY <1>0, <1>3 DEF Rests, frame, Shape
  <2> QED
    BY <1>1, <2>1 DEF Goal, NoneBanning
<1>4. ASSUME NEW c \in Callers, NEW j \in Ips, Enters(c, j)
      PROVE  Goal(i)
  <2>1. bans'[i] = Current(i) /\ UNCHANGED <<now, peers, spared>> /\ pc[c] = "idle"
    BY <1>4 DEF Enters, Admits, Refuses
  <2>2. now < bans[i] /\ Current(i) # Never
    BY <1>0, <2>1 DEF Current, Never, Shape
  <2>3. /\ \A d \in Callers \ {c} : pc'[d] = pc[d] /\ addr'[d] = addr[d]
        /\ ~(pc'[c] \in Pending /\ addr'[c] = i)
    <3>1. CASE Admits(c, j)
      BY <2>2, <3>1 DEF Admits, Shape
    <3>2. CASE Refuses(c)
      BY <2>1, <3>2 DEF Refuses, Shape, Pending
    <3> QED
      BY <1>4, <3>1, <3>2 DEF Enters
  <2>4. NoneBanning(i)' => NoneBanning(i)
    BY <2>1, <2>3 DEF NoneBanning
  <2> QED
    BY <1>1, <2>1, <2>2, <2>3, <2>4 DEF Goal
<1>5. ASSUME NEW c \in Callers, Gives(c) \/ \E to \in Places : Advances(c, to)
      PROVE  Goal(i)
  <2>1. /\ UNCHANGED <<now, bans, peers, spared>> /\ pc[c] # "banning"
        /\ \A d \in Callers \ {c} : pc'[d] = pc[d] /\ addr'[d] = addr[d]
        /\ pc'[c] \in Pending => pc[c] \in Pending /\ addr'[c] = addr[c]
    BY <1>5 DEF Gives, Advances, Shape, Pending
  <2>2. NoneBanning(i)' => NoneBanning(i)
    BY <2>1 DEF NoneBanning
  <2> QED
    BY <1>0, <1>1, <2>1, <2>2 DEF Goal
<1>6. ASSUME NEW c \in Callers, Enlists(c)
      PROVE  Goal(i)
  <2>1. /\ UNCHANGED <<now, bans, addr, spared>> /\ pc[c] = "known" /\ pc'[c] \notin Pending
        /\ \A d \in Callers \ {c} : pc'[d] = pc[d]
        /\ peers'[i] \subseteq peers[i] \cup {d \in {c} : addr[d] = i}
    BY <1>6 DEF Enlists, Shape, Pending
  <2>2. NoneBanning(i)' => NoneBanning(i)
    BY <2>1 DEF NoneBanning
  <2>3. addr[c] = i => c \in spared[i]
    BY <1>0, <1>1, <2>1 DEF Pending
  <2> QED
    BY <1>0, <1>1, <2>1, <2>2, <2>3 DEF Goal
<1>7. ASSUME NEW c \in Callers, Errs(c)
      PROVE  Goal(i)
  <2>1. UNCHANGED <<now, addr, peers>> /\ pc[c] = "reading" /\ addr[c] \in Ips
    BY <1>7 DEF Errs, Shape
  <2>2. CASE UNCHANGED <<bans, pc, spared>>
    BY <1>0, <1>1, <2>1, <2>2 DEF Goal, NoneBanning
  <2>3. CASE /\ bans' = [bans EXCEPT ![addr[c]] = now + BanTime]
             /\ pc' = [pc EXCEPT ![c] = "banning"]
             /\ spared' = [spared EXCEPT ![addr[c]] =
                             {d \in Callers : Opening(d) /\ addr[d] = addr[c]}]
    <3>1. pc'[c] = "banning" /\ \A d \in Callers \ {c} : pc'[d] = pc[d]
      BY <2>3 DEF Shape
    <3>2. CASE addr[c] = i
      <4>1. spared'[i] = {d \in Callers : Opening(d) /\ addr[d] = i}
        BY <2>3, <3>2 DEF Shape
      <4>2. ~NoneBanning(i)'
        BY <2>1, <3>1, <3>2 DEF NoneBanning
      <4>3. \A d \in Callers : pc'[d] \in Pending => Opening(d)
        BY <3>1 DEF Opening, Pending
      <4> QED
        BY <2>1, <4>1, <4>2, <4>3 DEF Goal
    <3>3. CASE addr[c] # i
      <4>1. bans'[i] = bans[i] /\ spared'[i] = spared[i]
        BY <2>1, <2>3, <3>3 DEF Shape
      <4>2. NoneBanning(i)' => NoneBanning(i)
        BY <2>1, <3>1 DEF NoneBanning
      <4>3. pc'[c] \notin Pending
        BY <3>1 DEF Pending
      <4> QED
        BY <1>0, <1>1, <2>1, <3>1, <4>1, <4>2, <4>3 DEF Goal
    <3> QED
      BY <3>2, <3>3
  <2> QED
    BY <1>7, <2>2, <2>3 DEF Errs, Penalize
<1>8. ASSUME NEW c \in Callers, Empties(c)
      PROVE  Goal(i)
  <2>1. /\ UNCHANGED <<now, bans, addr, spared>> /\ addr[c] \in Ips
        /\ \A d \in Callers \ {c} : pc'[d] = pc[d]
        /\ pc'[c] \notin Pending
    BY <1>8 DEF Empties, Shape, Pending
  <2>2. peers'[i] = IF addr[c] = i THEN {} ELSE peers[i]
    BY <1>8, <2>1 DEF Empties, Shape
  <2>3. addr[c] # i /\ NoneBanning(i)' => NoneBanning(i)
    BY <2>1 DEF NoneBanning
  <2> QED
    BY <1>0, <1>1, <2>1, <2>2, <2>3 DEF Goal
<1>9. ASSUME NEW c \in Callers, Removes(c)
      PROVE  Goal(i)
  <2>1. /\ UNCHANGED <<now, bans, addr, spared>> /\ pc[c] # "banning"
        /\ \A d \in Callers \ {c} : pc'[d] = pc[d]
        /\ pc'[c] \notin Pending /\ peers'[i] \subseteq peers[i]
    BY <1>9 DEF Removes, Shape, Pending
  <2>2. NoneBanning(i)' => NoneBanning(i)
    BY <2>1 DEF NoneBanning
  <2> QED
    BY <1>0, <1>1, <2>1, <2>2 DEF Goal
<1> QED
  BY <1>2, <1>3, <1>4, <1>5, <1>6, <1>7, <1>8, <1>9 DEF Acts

\* The product in ErrorsCount, one error later.
LEMMA OneMoreError ==
    ASSUME NEW e \in Nat
    PROVE  /\ e * Penalty \in Nat /\ (e + 1) * Penalty \in Nat
           /\ (e + 1) * Penalty = e * Penalty + Penalty
           /\ Penalty \in 1 .. 128
BY PeersAssumption

LEMMA StepErrors ==
    ASSUME Shape, ErrorsCount, [Next]_vars
    PROVE  ErrorsCount'
<1> DEFINE Early == {"idle", "listed"} \cup Pending
           Goal(d) ==
             /\ pc'[d] \in Early => errors'[d] = 0 /\ reputation'[d] = 0
             /\ errors'[d] * Penalty <= 128 => reputation'[d] = -(errors'[d] * Penalty)
             /\ erred_at'[d] <= now'
             /\ (errors'[d] * Penalty \in 50 .. 128 /\ now' < erred_at'[d] + BanTime)
                  => bans'[addr'[d]] >= erred_at'[d] + BanTime
<1>0. SUFFICES ASSUME NEW d \in Callers PROVE Goal(d)
  BY DEF ErrorsCount
<1>1. /\ pc[d] \in Early => errors[d] = 0 /\ reputation[d] = 0
      /\ errors[d] * Penalty <= 128 => reputation[d] = -(errors[d] * Penalty)
      /\ erred_at[d] <= now
      /\ (errors[d] * Penalty \in 50 .. 128 /\ now < erred_at[d] + BanTime)
           => bans[addr[d]] >= erred_at[d] + BanTime
  BY DEF ErrorsCount
<1>2. /\ errors[d] \in Nat /\ erred_at[d] \in Nat /\ now \in Nat /\ BanTime \in Nat
      /\ errors[d] * Penalty \in Nat
  BY OneMoreError, PeersAssumption DEF Shape
<1>3. pc[d] \notin Early => addr[d] \in Ips /\ bans[addr[d]] \in Nat
  BY DEF Shape
<1>4. Rests \/ \E c \in Callers : Acts(c)
  BY Effects
<1>5. 0 * Penalty = 0
  BY PeersAssumption
<1>6. (errors'[d] = 0 /\ reputation'[d] = 0 /\ erred_at'[d] = erred_at[d] /\ now' = now)
        => Goal(d)
  BY ONLY <1>1, <1>5
<1> DEFINE Due == errors[d] * Penalty \in 50 .. 128 /\ now < erred_at[d] + BanTime
<1>same. ASSUME errors'[d] = errors[d], reputation'[d] = reputation[d], now' = now,
              erred_at'[d] = erred_at[d], addr'[d] = addr[d], pc'[d] = pc[d],
              Due => bans'[addr[d]] >= erred_at[d] + BanTime
       PROVE  Goal(d)
  BY ONLY <1>1, <1>same
<1> HIDE DEF Goal, Early, Due
<1>7. ASSUME UNCHANGED <<reputation, errors, erred_at, bans>>, addr'[d] = addr[d],
             pc'[d] \in Early => pc[d] \in Early, now' \in {now, now + 1}
      PROVE  Goal(d)
  BY ONLY <1>1, <1>2, <1>7 DEF Goal
<1>8. CASE Rests
  BY <1>7, <1>8 DEF Rests, frame
<1>9. ASSUME NEW c \in Callers, NEW i \in Ips, Enters(c, i)
      PROVE  Goal(d)
  <2>1. /\ UNCHANGED <<now, errors, erred_at>> /\ pc[c] = "idle"
        /\ bans' = [j \in Ips |-> Current(j)]
        /\ reputation'[c] = 0 /\ \A e \in Callers \ {c} :
             reputation'[e] = reputation[e] /\ pc'[e] = pc[e] /\ addr'[e] = addr[e]
    BY <1>9 DEF Enters, Admits, Refuses, Shape
  <2>2. CASE d = c
    BY <1>1, <1>6, <2>1, <2>2 DEF Early
  <2>3. CASE d # c /\ pc[d] \in Early
    BY <1>1, <1>6, <2>1, <2>3
  <2>4. CASE d # c /\ pc[d] \notin Early
    <3>1. bans'[addr[d]] = Current(addr[d])
      BY <1>3, <2>1, <2>4
    <3>2. now < bans[addr[d]] => bans'[addr[d]] = bans[addr[d]]
      BY <3>1 DEF Current
    <3>3. Due => bans'[addr[d]] >= erred_at[d] + BanTime
      BY ONLY <1>1, <1>2, <1>3, <2>4, <3>2 DEF Due
    <3>4. /\ errors'[d] = errors[d] /\ reputation'[d] = reputation[d] /\ now' = now
          /\ erred_at'[d] = erred_at[d] /\ addr'[d] = addr[d] /\ pc'[d] = pc[d]
      BY <2>1, <2>4
    <3> QED
      BY ONLY <1>same, <3>3, <3>4
  <2> QED
    BY <2>2, <2>3, <2>4
<1>10. ASSUME NEW c \in Callers, Gives(c)
       PROVE  Goal(d)
  <2>1. /\ UNCHANGED <<now, bans, reputation, errors, erred_at>> /\ pc[c] \in Early
        /\ \A e \in Callers \ {c} : pc'[e] = pc[e] /\ addr'[e] = addr[e]
    BY <1>10 DEF Gives, Shape, Early, Pending
  <2>2. CASE d = c
    BY <1>1, <1>6, <2>1, <2>2
  <2>3. CASE d # c
    BY <1>7, <2>1, <2>3
  <2> QED
    BY <2>2, <2>3
<1>11. ASSUME NEW c \in Callers, NEW to \in Places,
              Advances(c, to) \/ Enlists(c) \/ Empties(c) \/ Removes(c)
       PROVE  Goal(d)
  <2>1. /\ UNCHANGED <<now, addr, bans, reputation, errors, erred_at>>
        /\ \A e \in Callers \ {c} : pc'[e] = pc[e]
        /\ pc'[c] \in Early => pc[c] \in Early
    BY <1>11 DEF Advances, Enlists, Empties, Removes, Shape, Early, Pending
  <2> QED
    BY <1>7, <2>1
<1>12. ASSUME NEW c \in Callers, Errs(c)
       PROVE  Goal(d)
  <2> DEFINE r == I8(reputation[c] - Penalty)
  <2>1. /\ UNCHANGED <<now, addr>> /\ pc[c] = "reading" /\ addr[c] \in Ips
        /\ reputation' = [reputation EXCEPT ![c] = r]
        /\ errors' = [errors EXCEPT ![c] = @ + 1]
        /\ erred_at' = [erred_at EXCEPT ![c] = now]
    BY <1>12 DEF Errs, Penalize, Shape
  <2>2. \/ /\ r <= -50 /\ bans' = [bans EXCEPT ![addr[c]] = now + BanTime]
           /\ pc' = [pc EXCEPT ![c] = "banning"]
        \/ ~(r <= -50) /\ UNCHANGED <<bans, pc>>
    BY <1>12 DEF Errs, Penalize
  <2>3. pc'[c] \notin Early /\ \A e \in Callers \ {c} : pc'[e] = pc[e]
    BY <2>1, <2>2 DEF Shape, Early, Pending
  <2>4. CASE d = c
    <3>1. reputation'[d] = r /\ errors'[d] = errors[d] + 1 /\ erred_at'[d] = now
      BY <2>1, <2>4 DEF Shape
    <3>2. /\ (errors[d] + 1) * Penalty \in Nat
          /\ (errors[d] + 1) * Penalty = errors[d] * Penalty + Penalty
          /\ Penalty \in 1 .. 128
      BY <1>2, OneMoreError
    <3>3. (errors[d] + 1) * Penalty <= 128 => r = -((errors[d] + 1) * Penalty)
      <4>1. SUFFICES ASSUME (errors[d] + 1) * Penalty <= 128
                     PROVE  r = -((errors[d] + 1) * Penalty)
        OBVIOUS
      <4>2. reputation[c] - Penalty = -((errors[d] + 1) * Penalty)
        BY <1>1, <1>2, <2>4, <3>2, <4>1
      <4>3. -((errors[d] + 1) * Penalty) \in -128 .. 127
        BY <3>2, <4>1
      <4> HIDE DEF r
      <4>4. I8(-((errors[d] + 1) * Penalty)) = -((errors[d] + 1) * Penalty)
        BY <4>3, ReputationRange
      <4> QED
        BY <4>2, <4>4 DEF r
    <3>4. ASSUME (errors[d] + 1) * Penalty \in 50 .. 128
          PROVE  bans'[addr[d]] = now + BanTime
      <4>1. r <= -50
        BY <3>2, <3>3, <3>4
      <4> HIDE DEF r
      <4> QED
        BY <2>1, <2>2, <2>4, <4>1 DEF Shape
    <3> HIDE DEF r
    <3>5. addr'[d] = addr[d] /\ now' = now /\ pc'[d] \notin Early
      BY ONLY <2>1, <2>3, <2>4
    <3>6. now <= now /\ now + BanTime >= now + BanTime
      BY <1>2
    <3> QED
      BY ONLY <3>1, <3>3, <3>4, <3>5, <3>6 DEF Goal
  <2>5. CASE d # c
    <3> HIDE DEF r
    <3>1. /\ reputation'[d] = reputation[d] /\ errors'[d] = errors[d]
          /\ erred_at'[d] = erred_at[d] /\ pc'[d] = pc[d]
      BY <2>1, <2>3, <2>5 DEF Shape
    <3>2. CASE pc[d] \in Early
      BY <1>1, <1>6, <2>1, <3>1, <3>2
    <3>3. CASE pc[d] \notin Early
      <4>1. bans'[addr[d]] \in {bans[addr[d]], now + BanTime}
        BY <1>3, <2>1, <2>2, <3>3 DEF Shape
      <4>2. Due => bans'[addr[d]] >= erred_at[d] + BanTime
        BY ONLY <1>1, <1>2, <1>3, <3>3, <4>1 DEF Due
      <4>3. addr'[d] = addr[d] /\ now' = now
        BY <2>1
      <4> QED
        BY ONLY <1>same, <3>1, <4>2, <4>3
    <3> QED
      BY <3>2, <3>3
  <2> QED
    BY <2>4, <2>5
<1>13. Places # {}
  BY DEF Places
<1> QED
  BY <1>4, <1>8, <1>9, <1>10, <1>11, <1>12, <1>13 DEF Acts

\* Errors lead to bans and bans keep the address out of the table (net.rs
\* 164, 506-509, ban_ip), whatever the limits, the clock and the penalty.
THEOREM BansAlwaysHold == Spec => []BansHold
<1> DEFINE I == Shape /\ OpeningSpared /\ BanEmptiesTable /\ ErrorsCount
<1>1. Init => I
  <2>1. SUFFICES ASSUME Init PROVE I
    OBVIOUS
  <2>2. Shape /\ \A i \in Ips : ~(now < bans[i])
    BY <2>1, InitShape DEF Init, Never
  <2>3. OpeningSpared /\ BanEmptiesTable
    BY <2>2 DEF OpeningSpared, BanEmptiesTable
  <2>4. ErrorsCount
    <3>1. 0 * Penalty = 0
      BY PeersAssumption
    <3> QED
      BY <2>1, <3>1 DEF Init, ErrorsCount
  <2> QED
    BY <2>2, <2>3, <2>4
<1>2. I /\ [Next]_vars => I'
  BY StepShape, StepSpared, StepErrors
<1>3. I => BansHold
  <2>1. SUFFICES ASSUME I PROVE ErrorsBan
    BY DEF BansHold
  <2>2. SUFFICES ASSUME NEW c \in Callers, errors[c] * Penalty \in 50 .. 128,
                        now < erred_at[c] + BanTime
                 PROVE  now < bans[addr[c]]
    BY DEF ErrorsBan
  <2>3. pc[c] # "idle"
    <3>1. 0 * Penalty = 0
      BY PeersAssumption
    <3> QED
      BY <2>1, <2>2, <3>1 DEF ErrorsCount
  <2>4. bans[addr[c]] \in Nat /\ erred_at[c] \in Nat /\ now \in Nat /\ BanTime \in Nat
    BY <2>1, <2>3, PeersAssumption DEF Shape
  <2>5. bans[addr[c]] >= erred_at[c] + BanTime
    BY <2>1, <2>2 DEF ErrorsCount
  <2> QED
    BY <2>2, <2>4, <2>5
<1> QED
  BY <1>1, <1>2, <1>3, PTL DEF Spec
=============================================================================
