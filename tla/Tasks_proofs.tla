---------------------------- MODULE Tasks_proofs ----------------------------
(***************************************************************************)
(* The tasks of a running node: the locks they share (NodeLocks) and the   *)
(* hourly backup (Backup).                                                 *)
(*                                                                         *)
(* For any number of tasks and any scripts: a write guard is alone on its  *)
(* lock, and handlers are isolated from each other.  That three handlers   *)
(* stop at a lock of their own needs GuardsKept as well: a guard stays     *)
(* until the drop that names it.                                           *)
(*                                                                         *)
(* Backups implement BackupStore, for every number of backups that are     *)
(* kept and every number that is made, whatever fails.  The inductive      *)
(* invariant says what is on disk at each point of secure_backup_db: the   *)
(* backup in progress is newer than all others, gets its signature last    *)
(* and is complete with it before rotation starts.  ArchivesSound needs    *)
(* two more facts: a signature that has lost its archive is older than a   *)
(* complete backup, and a success is only reported once nothing is in      *)
(* excess.                                                                 *)
(***************************************************************************)
EXTENDS NodeLocks, Backup, FiniteSetTheorems, WellFoundedInduction, TLAPS

-----------------------------------------------------------------------------
(* Locks: the inductive invariant. *)

QueueOnce ==
    \A l \in Locks : \A i, j \in 1 .. Len(queue[l]) :
        queue[l][i] = queue[l][j] => i = j

WriterAlone ==
    \A t, u \in Tasks : \A g \in guards[t] : \A h \in guards[u] :
        /\ script[t][g].lock = script[u][h].lock
        /\ script[t][g].op = "write"
        => t = u /\ g = h

Inv == TypeOK /\ QueueOnce /\ WriterAlone

LEMMA InitInv == Init => Inv
<1> SUFFICES ASSUME Init PROVE Inv
    OBVIOUS
<1>1. TypeOK
    BY JobsAssumption DEF Init, TypeOK, QueuedAsk
<1>2. QueueOnce /\ WriterAlone
    BY DEF Init, QueueOnce, WriterAlone
<1> QED
    BY <1>1, <1>2 DEF Inv

LEMMA TaskFacts ==
    ASSUME Inv, NEW t \in Tasks
    PROVE  /\ script[t] \in Seq(Step) /\ script[t] \in Jobs[t] \cup {<<>>}
           /\ at[t] \in Nat \ {0} /\ at[t] <= Len(script[t]) + 1
           /\ guards[t] \subseteq 1 .. (at[t] - 1)
           /\ Len(script[t]) \in Nat
BY DEF Inv, TypeOK

LEMMA QueueFacts ==
    ASSUME Inv, NEW l \in Locks
    PROVE  /\ queue[l] \in Seq(Tasks) /\ Len(queue[l]) \in Nat
           /\ \A i \in 1 .. Len(queue[l]) :
                queue[l][i] \in Tasks /\ Asks(queue[l][i], l)
BY DEF Inv, TypeOK, QueuedAsk

LEMMA Shape ==
    Inv => /\ script \in [Tasks -> Seq(Step)] /\ at \in [Tasks -> Nat \ {0}]
           /\ guards \in [Tasks -> SUBSET Nat] /\ queue \in [Locks -> Seq(Tasks)]
BY DEF Inv, TypeOK

(* A task between two scripts has no guard and waits for nothing. *)
LEMMA IdleFacts ==
    ASSUME Inv, NEW t \in Tasks, script[t] = <<>>
    PROVE  at[t] = 1 /\ guards[t] = {} /\ ~ Waits(t)
<1>1. at[t] = 1 /\ guards[t] = {}
    BY TaskFacts
<1>2. \A l \in Locks : ~ Asks(t, l)
    BY DEF Asks, Running
<1> QED
    BY <1>1, <1>2, QueueFacts DEF Waits

(* When a task that waits in no queue moves, the queues stay right. *)
LEMMA OthersAsk ==
    ASSUME NEW t \in Tasks, NEW u \in Tasks, NEW l \in Locks, u # t,
           script'[u] = script[u], at'[u] = at[u], Asks(u, l)
    PROVE  Asks(u, l)'
BY DEF Asks, Running, Next1

LEMMA OthersStayQueued ==
    ASSUME Inv, NEW t \in Tasks, ~ Waits(t), UNCHANGED queue,
           \A u \in Tasks \ {t} : script'[u] = script[u] /\ at'[u] = at[u]
    PROVE  QueuedAsk'
<1> SUFFICES ASSUME NEW l \in Locks, NEW i \in 1 .. Len(queue[l]), NEW u,
                    u = queue[l][i]
             PROVE  Asks(u, l)'
    BY DEF QueuedAsk, Asks, Running, Next1
<1>1. u \in Tasks /\ u # t /\ Asks(u, l)
    BY QueueFacts DEF Waits
<1> QED
    BY <1>1, OthersAsk

LEMMA StartInv ==
    ASSUME Inv, NEW t \in Tasks, Start(t)
    PROVE  Inv'
<1> PICK s \in Jobs[t] : script' = [script EXCEPT ![t] = s]
    BY DEF Start
<1>0. s \in Seq(Step) /\ s # <<>>
    BY JobsAssumption
<1>1. at[t] = 1 /\ guards[t] = {} /\ ~ Waits(t)
    BY IdleFacts DEF Start
<1>2. script'[t] = s /\ \A u \in Tasks \ {t} : script'[u] = script[u]
    BY DEF Inv, TypeOK
<1>3. UNCHANGED <<at, guards, queue>>
    BY DEF Start
<1>4. QueuedAsk'
    BY <1>1, <1>2, <1>3, OthersStayQueued
<1>5. TypeOK'
  <2>1. script' \in [Tasks -> Seq(Step)]
      BY <1>0 DEF Inv, TypeOK
  <2>2. \A u \in Tasks : script'[u] \in Jobs[u] \cup {<<>>}
      BY <1>2, TaskFacts
  <2>3. \A u \in Tasks : at'[u] <= Len(script'[u]) + 1
      BY <1>0, <1>1, <1>2, <1>3, TaskFacts
  <2> QED
      BY <2>1, <2>2, <2>3, <1>3, <1>4 DEF Inv, TypeOK
<1>6. QueueOnce'
    BY <1>3 DEF Inv, QueueOnce
<1>7. WriterAlone'
    BY <1>1, <1>2, <1>3 DEF Inv, WriterAlone
<1> QED
    BY <1>5, <1>6, <1>7 DEF Inv

(* What a task that gets a lock does to guards and places. *)
LEMMA TakeInv ==
    ASSUME Inv, NEW t \in Tasks, NEW l \in Locks, Asks(t, l), Free(t), Take(t),
           UNCHANGED script
    PROVE  /\ at' \in [Tasks -> Nat \ {0}] /\ guards' \in [Tasks -> SUBSET Nat]
           /\ \A u \in Tasks : at'[u] <= Len(script'[u]) + 1
                               /\ guards'[u] \subseteq 1 .. (at'[u] - 1)
           /\ WriterAlone'
<1>1. at[t] \in 1 .. Len(script[t]) /\ script[t] \in Seq(Step)
    BY TaskFacts DEF Asks, Running
<1>2. /\ at'[t] = at[t] + 1 /\ guards'[t] = guards[t] \cup {at[t]}
      /\ \A u \in Tasks \ {t} : at'[u] = at[u] /\ guards'[u] = guards[u]
    BY Shape DEF Take
<1>3. at' \in [Tasks -> Nat \ {0}] /\ guards' \in [Tasks -> SUBSET Nat]
    BY <1>1, Shape DEF Take
<1>4. \A u \in Tasks : at'[u] <= Len(script'[u]) + 1
                       /\ guards'[u] \subseteq 1 .. (at'[u] - 1)
  <2> TAKE u \in Tasks
  <2>1. at[u] \in Nat \ {0} /\ guards[u] \subseteq 1 .. (at[u] - 1)
        /\ at[u] <= Len(script[u]) + 1
      BY TaskFacts
  <2>2. CASE u = t
      BY <2>1, <2>2, <1>1, <1>2
  <2>3. CASE u # t
      BY <2>1, <2>3, <1>2
  <2> QED
      BY <2>2, <2>3
<1>5. \A u \in Tasks : \A h \in guards[u] :
        script[u][h].lock = script[t][at[t]].lock
        => script[u][h].op # "write" /\ script[t][at[t]].op # "write"
    BY DEF Free, Blocks, Next1
<1>6. WriterAlone'
  <2> SUFFICES ASSUME NEW u \in Tasks, NEW v \in Tasks,
                      NEW g \in guards'[u], NEW h \in guards'[v],
                      script[u][g].lock = script[v][h].lock,
                      script[u][g].op = "write"
               PROVE  u = v /\ g = h
      BY DEF WriterAlone
  <2>1. g \in guards[u] \/ (u = t /\ g = at[t])
      BY <1>2
  <2>2. h \in guards[v] \/ (v = t /\ h = at[t])
      BY <1>2
  <2>3. CASE g \in guards[u] /\ h \in guards[v]
      BY <2>3 DEF Inv, WriterAlone
  <2>4. CASE g \in guards[u] /\ v = t /\ h = at[t]
      BY <2>4, <1>5
  <2>5. CASE u = t /\ g = at[t] /\ h \in guards[v]
      BY <2>5, <1>5
  <2> QED
      BY <2>1, <2>2, <2>3, <2>4, <2>5
<1> QED
    BY <1>3, <1>4, <1>6

LEMMA AcquireInv ==
    ASSUME Inv, NEW t \in Tasks, Acquire(t)
    PROVE  Inv'
<1> PICK l \in Locks : /\ Asks(t, l) /\ ~ Waits(t) /\ Free(t) /\ Take(t)
                       /\ UNCHANGED <<script, queue>>
    BY DEF Acquire
<1>1. /\ at' \in [Tasks -> Nat \ {0}] /\ guards' \in [Tasks -> SUBSET Nat]
      /\ \A u \in Tasks : at'[u] <= Len(script'[u]) + 1
                          /\ guards'[u] \subseteq 1 .. (at'[u] - 1)
      /\ WriterAlone'
    BY TakeInv
<1>2. \A u \in Tasks \ {t} : at'[u] = at[u]
    BY Shape DEF Take
<1>3. QueuedAsk'
    BY <1>2, OthersStayQueued
<1>4. TypeOK'
    BY <1>1, <1>3 DEF Inv, TypeOK
<1>5. QueueOnce'
    BY DEF Inv, QueueOnce
<1> QED
    BY <1>1, <1>4, <1>5 DEF Inv

LEMMA WaitInv ==
    ASSUME Inv, NEW t \in Tasks, Wait(t)
    PROVE  Inv'
<1> PICK l \in Locks : /\ Asks(t, l) /\ ~ Waits(t)
                       /\ queue' = [queue EXCEPT ![l] = Append(@, t)]
                       /\ UNCHANGED <<script, at, guards>>
    BY DEF Wait
<1>1. queue' \in [Locks -> Seq(Tasks)]
    BY DEF Inv, TypeOK
<1>2. \A k \in Locks \ {l} : queue'[k] = queue[k]
    BY DEF Inv, TypeOK
<1>3. /\ queue[l] \in Seq(Tasks) /\ queue'[l] = Append(queue[l], t)
      /\ Len(queue'[l]) = Len(queue[l]) + 1 /\ queue'[l][Len(queue[l]) + 1] = t
      /\ \A i \in 1 .. Len(queue[l]) : queue'[l][i] = queue[l][i]
    BY DEF Inv, TypeOK
<1>4. QueuedAsk'
  <2> SUFFICES ASSUME NEW k \in Locks, NEW i \in 1 .. Len(queue'[k])
               PROVE  Asks(queue[k][i], k)'
      BY DEF QueuedAsk
  <2> DEFINE u == queue'[k][i]
  <2> SUFFICES Asks(u, k)
      BY DEF Asks, Running, Next1
  <2>0. u = queue'[k][i]
      OBVIOUS
  <2> HIDE DEF u
  <2>1. CASE k # l
      BY <2>0, <2>1, <1>2, QueueFacts
  <2>2. CASE k = l /\ i = Len(queue[l]) + 1
      BY <2>0, <2>2, <1>3
  <2>3. CASE k = l /\ i # Len(queue[l]) + 1
    <3>1. i \in 1 .. Len(queue[l])
        BY <2>3, <1>3
    <3> QED
        BY <2>0, <3>1, <2>3, <1>3, QueueFacts
  <2> QED
      BY <2>1, <2>2, <2>3
<1>5. TypeOK'
    BY <1>1, <1>4 DEF Inv, TypeOK
<1>6. QueueOnce'
  <2> SUFFICES ASSUME NEW k \in Locks, NEW i \in 1 .. Len(queue'[k]),
                      NEW j \in 1 .. Len(queue'[k]), queue'[k][i] = queue'[k][j]
               PROVE  i = j
      BY DEF QueueOnce
  <2>1. CASE k # l
      BY <2>1, <1>2 DEF Inv, QueueOnce
  <2>2. CASE k = l
    <3>1. \A n \in 1 .. Len(queue[l]) : queue[l][n] # t
        BY DEF Waits
    <3> QED
        BY <3>1, <2>2, <1>3 DEF Inv, QueueOnce
  <2> QED
      BY <2>1, <2>2
<1>7. WriterAlone'
    BY DEF Inv, WriterAlone
<1> QED
    BY <1>5, <1>6, <1>7 DEF Inv

LEMMA GrantInv ==
    ASSUME Inv, NEW t \in Tasks, Grant(t)
    PROVE  Inv'
<1> PICK l \in Locks : /\ queue[l] # <<>> /\ Head(queue[l]) = t /\ Free(t)
                       /\ queue' = [queue EXCEPT ![l] = Tail(@)]
                       /\ Take(t) /\ UNCHANGED script
    BY DEF Grant
<1>1. /\ queue[l] \in Seq(Tasks) /\ queue'[l] = Tail(queue[l])
      /\ Len(queue[l]) \in Nat \ {0} /\ Len(queue'[l]) = Len(queue[l]) - 1
      /\ queue[l][1] = t
      /\ \A i \in 1 .. Len(queue'[l]) :
            i + 1 \in 1 .. Len(queue[l]) /\ queue'[l][i] = queue[l][i + 1]
    BY DEF Inv, TypeOK
<1>2. \A k \in Locks \ {l} : queue'[k] = queue[k]
    BY DEF Inv, TypeOK
<1>3. queue' \in [Locks -> Seq(Tasks)]
    BY <1>1 DEF Inv, TypeOK
<1>4. Asks(t, l)
    BY <1>1, QueueFacts
<1>5. /\ at' \in [Tasks -> Nat \ {0}] /\ guards' \in [Tasks -> SUBSET Nat]
      /\ \A u \in Tasks : at'[u] <= Len(script'[u]) + 1
                          /\ guards'[u] \subseteq 1 .. (at'[u] - 1)
      /\ WriterAlone'
    BY <1>4, TakeInv
<1>6. \A u \in Tasks \ {t} : at'[u] = at[u]
    BY Shape DEF Take
<1>7. QueuedAsk'
  <2> SUFFICES ASSUME NEW k \in Locks, NEW i \in 1 .. Len(queue'[k])
               PROVE  Asks(queue[k][i], k)'
      BY DEF QueuedAsk
  <2> SUFFICES ASSUME NEW u, u = queue'[k][i]
               PROVE  Asks(u, k)'
      BY DEF Asks, Running, Next1
  <2>1. u \in Tasks /\ u # t /\ Asks(u, k)
    <3>1. CASE k = l
      <4>1. u = queue[l][i + 1] /\ i + 1 \in 1 .. Len(queue[l]) /\ i + 1 # 1
          BY <3>1, <1>1
      <4>2. u # queue[l][1]
          BY <4>1, <1>1 DEF Inv, QueueOnce
      <4> QED
          BY <4>1, <4>2, <3>1, <1>1, QueueFacts
    <3>2. CASE k # l
      <4>1. Asks(u, k) /\ u \in Tasks
          BY <3>2, <1>2, QueueFacts
      <4>2. ~ Asks(t, k)
          BY <3>2, <1>4 DEF Asks
      <4> QED
          BY <4>1, <4>2
    <3> QED
        BY <3>1, <3>2
  <2> QED
      BY <2>1, <1>6, OthersAsk
<1>8. TypeOK'
    BY <1>3, <1>5, <1>7 DEF Inv, TypeOK
<1>9. QueueOnce'
  <2> SUFFICES ASSUME NEW k \in Locks, NEW i \in 1 .. Len(queue'[k]),
                      NEW j \in 1 .. Len(queue'[k]), queue'[k][i] = queue'[k][j]
               PROVE  i = j
      BY DEF QueueOnce
  <2>1. CASE k # l
      BY <2>1, <1>2 DEF Inv, QueueOnce
  <2>2. CASE k = l
    <3>1. i + 1 = j + 1
        BY <2>2, <1>1 DEF Inv, QueueOnce
    <3> QED
        BY <3>1, <2>2, <1>1
  <2> QED
      BY <2>1, <2>2
<1> QED
    BY <1>5, <1>8, <1>9 DEF Inv

(* A task that is not asking for a lock waits in no queue. *)
LEMMA NotAsking ==
    ASSUME Inv, NEW t \in Tasks, \A l \in Locks : ~ Asks(t, l)
    PROVE  ~ Waits(t)
BY QueueFacts DEF Waits

LEMMA ReleaseInv ==
    ASSUME Inv, NEW t \in Tasks, Release(t)
    PROVE  Inv'
<1>1. /\ at[t] \in 1 .. Len(script[t]) /\ script[t] \in Seq(Step)
      /\ script[t][at[t]].op = "drop"
    BY TaskFacts DEF Release, Running, Next1
<1>2. /\ at'[t] = at[t] + 1
      /\ guards'[t] = guards[t] \ {script[t][at[t]].guard}
      /\ \A u \in Tasks \ {t} : at'[u] = at[u] /\ guards'[u] = guards[u]
      /\ UNCHANGED <<script, queue>>
    BY Shape DEF Release, Next1
<1>3. \A u \in Tasks : guards'[u] \subseteq guards[u]
    BY <1>2
<1>4. at' \in [Tasks -> Nat \ {0}] /\ guards' \in [Tasks -> SUBSET Nat]
    BY <1>1, Shape DEF Release
<1>5. \A u \in Tasks : at'[u] <= Len(script'[u]) + 1
                       /\ guards'[u] \subseteq 1 .. (at'[u] - 1)
  <2> TAKE u \in Tasks
  <2>1. at[u] \in Nat \ {0} /\ guards[u] \subseteq 1 .. (at[u] - 1)
        /\ at[u] <= Len(script[u]) + 1
      BY TaskFacts
  <2>2. CASE u = t
      BY <2>1, <2>2, <1>1, <1>2
  <2>3. CASE u # t
      BY <2>1, <2>3, <1>2
  <2> QED
      BY <2>2, <2>3
<1>6. \A l \in Locks : ~ Asks(t, l)
    BY <1>1 DEF Asks, Next1
<1>7. QueuedAsk'
    BY <1>2, <1>6, NotAsking, OthersStayQueued
<1>8. TypeOK'
    BY <1>2, <1>4, <1>5, <1>7 DEF Inv, TypeOK
<1>9. QueueOnce'
    BY <1>2 DEF Inv, QueueOnce
<1>10. WriterAlone'
    BY <1>2, <1>3 DEF Inv, WriterAlone
<1> QED
    BY <1>8, <1>9, <1>10 DEF Inv

LEMMA ReturnInv ==
    ASSUME Inv, NEW t \in Tasks, Return(t)
    PROVE  Inv'
<1>1. /\ script'[t] = <<>> /\ at'[t] = 1 /\ guards'[t] = {}
      /\ \A u \in Tasks \ {t} : /\ script'[u] = script[u] /\ at'[u] = at[u]
                                /\ guards'[u] = guards[u]
      /\ UNCHANGED queue
    BY Shape DEF Return
<1>2. /\ script' \in [Tasks -> Seq(Step)] /\ at' \in [Tasks -> Nat \ {0}]
      /\ guards' \in [Tasks -> SUBSET Nat]
    BY Shape DEF Return
<1>3. \A u \in Tasks : /\ script'[u] \in Jobs[u] \cup {<<>>}
                       /\ at'[u] <= Len(script'[u]) + 1
                       /\ guards'[u] \subseteq 1 .. (at'[u] - 1)
    BY <1>1, TaskFacts
<1>4. \A l \in Locks : ~ Asks(t, l)
    BY TaskFacts DEF Return, Asks, Running
<1>5. QueuedAsk'
    BY <1>1, <1>4, NotAsking, OthersStayQueued
<1>6. TypeOK'
    BY <1>1, <1>2, <1>3, <1>5 DEF Inv, TypeOK
<1>7. QueueOnce'
    BY <1>1 DEF Inv, QueueOnce
<1>8. WriterAlone'
    BY <1>1 DEF Inv, WriterAlone
<1> QED
    BY <1>6, <1>7, <1>8 DEF Inv

LEMMA NextInv == Inv /\ [Next]_vars => Inv'
<1> SUFFICES ASSUME Inv, [Next]_vars PROVE Inv'
    OBVIOUS
<1>1. CASE UNCHANGED vars
  <2>1. TypeOK'
    <3>0. QueuedAsk
        BY DEF Inv, TypeOK
    <3>1. QueuedAsk'
        BY ONLY <1>1, <3>0 DEF vars, QueuedAsk, Asks, Running, Next1
    <3> QED
        BY <1>1, <3>1 DEF vars, Inv, TypeOK
  <2>2. QueueOnce' /\ WriterAlone'
      BY <1>1 DEF vars, Inv, QueueOnce, WriterAlone
  <2> QED
      BY <2>1, <2>2 DEF Inv
<1>2. ASSUME NEW t \in Tasks, Start(t) \/ Proceed(t) PROVE Inv'
    BY <1>2, StartInv, AcquireInv, WaitInv, GrantInv, ReleaseInv, ReturnInv DEF Proceed
<1> QED
    BY <1>1, <1>2 DEF Next

-----------------------------------------------------------------------------
(* Theorems. *)

(* The lock discipline of the model: places, guards and queues fit together. *)
THEOREM TypesAlways == Spec => []TypeOK
<1>1. Inv => TypeOK
    BY DEF Inv
<1> QED
    BY <1>1, InitInv, NextInv, PTL DEF Spec

LEMMA Invariant == Spec => []Inv
BY InitInv, NextInv, PTL DEF Spec

(* Two handlers never work on chain and mempool at once in a way that one    *)
(* could change what the other reads: TX and send_tx against blocks, blocks  *)
(* against everything.                                                       *)
THEOREM AlwaysIsolated == Spec => []Isolated
<1>1. ASSUME Inv PROVE Isolated
  <2> SUFFICES ASSUME NEW t \in Tasks, NEW u \in Tasks, u # t,
                      1 \in guards[t], 2 \in guards[t]
               PROVE  /\ script[t] \in {TxRefused, TxAccepted, RpcSendTx}
                          => ~ Holds(u, "mempool", {"read", "write"})
                             /\ ~ Holds(u, "chain", {"write"})
                      /\ script[t] \in {BlockRefused, BlockConnected}
                          => ~ Holds(u, "mempool", {"read", "write"})
                             /\ ~ Holds(u, "chain", {"read", "write"})
      BY DEF Isolated
  <2>1. \A h \in guards[u] :
          /\ ~ (script[t][1].op = "write" /\ script[t][1].lock = script[u][h].lock)
          /\ ~ (script[t][2].op = "write" /\ script[t][2].lock = script[u][h].lock)
          /\ ~ (script[u][h].op = "write" /\ script[u][h].lock = script[t][2].lock)
      BY <1>1 DEF Inv, WriterAlone
  <2>2. CASE script[t] \in {TxRefused, TxAccepted, RpcSendTx}
    <3>1. /\ script[t][1].op = "write" /\ script[t][1].lock = "mempool"
          /\ script[t][2].lock = "chain"
        BY <2>2 DEF TxRefused, TxAccepted, RpcSendTx, Read, Write
    <3>2. script[t] \notin {BlockRefused, BlockConnected}
      <4>1. \A s \in {BlockRefused, BlockConnected} : s[1].lock = "chain"
          BY DEF BlockRefused, BlockConnected, Read, Write, Drop
      <4> QED
          BY <4>1, <3>1
    <3> QED
        BY <2>1, <3>1, <3>2 DEF Holds
  <2>3. CASE script[t] \in {BlockRefused, BlockConnected}
    <3>1. /\ script[t][1].op = "write" /\ script[t][1].lock = "chain"
          /\ script[t][2].op = "write" /\ script[t][2].lock = "mempool"
        BY <2>3 DEF BlockRefused, BlockConnected, Read, Write, Drop
    <3> QED
        BY <2>1, <3>1, <2>2 DEF Holds
  <2> QED
      BY <2>2, <2>3
<1> QED
    BY <1>1, Invariant, PTL

-----------------------------------------------------------------------------
(* Handlers that ask for a lock they hold.                                 *)

Dropped(s, g, i) == \E k \in (g + 1) .. (i - 1) : s[k].op = "drop" /\ s[k].guard = g

\* A guard is held from the place that obtained it to the drop that names it.
GuardsKept ==
    \A t \in Tasks : \A g \in 1 .. (at[t] - 1) :
        script[t][g].op # "drop" /\ ~ Dropped(script[t], g, at[t]) => g \in guards[t]

(* What one step does to the place and the guards of a task. *)
Moves(t) ==
    \/ /\ at'[t] = at[t] /\ guards'[t] = guards[t]
       /\ script'[t] = script[t] \/ at[t] = 1
    \/ at'[t] = 1
    \/ /\ script'[t] = script[t] /\ at'[t] = at[t] + 1
       /\ at[t] \in 1 .. Len(script[t])
       /\ \/ /\ Free(t) /\ script[t][at[t]].op # "drop"
             /\ guards'[t] = guards[t] \cup {at[t]}
          \/ /\ script[t][at[t]].op = "drop"
             /\ guards'[t] = guards[t] \ {script[t][at[t]].guard}

LEMMA EveryMove ==
    ASSUME Inv, [Next]_vars, NEW t \in Tasks
    PROVE  Moves(t)
<1>1. CASE UNCHANGED vars
    BY <1>1 DEF vars, Moves
<1>2. ASSUME NEW u \in Tasks, Start(u) PROVE Moves(t)
  <2>1. at[u] = 1 /\ UNCHANGED <<at, guards>>
      BY <1>2, IdleFacts DEF Start
  <2>2. u # t => script'[t] = script[t]
      BY <1>2, Shape DEF Start
  <2> QED
      BY <2>1, <2>2 DEF Moves
<1>3. ASSUME NEW u \in Tasks, Acquire(u) \/ Grant(u) PROVE Moves(t)
  <2>1. /\ Free(u) /\ Take(u) /\ UNCHANGED script
        /\ \E l \in Locks : Asks(u, l)
    <3>1. CASE Acquire(u)
        BY <3>1 DEF Acquire
    <3>2. CASE Grant(u)
      <4>1. PICK l \in Locks : /\ queue[l] # <<>> /\ Head(queue[l]) = u /\ Free(u)
                               /\ Take(u) /\ UNCHANGED script
          BY <3>2 DEF Grant
      <4>2. Len(queue[l]) >= 1 /\ queue[l][1] = u
          BY <4>1, QueueFacts
      <4>3. Asks(u, l)
          BY <4>2, QueueFacts
      <4> QED
          BY <4>1, <4>3
    <3> QED
        BY <1>3, <3>1, <3>2
  <2>2. at[u] \in 1 .. Len(script[u]) /\ script[u][at[u]].op # "drop"
      BY <2>1, TaskFacts DEF Asks, Running, Next1
  <2>3. CASE u = t
      BY <2>1, <2>2, <2>3, Shape DEF Take, Moves
  <2>4. CASE u # t
      BY <2>1, <2>4, Shape DEF Take, Moves
  <2> QED
      BY <2>3, <2>4
<1>4. ASSUME NEW u \in Tasks, Wait(u) PROVE Moves(t)
    BY <1>4 DEF Wait, Moves
<1>5. ASSUME NEW u \in Tasks, Release(u) PROVE Moves(t)
  <2>1. at[u] \in 1 .. Len(script[u]) /\ script[u][at[u]].op = "drop"
      BY <1>5, TaskFacts DEF Release, Running, Next1
  <2>2. CASE u = t
      BY <1>5, <2>1, <2>2, Shape DEF Release, Next1, Moves
  <2>3. CASE u # t
      BY <1>5, <2>3, Shape DEF Release, Moves
  <2> QED
      BY <2>2, <2>3
<1>6. ASSUME NEW u \in Tasks, Return(u) PROVE Moves(t)
  <2>1. CASE u = t
      BY <1>6, <2>1, Shape DEF Return, Moves
  <2>2. CASE u # t
      BY <1>6, <2>2, Shape DEF Return, Moves
  <2> QED
      BY <2>1, <2>2
<1> QED
    BY <1>1, <1>2, <1>3, <1>4, <1>5, <1>6 DEF Next, Proceed

LEMMA KeptInv ==
    ASSUME Inv, GuardsKept, [Next]_vars
    PROVE  GuardsKept'
<1> SUFFICES ASSUME NEW t \in Tasks, NEW g \in 1 .. (at'[t] - 1),
                    script'[t][g].op # "drop", ~ Dropped(script'[t], g, at'[t])
             PROVE  g \in guards'[t]
    BY DEF GuardsKept
<1>1. Moves(t) /\ at[t] \in Nat \ {0}
    BY EveryMove, TaskFacts
<1>2. script'[t] = script[t] /\ (at'[t] = at[t] \/ at'[t] = at[t] + 1)
    BY <1>1 DEF Moves
<1>3. g < at[t] => g \in guards[t]
  <2> SUFFICES ASSUME g < at[t] PROVE g \in guards[t]
      OBVIOUS
  <2>1. g \in 1 .. (at[t] - 1)
      BY <1>1
  <2>2. ~ Dropped(script[t], g, at[t])
      BY <1>1, <1>2 DEF Dropped
  <2> QED
      BY <2>1, <2>2, <1>2 DEF GuardsKept
<1>4. CASE at'[t] = at[t]
    BY <1>1, <1>3, <1>4 DEF Moves
<1>5. CASE at'[t] = at[t] + 1 /\ g = at[t]
    BY <1>1, <1>2, <1>5 DEF Moves
<1>6. CASE at'[t] = at[t] + 1 /\ g # at[t]
  <2>1. g < at[t] /\ g \in guards[t] /\ at[t] \in (g + 1) .. (at'[t] - 1)
      BY <1>1, <1>3, <1>6
  <2>2. ~ (script[t][at[t]].op = "drop" /\ script[t][at[t]].guard = g)
      BY <2>1, <1>2 DEF Dropped
  <2> QED
      BY <1>1, <1>6, <2>1, <2>2 DEF Moves
<1> QED
    BY <1>2, <1>4, <1>5, <1>6

(* The handlers ask for a lock that an earlier guard of theirs keeps from    *)
(* them.                                                                     *)
LEMMA OwnScripts ==
    /\ BlockConnected[2].op = "write" /\ BlockConnected[2].lock = "mempool"
    /\ BlockConnected[4].op = "write" /\ BlockConnected[4].lock = "mempool"
    /\ ~ Dropped(BlockConnected, 2, 4)
    /\ MineFound[1].op = "read" /\ MineFound[1].lock = "chain"
    /\ MineFound[6].op = "write" /\ MineFound[6].lock = "chain"
    /\ ~ Dropped(MineFound, 1, 6)
    /\ RemovePeer[1].op = "write" /\ RemovePeer[1].lock = "peers"
    /\ RemovePeer[3].op = "read" /\ RemovePeer[3].lock = "peers"
    /\ ~ Dropped(RemovePeer, 1, 3)
<1>1. /\ BlockConnected[2].op = "write" /\ BlockConnected[2].lock = "mempool"
      /\ BlockConnected[3].op = "write"
      /\ BlockConnected[4].op = "write" /\ BlockConnected[4].lock = "mempool"
    BY DEF BlockConnected, Write, Read, Drop
<1>2. ~ Dropped(BlockConnected, 2, 4)
    BY <1>1 DEF Dropped
<1>3. /\ MineFound[1] = Read("chain") /\ MineFound[2] = Read("mempool")
      /\ MineFound[3] = Drop("mempool", 2) /\ MineFound[4] = Read("chain")
      /\ MineFound[5] = Drop("chain", 4) /\ MineFound[6] = Write("chain")
    BY DEF MineFound
<1>4. \A k \in 2 .. 5 : MineFound[k].op = "drop" => MineFound[k].guard # 1
    BY <1>3 DEF Read, Drop
<1>5. ~ Dropped(MineFound, 1, 6)
    BY <1>4 DEF Dropped
<1>6. /\ RemovePeer[1] = Write("peers") /\ RemovePeer[2] = Write("peers_by_id")
      /\ RemovePeer[3] = Read("peers")
    BY DEF RemovePeer
<1>7. ~ Dropped(RemovePeer, 1, 3)
    BY <1>6 DEF Dropped, Write
<1> QED
    BY <1>1, <1>2, <1>3, <1>5, <1>6, <1>7 DEF Read, Write

\* No step takes a task past a lock that it keeps from itself.
LEMMA NotPastOwn ==
    ASSUME Inv, GuardsKept, [Next]_vars, NEW t \in Tasks, NEW g \in Nat \ {0},
           g < at[t], script[t][g].op # "drop", ~ Dropped(script[t], g, at[t]),
           script[t][g].lock = script[t][at[t]].lock,
           "write" \in {script[t][g].op, script[t][at[t]].op},
           script[t][at[t]].op # "drop"
    PROVE  at'[t] # at[t] + 1
<1>1. Moves(t) /\ at[t] \in Nat \ {0}
    BY EveryMove, TaskFacts
<1>2. g \in guards[t]
    BY <1>1 DEF GuardsKept
<1>3. ~ Free(t)
    BY <1>2 DEF Free, Blocks, Next1
<1>4. at[t] # at[t] + 1 /\ 1 # at[t] + 1
    BY <1>1
<1> QED
    BY <1>1, <1>3, <1>4 DEF Moves

LEMMA OwnInv ==
    ASSUME Inv, GuardsKept, OwnLockNeverGranted, [Next]_vars
    PROVE  OwnLockNeverGranted'
<1> SUFFICES ASSUME NEW t \in Tasks
             PROVE  /\ script'[t] = BlockConnected => at'[t] <= 4
                    /\ script'[t] = MineFound => at'[t] <= 6
                    /\ script'[t] = RemovePeer => at'[t] <= 3
    BY DEF OwnLockNeverGranted
<1>1. Moves(t) /\ at[t] \in Nat \ {0}
    BY EveryMove, TaskFacts
<1>2. /\ script[t] = BlockConnected => at[t] <= 4
      /\ script[t] = MineFound => at[t] <= 6
      /\ script[t] = RemovePeer => at[t] <= 3
    BY DEF OwnLockNeverGranted
<1>3. CASE at'[t] # at[t] + 1
    BY <1>1, <1>2, <1>3 DEF Moves
<1>4. CASE at'[t] = at[t] + 1
  <2>1. ~ (script[t] = BlockConnected /\ at[t] = 4)
      BY <1>4, OwnScripts, NotPastOwn
  <2>2. ~ (script[t] = MineFound /\ at[t] = 6)
      BY <1>4, OwnScripts, NotPastOwn
  <2>3. ~ (script[t] = RemovePeer /\ at[t] = 3)
      BY <1>4, OwnScripts, NotPastOwn
  <2>4. script'[t] = script[t]
      BY <1>1, <1>4 DEF Moves
  <2> QED
      BY <1>1, <1>2, <1>4, <2>1, <2>2, <2>3, <2>4
<1> QED
    BY <1>3, <1>4

(* BLOCK never gets past the mempool it already holds, the miner never past  *)
(* the chain it already reads, and remove_peer never past the peers it       *)
(* writes, whatever the other tasks of the node do.                          *)
THEOREM OwnLockNever == Spec => []OwnLockNeverGranted
<1> DEFINE Own == Inv /\ GuardsKept /\ OwnLockNeverGranted
<1>1. Init => Own
    BY InitInv DEF Init, GuardsKept, OwnLockNeverGranted
<1>2. Own /\ [Next]_vars => Own'
    BY NextInv, KeptInv, OwnInv
<1> QED
    BY <1>1, <1>2, PTL DEF Spec

-----------------------------------------------------------------------------
(* Backups: the inductive invariant. *)

\* No file belongs to a backup that has not begun.
NothingAhead == \A t \in Times : t > now => files[t] = {}

\* What secure_backup_db knows of its own backup.
Progress ==
    /\ pc = "lock" /\ holder = "nobody" => now < MaxTime
    /\ pc = "checkpoint" => now < MaxTime
    /\ pc \in {"zip", "fill", "sign", "finish"} => files[now] \cap {"zip", "sig"} = {}
    /\ pc = "sign_name" => "sig" \notin files[now] /\ "zip" \in files[now]
    /\ pc \in {"sign", "finish", "sign_name", "rotate", "rotate_sig"} => now \in full
    /\ pc \in {"rotate", "rotate_sig"} => {"zip", "sig"} \subseteq files[now]
    /\ pc = "rotate_sig" => victim # now /\ "zip" \notin files[victim]

\* Archives under their final names are complete.
Complete == \A t \in Times : "zip" \in files[t] => t \in full

BackupInv == BackupTypeOK /\ NothingAhead /\ Progress /\ Complete

USE DEF Times

LEMMA InitBackup == BackupInit => BackupInv
<1> SUFFICES ASSUME BackupInit PROVE BackupInv
  OBVIOUS
<1>1. BackupTypeOK
  <2>1. files \in [Times -> SUBSET Suffixes] /\ full \subseteq Times
    BY DEF BackupInit
  <2>2. node \in BOOLEAN
    BY Zenon DEF BackupInit
  <2>3. now \in 0 .. MaxTime /\ victim \in 0 .. MaxTime /\ pc = "idle"
    BY BoundAssumption DEF BackupInit
  <2> QED
    BY <2>1, <2>2, <2>3 DEF BackupInit, BackupTypeOK, Working
<1>2. NothingAhead /\ Complete
  BY DEF BackupInit, NothingAhead, Complete
<1> QED
  BY <1>1, <1>2 DEF BackupInit, BackupInv, Progress

\* An archive that is removed has a newer one beside it, so it is not the
\* one just made.
LEMMA SurplusIsOld ==
    ASSUME BackupInv, pc = "rotate", NEW t \in Surplus
    PROVE  t \in Times /\ t < now
<1>1. t \in Times /\ Cardinality({u \in Zips : u > t}) >= Keep
  BY DEF Surplus, Zips
<1>2. {u \in Zips : u > t} # {}
  BY <1>1, FS_EmptySet, KeepAssumption
<1>3. PICK u \in Times : "zip" \in files[u] /\ u > t
  BY <1>2 DEF Zips
<1>4. ~(u > now)
  BY <1>3 DEF BackupInv, NothingAhead
<1>5. now \in Nat
  BY BoundAssumption DEF BackupInv, BackupTypeOK
<1> QED
  BY <1>1, <1>3, <1>4, <1>5, BoundAssumption

LEMMA StepBackup == BackupInv /\ [BackupNext]_backup_vars => BackupInv'
<1> SUFFICES ASSUME BackupInv, [BackupNext]_backup_vars PROVE BackupInv'
  OBVIOUS
<1> USE BoundAssumption
<1>1. CASE StartNode
  BY <1>1 DEF StartNode, Idle, BackupInv, BackupTypeOK, NothingAhead, Progress, Complete, Working
<1>2. CASE StopNode
  BY <1>2 DEF StopNode, BackupInv, BackupTypeOK, NothingAhead, Progress, Complete, Working
<1>3. CASE HourlyBackup
  BY <1>3 DEF HourlyBackup, Idle, BackupInv, BackupTypeOK, NothingAhead, Progress, Complete, Working
<1>4. CASE BackupNow
  BY <1>4 DEF BackupNow, Idle, BackupInv, BackupTypeOK, NothingAhead, Progress, Complete, Working
<1>5. CASE Lock
  BY <1>5 DEF Lock, Passes, BackupInv, BackupTypeOK, NothingAhead, Progress, Complete, Working
<1>6. CASE CreateCheckpoint
  BY <1>6 DEF CreateCheckpoint, AddFile, Passes, BackupInv, BackupTypeOK, NothingAhead, Progress, Complete, Working, Suffixes
<1>7. CASE CreateZip
  BY <1>7 DEF CreateZip, AddFile, Passes, BackupInv, BackupTypeOK, NothingAhead, Progress, Complete, Working, Suffixes
<1>8. CASE FinishZip
  BY <1>8 DEF FinishZip, Passes, BackupInv, BackupTypeOK, NothingAhead, Progress, Complete, Working
<1>9. CASE Sign
  BY <1>9 DEF Sign, AddFile, Passes, BackupInv, BackupTypeOK, NothingAhead, Progress, Complete, Working, Suffixes
<1>10. CASE RenameZip
  BY <1>10 DEF RenameZip, Rename, Passes, BackupInv, BackupTypeOK, NothingAhead, Progress, Complete, Working, Suffixes
<1>11. CASE RenameSig
  BY <1>11 DEF RenameSig, Rename, Passes, BackupInv, BackupTypeOK, NothingAhead, Progress, Complete, Working, Suffixes
<1>12. CASE RotateZip
  <2>1. PICK t \in Surplus :
            victim' = t /\ files' = [files EXCEPT ![t] = @ \ {"zip"}]
    BY <1>12 DEF RotateZip
  <2>2. t \in Times /\ t < now
    BY <1>12, SurplusIsOld DEF RotateZip, Passes
  <2> QED
    BY <1>12, <2>1, <2>2
       DEF RotateZip, Passes, BackupInv, BackupTypeOK, NothingAhead, Progress, Complete, Working, Suffixes
<1>13. CASE RotateSig
  BY <1>13 DEF RotateSig, Passes, BackupInv, BackupTypeOK, NothingAhead, Progress, Complete, Working, Suffixes
<1>14. CASE RotateDone
  BY <1>14 DEF RotateDone, Passes, BackupInv, BackupTypeOK, NothingAhead, Progress, Complete, Working
<1>15. CASE Cleanup
  BY <1>15 DEF Cleanup, Passes, BackupInv, BackupTypeOK, NothingAhead, Progress, Complete, Working, Suffixes
<1>16. CASE Fail
  BY <1>16 DEF Fail, BackupInv, BackupTypeOK, NothingAhead, Progress, Complete, Working
<1>17. CASE FailEarly
  BY <1>17 DEF FailEarly, Passes, BackupInv, BackupTypeOK, NothingAhead, Progress, Complete, Working
<1>18. CASE Crash
  <2>1. node' \in BOOLEAN
    BY <1>18, Zenon DEF Crash
  <2>2. /\ pc' = "idle" /\ holder' = "nobody" /\ victim' = 0 /\ result' = "none"
        /\ UNCHANGED <<now, files, full>>
    BY <1>18 DEF Crash
  <2> QED
    BY <2>1, <2>2 DEF BackupInv, BackupTypeOK, NothingAhead, Progress, Complete, Working
<1>19. CASE UNCHANGED backup_vars
  BY <1>19 DEF backup_vars, BackupInv, BackupTypeOK, NothingAhead, Progress, Complete
<1> QED
  BY <1>1, <1>2, <1>3, <1>4, <1>5, <1>6, <1>7, <1>8, <1>9, <1>10, <1>11, <1>12, <1>13,
     <1>14, <1>15, <1>16, <1>17, <1>18, <1>19 DEF BackupNext, SecureBackupDb

LEMMA BackupAlways == BackupSpec => []BackupInv
  BY InitBackup, StepBackup, PTL DEF BackupSpec

\* Every step of a backup publishes one, retires one that is not the newest,
\* or leaves what can be verified as it was.
LEMMA StepImplements == BackupInv /\ [BackupNext]_backup_vars => [Store!Next]_Verified
<1> SUFFICES ASSUME BackupInv, [BackupNext]_backup_vars PROVE Store!Next \/ Verified' = Verified
  OBVIOUS
<1> USE BoundAssumption
<1>1. now \in Nat /\ files \in [Times -> SUBSET Suffixes]
  BY DEF BackupInv, BackupTypeOK
<1>2. \A t \in Verified : t \in Times /\ t <= now
  BY <1>1 DEF BackupInv, NothingAhead, Verified
<1>3. CASE RenameSig
  <2>1. now \in Times /\ now \in full /\ "zip" \in files[now] /\ "sig" \notin files[now]
    BY <1>3 DEF RenameSig, Passes, BackupInv, BackupTypeOK, Progress, Working
  <2>2. Verified' = Verified \cup {now}
    BY <1>1, <1>3, <2>1 DEF RenameSig, Rename, Verified
  <2>3. now \notin Verified
    BY <2>1 DEF Verified
  <2> QED
    BY <1>2, <2>1, <2>2, <2>3 DEF Store!Next, Store!Publish, Store!Newest
<1>4. CASE RotateZip
  <2>1. PICK t \in Surplus : files' = [files EXCEPT ![t] = @ \ {"zip"}]
    BY <1>4 DEF RotateZip
  <2>2. t \in Times /\ t < now
    BY <1>4, SurplusIsOld DEF RotateZip, Passes
  <2>3. now \in Verified
    BY <1>4 DEF RotateZip, Passes, BackupInv, BackupTypeOK, Progress, Verified, Working
  <2>4. full' = full
    BY <1>4 DEF RotateZip
  <2>5. Verified' = Verified \ {t}
    BY <1>1, <2>1, <2>2, <2>4 DEF Verified
  <2>6. CASE t \in Verified
    BY <1>1, <2>2, <2>3, <2>5, <2>6 DEF Store!Next, Store!Retire, Store!Newest
  <2>7. CASE t \notin Verified
    BY <2>5, <2>7
  <2> QED
    BY <2>6, <2>7
<1>5. CASE RotateSig
  BY <1>1, <1>5 DEF RotateSig, Passes, BackupInv, BackupTypeOK, Progress, Verified
<1>6. CASE CreateCheckpoint
  <2>1. now' \in Nat /\ full' = full /\ files' = [files EXCEPT ![now'] = @ \cup {"dir"}]
    BY <1>1, <1>6 DEF CreateCheckpoint, AddFile
  <2> QED
    BY <1>1, <2>1 DEF Verified
<1>7. CASE CreateZip \/ Sign
  <2>1. full' = full /\ \E s \in {"zip.tmp", "sig.tmp"} :
            files' = [files EXCEPT ![now] = @ \cup {s}]
    BY <1>7 DEF CreateZip, Sign, AddFile
  <2> QED
    BY <1>1, <2>1 DEF Verified
<1>8. CASE FinishZip
  BY <1>1, <1>8 DEF FinishZip, Passes, BackupInv, Progress, Verified
<1>9. CASE RenameZip
  BY <1>1, <1>9 DEF RenameZip, Rename, Passes, BackupInv, Progress, Verified
<1>10. CASE Cleanup
  BY <1>1, <1>10 DEF Cleanup, Verified
<1>11. CASE UNCHANGED <<files, full>>
  BY <1>11 DEF Verified
<1>12. StartNode \/ StopNode \/ HourlyBackup \/ BackupNow \/ Lock \/ RotateDone \/ Fail
       \/ FailEarly \/ Crash \/ UNCHANGED backup_vars => UNCHANGED <<files, full>>
  BY DEF StartNode, StopNode, HourlyBackup, BackupNow, Lock, RotateDone, Fail, FailEarly,
         Crash, backup_vars
<1> QED
  BY <1>3, <1>4, <1>5, <1>6, <1>7, <1>8, <1>9, <1>10, <1>11, <1>12 DEF BackupNext, SecureBackupDb

\* Backups implement BackupStore: for every `keep' above 0, however many
\* backups are made and whatever crashes and fails, the newest backup that
\* can be verified is never removed.
THEOREM BackupsImplementStore == BackupSpec => NewestSurvives
<1>1. BackupInit => Store!Init
  BY DEF BackupInit, Store!Init, Verified
<1> QED
  BY <1>1, BackupAlways, StepImplements, PTL DEF BackupSpec, NewestSurvives, Store!Spec

\* No archive that was cut short ever gets its final name.
THEOREM ArchivesComplete == BackupSpec => []Complete
<1>1. BackupInv => Complete
  BY DEF BackupInv
<1> QED
  BY <1>1, BackupAlways, PTL
-----------------------------------------------------------------------------
(* What is found under the final names.                                    *)

\* A signature that has lost its archive is older than a backup with both.
Replaced ==
    \A t \in Times :
        "sig" \in files[t] /\ "zip" \notin files[t] =>
            \E u \in Times : u > t /\ {"zip", "sig"} \subseteq files[u]

\* Since rotation ended with nothing in excess, no archive was added.
Rotated == result = "ok" => pc \in {"cleanup", "idle"} /\ Surplus = {}

LEMMA StepReplaced == BackupInv /\ Replaced /\ [BackupNext]_backup_vars => Replaced'
<1> SUFFICES ASSUME BackupInv, Replaced, [BackupNext]_backup_vars PROVE Replaced'
  OBVIOUS
<1> USE BoundAssumption
<1>1. now \in Nat /\ files \in [Times -> SUBSET Suffixes]
  BY DEF BackupInv, BackupTypeOK
<1>2. CASE RenameSig
  <2>1. now \in Times /\ "zip" \in files[now]
    BY <1>2 DEF RenameSig, Passes, BackupInv, BackupTypeOK, Progress, Working
  <2>2. files' = [files EXCEPT ![now] = (@ \ {"sig.tmp"}) \cup {"sig"}]
    BY <1>2 DEF RenameSig, Rename
  <2>3. "zip" \in files'[now]
    BY <1>1, <2>1, <2>2
  <2>4. \A u \in Times : /\ files[u] \cap {"zip", "sig"} \subseteq files'[u]
                         /\ u # now => files'[u] = files[u]
    BY <1>1, <2>2
  <2> QED
    BY <2>3, <2>4 DEF Replaced
<1>3. CASE RotateZip
  <2>1. PICK v \in Surplus : files' = [files EXCEPT ![v] = @ \ {"zip"}]
    BY <1>3 DEF RotateZip
  <2>2. v \in Times /\ v < now /\ now \in Times /\ {"zip", "sig"} \subseteq files[now]
    BY <1>3, SurplusIsOld DEF RotateZip, Passes, BackupInv, BackupTypeOK, Progress, Working
  <2>3. /\ {"zip", "sig"} \subseteq files'[now]
        /\ \A u \in Times : u # v => files'[u] = files[u]
        /\ "sig" \in files'[v] => "sig" \in files[v]
    BY <1>1, <2>1, <2>2
  <2> SUFFICES ASSUME NEW t \in Times, "sig" \in files'[t], "zip" \notin files'[t]
               PROVE  \E u \in Times : u > t /\ {"zip", "sig"} \subseteq files'[u]
    BY DEF Replaced
  <2>4. CASE t = v
    BY <2>2, <2>3, <2>4
  <2>5. CASE t # v
    <3>1. PICK u \in Times : u > t /\ {"zip", "sig"} \subseteq files[u]
      BY <2>3, <2>5 DEF Replaced
    <3>2. CASE u = v
      <4>1. now > t
        BY ONLY <1>1, <2>2, <3>1, <3>2, t \in Times, BoundAssumption DEF Times
      <4> QED
        BY <4>1, <2>2, <2>3
    <3>3. CASE u # v
      BY <2>3, <3>1, <3>3
    <3> QED
      BY <3>2, <3>3
  <2> QED
    BY <2>4, <2>5
<1>4. CASE RotateSig
  <2>1. victim \in Times /\ "zip" \notin files[victim]
    BY <1>4 DEF RotateSig, Passes, BackupInv, BackupTypeOK, Progress
  <2>2. /\ \A u \in Times : u # victim => files'[u] = files[u]
        /\ files'[victim] \subseteq files[victim]
    BY <1>1, <1>4, <2>1 DEF RotateSig
  <2> QED
    BY <2>1, <2>2 DEF Replaced
<1>5. CASE RenameZip
  <2>1. now \in Times /\ "sig" \notin files[now]
    BY <1>5 DEF RenameZip, Passes, BackupInv, BackupTypeOK, Progress, Working
  <2>2. files' = [files EXCEPT ![now] = (@ \ {"zip.tmp"}) \cup {"zip"}]
    BY <1>5 DEF RenameZip, Rename
  <2>3. "sig" \notin files'[now]
    BY <1>1, <2>1, <2>2
  <2>4. \A u \in Times : /\ files[u] \cap {"zip", "sig"} \subseteq files'[u]
                         /\ u # now => files'[u] = files[u]
    BY <1>1, <2>2
  <2> QED
    BY <2>3, <2>4 DEF Replaced
<1>6. CASE \A u \in Times : files'[u] \cap {"zip", "sig"} = files[u] \cap {"zip", "sig"}
  BY <1>6 DEF Replaced
<1>7. CreateCheckpoint \/ CreateZip \/ Sign \/ Cleanup =>
        \A u \in Times : files'[u] \cap {"zip", "sig"} = files[u] \cap {"zip", "sig"}
  BY <1>1 DEF CreateCheckpoint, CreateZip, Sign, Cleanup, AddFile
<1>8. StartNode \/ StopNode \/ HourlyBackup \/ BackupNow \/ Lock \/ FinishZip
      \/ RotateDone \/ Fail \/ FailEarly \/ Crash \/ UNCHANGED backup_vars => UNCHANGED files
  BY DEF StartNode, StopNode, HourlyBackup, BackupNow, Lock, FinishZip, RotateDone, Fail,
         FailEarly, Crash, backup_vars
<1> QED
  BY <1>2, <1>3, <1>4, <1>5, <1>6, <1>7, <1>8 DEF BackupNext, SecureBackupDb

LEMMA StepRotated == BackupInv /\ Rotated /\ [BackupNext]_backup_vars => Rotated'
<1> SUFFICES ASSUME BackupInv, Rotated, [BackupNext]_backup_vars, result' = "ok"
             PROVE  pc' \in {"cleanup", "idle"} /\ Surplus' = {}
  BY DEF Rotated
<1> USE BoundAssumption
<1>1. CASE RotateDone
  BY <1>1 DEF RotateDone, Passes, Surplus, Zips
<1>2. CASE Cleanup
  <2>1. result = "ok"
    BY <1>2 DEF Cleanup
  <2>2. files \in [Times -> SUBSET Suffixes] /\ now \in Nat
    BY DEF BackupInv, BackupTypeOK
  <2>3. Zips' = Zips
    BY <1>2, <2>2 DEF Cleanup, Zips
  <2> QED
    BY <1>2, <2>1, <2>3 DEF Cleanup, Passes, Rotated, Surplus
<1>3. CASE StartNode \/ StopNode \/ UNCHANGED backup_vars
  <2>1. result = "ok" /\ UNCHANGED files /\ pc' \in {pc, "idle"}
    BY <1>3 DEF StartNode, StopNode, backup_vars
  <2> QED
    BY <2>1 DEF Rotated, Surplus, Zips
<1>4. ~(HourlyBackup \/ BackupNow \/ Fail \/ FailEarly \/ Crash)
  BY DEF HourlyBackup, BackupNow, Fail, FailEarly, Crash
<1>5. ~(Lock \/ CreateCheckpoint \/ CreateZip \/ FinishZip \/ Sign \/ RenameZip
        \/ RenameSig \/ RotateZip \/ RotateSig)
  BY DEF Lock, CreateCheckpoint, CreateZip, FinishZip, Sign, RenameZip, RenameSig,
         RotateZip, RotateSig, Passes, Rotated
<1> QED
  BY <1>1, <1>2, <1>3, <1>4, <1>5 DEF BackupNext, SecureBackupDb

LEMMA LeastTime ==
    ASSUME NEW S \in SUBSET Nat, S # {}
    PROVE  \E m \in S : \A k \in S : m <= k
<1>1. PICK m \in S : \A k \in S : ~(<<k, m>> \in OpToRel(<, Nat))
  BY NatLessThanWellFounded, WFMin
<1>2. \A k \in S : ~(k < m)
  BY <1>1 DEF OpToRel
<1> QED
  BY <1>2

\* When nothing is in excess, the oldest archive has fewer than `keep' newer
\* ones beside it.
LEMMA NoSurplusIsFew ==
    ASSUME BackupInv, Surplus = {}
    PROVE  Cardinality(Zips) <= Keep
<1>1. IsFiniteSet(Zips) /\ Zips \subseteq Nat
  <2>1. IsFiniteSet(1 .. MaxTime)
    BY BoundAssumption, FS_Interval
  <2>2. Zips \in SUBSET (1 .. MaxTime)
    BY DEF Zips
  <2>3. IsFiniteSet(Zips)
    BY ONLY <2>1, <2>2, FS_Subset
  <2> QED
    BY <2>2, <2>3, BoundAssumption
<1>2. CASE Zips = {}
  BY <1>2, FS_EmptySet, KeepAssumption
<1>3. CASE Zips # {}
  <2>1. PICK m \in Zips : \A k \in Zips : m <= k
    BY <1>1, <1>3, LeastTime
  <2>2. {u \in Zips : u > m} = Zips \ {m}
    <3>1. \A u \in Zips : u > m <=> u # m
      BY <1>1, <2>1
    <3> QED
      BY ONLY <3>1
  <2>3. ~(Cardinality(Zips \ {m}) >= Keep)
    BY <2>1, <2>2 DEF Surplus
  <2>4. Cardinality(Zips \ {m}) = Cardinality(Zips) - 1
    BY <1>1, <2>1, FS_RemoveElement
  <2>5. Cardinality(Zips) \in Nat
    BY <1>1, FS_CardinalityType
  <2> QED
    BY <2>3, <2>4, <2>5, KeepAssumption
<1> QED
  BY <1>2, <1>3

\* What a restore finds is sound: complete archives, no signature without an
\* archive but of a replaced backup, and no more than `keep' after a success.
THEOREM ArchivesAlwaysSound == BackupSpec => []ArchivesSound
<1> DEFINE I == BackupInv /\ Replaced /\ Rotated
<1>1. BackupInit => I
  BY InitBackup DEF BackupInit, Replaced, Rotated
<1>2. I /\ [BackupNext]_backup_vars => I'
  BY StepBackup, StepReplaced, StepRotated
<1>3. I => ArchivesSound
  <2> SUFFICES ASSUME I PROVE ArchivesSound
    OBVIOUS
  <2>1. FinalNamesAreFinal
    BY DEF FinalNamesAreFinal, BackupInv, Complete, Replaced
  <2>2. AtMostKeep
    BY NoSurplusIsFew DEF AtMostKeep, Rotated
  <2> QED
    BY <2>1, <2>2 DEF ArchivesSound
<1> QED
  BY <1>1, <1>2, <1>3, PTL DEF BackupSpec

-----------------------------------------------------------------------------
(* The hourly task.                                                        *)

\* While the node runs, a backup has not come further than its lock, which
\* the task that called it holds.
TaskWaits == node => pc = "idle" \/ (pc = "lock" /\ holder = "task")

LEMMA StepTaskWaits == TaskWaits /\ [BackupNext]_backup_vars => TaskWaits'
<1> SUFFICES ASSUME TaskWaits, [BackupNext]_backup_vars, node'
             PROVE  pc' = "idle" \/ (pc' = "lock" /\ holder' = "task")
  BY DEF TaskWaits
<1>1. CASE StartNode
  BY <1>1 DEF StartNode, Idle
<1>2. CASE HourlyBackup
  BY <1>2 DEF HourlyBackup
<1>3. CASE UNCHANGED backup_vars
  BY <1>3 DEF backup_vars, TaskWaits
<1>4. ~(StopNode \/ BackupNow \/ Crash)
  BY DEF StopNode, BackupNow, Crash
<1>5. CASE FailEarly
  BY <1>5 DEF FailEarly, Passes
<1>6. CASE Fail
  BY <1>6 DEF Fail, Working, TaskWaits
<1>7. CASE SecureBackupDb
  BY <1>7 DEF SecureBackupDb, TaskWaits, Lock, CreateCheckpoint, CreateZip, FinishZip, Sign,
         RenameZip, RenameSig, RotateZip, RotateSig, RotateDone, Cleanup, Passes
<1> QED
  BY <1>1, <1>2, <1>3, <1>4, <1>5, <1>6, <1>7 DEF BackupNext

\* The hourly task never writes a file: secure_backup_db waits for the lock
\* that the task took before it called.
THEOREM NeverBackupWhileRunning == BackupSpec => NoBackupWhileRunning
<1> DEFINE A == node => files' = files
<1>1. BackupInit => TaskWaits
  BY DEF BackupInit, TaskWaits
<1>2. TaskWaits /\ [BackupNext]_backup_vars => [A]_backup_vars
  <2> SUFFICES ASSUME TaskWaits, BackupNext, node PROVE files' = files
    OBVIOUS
  <2> QED
    BY DEF TaskWaits, BackupNext, SecureBackupDb, StartNode, StopNode, HourlyBackup, BackupNow,
           Lock, CreateCheckpoint, CreateZip, FinishZip, Sign, RenameZip, RenameSig,
           RotateZip, RotateSig, RotateDone, Cleanup, Fail, FailEarly, Crash, Passes
<1> QED
  BY <1>1, <1>2, StepTaskWaits, PTL DEF BackupSpec, NoBackupWhileRunning
=============================================================================
