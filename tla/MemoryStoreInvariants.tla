----------------------- MODULE MemoryStoreInvariants ------------------------
(***************************************************************************)
(* Lemmas about MemoryStore: its type invariant, which goroutine and which *)
(* part of the collector refers to which swarm, what becomes of swarms     *)
(* that the collector dropped, and the counters.  Together they make IInv  *)
(* inductive.                                                              *)
(***************************************************************************)
EXTENDS MemoryStore, TLAPS

USE ZenonT(60)

\* An info hash and a family pick a shard, and the family can be told from it.
LEMMA ShardIndexType ==
    ASSUME NEW ih \in InfoHash, NEW v \in BOOLEAN
    PROVE  shardIndex(ih, v) \in Shard
<1>1. Prefix[ih] % ShardCount \in 0 .. ShardCount - 1
  BY SMTT(60), StoreAssumption
<1> QED BY SMTT(60), <1>1, StoreAssumption DEF shardIndex, Shard

LEMMA ShardIndexFamily ==
    ASSUME NEW ih \in InfoHash, NEW v \in BOOLEAN, NEW w \in BOOLEAN,
           shardIndex(ih, v) = shardIndex(ih, w)
    PROVE  v = w
<1>1. Prefix[ih] % ShardCount \in 0 .. ShardCount - 1
  BY SMTT(60), StoreAssumption
<1> QED BY SMTT(60), <1>1, StoreAssumption DEF shardIndex

LEMMA CounterType ==
    ASSUME NEW n \in Nat
    PROVE  Increment(n) \in Nat /\ Decrement(n) \in Nat
<1>1. Word \in Nat \ {0}
  BY WordAssumption
<1> QED BY SMTT(60), <1>1 DEF Increment, Decrement

LEMMA CounterStep ==
    ASSUME NEW n \in Nat, n < Word
    PROVE  /\ n + 1 < Word => Increment(n) = n + 1
           /\ n > 0 => Decrement(n) = n - 1
<1>1. Word \in Nat \ {0}
  BY WordAssumption
<1>2. ASSUME n + 1 < Word PROVE (n + 1) % Word = n + 1
  BY SMTT(60), <1>1, <1>2
<1>3. ASSUME n > 0 PROVE (n + Word - 1) % Word = n - 1
  BY SMTT(60), <1>1, <1>3
<1> QED BY <1>2, <1>3 DEF Increment, Decrement

LEMMA ThreadShard ==
    ASSUME TypeOK, NEW t \in Thread
    PROVE  /\ shard(t) \in Shard
           /\ call[t] \in CallType /\ call[t].ih \in InfoHash /\ call[t].p \in Peer
<1>1. call[t] \in CallType
  BY StoreAssumption DEF TypeOK
<1>2. call[t].ih \in InfoHash /\ call[t].p \in Peer /\ call[t].v6 \in BOOLEAN
  BY <1>1 DEF CallType
<1>3. Is6[call[t].p] \in BOOLEAN
  BY <1>2, StoreAssumption
<1> QED BY <1>1, <1>2, <1>3, ShardIndexType DEF shard

\* Updating a cell of a table keeps its type.
LEMMA Except2 ==
    ASSUME NEW A, NEW B, NEW D, NEW f \in [A -> [B -> D]], NEW a, NEW b, NEW d \in D
    PROVE  [f EXCEPT ![a][b] = d] \in [A -> [B -> D]]
OBVIOUS

\* f with d in the cell at a, b, c.
WithCell(f, a, b, c, d) == [f EXCEPT ![a][b][c] = d]

LEMMA WithCellType ==
    ASSUME TypeOK, NEW o, NEW k, NEW p, NEW d \in Int
    PROVE  WithCell(peers, o, k, p, d) \in [SwarmObj -> [Kind -> [Peer -> Int]]]
<1>1. peers \in [SwarmObj -> [Kind -> [Peer -> Int]]]
  BY DEF TypeOK
<1> QED BY <1>1 DEF WithCell

LEMMA WithCellAt ==
    ASSUME TypeOK, NEW o, NEW k, NEW p, NEW d,
           NEW x \in SwarmObj, NEW y \in Kind, NEW z \in Peer
    PROVE  WithCell(peers, o, k, p, d)[x][y][z] =
               IF x = o /\ y = k /\ z = p THEN d ELSE peers[x][y][z]
<1>1. peers \in [SwarmObj -> [Kind -> [Peer -> Int]]]
  BY DEF TypeOK
<1> QED BY SMTT(60), <1>1 DEF WithCell

LEMMA DelPeerType ==
    ASSUME TypeOK, NEW s \in Shard, NEW o, NEW k \in Kind, NEW p \in Peer,
           DelPeer(s, o, k, p)
    PROVE  /\ peers' \in [SwarmObj -> [Kind -> [Peer -> Int]]]
           /\ numPeers' \in [Shard -> [Kind -> Nat]]
<1>1. Decrement(numPeers[s][k]) \in Nat
  BY SMTT(60), CounterType DEF TypeOK
<1>2. [numPeers EXCEPT ![s][k] = Decrement(numPeers[s][k])] \in [Shard -> [Kind -> Nat]]
  BY SMTT(60), <1>1, Except2 DEF TypeOK
<1>3. WithCell(peers, o, k, p, Absent) \in [SwarmObj -> [Kind -> [Peer -> Int]]]
  BY SMTT(60), WithCellType DEF Absent
<1> QED BY <1>2, <1>3 DEF TypeOK, DelPeer, WithCell

LEMMA KindOfType == ASSUME NEW op PROVE kindOf(op) \in Kind
BY DEF kindOf, Kind

LEMMA AfterLookupType ==
    ASSUME NEW c \in CallType
    PROVE  AfterLookup(c.op) \in PCs
BY DEF CallType, WriteOps, AfterLookup, PCs

\* Where a step of Next comes from.
LEMMA NextCases ==
    ASSUME NEW P, [Next]_vars,
           Tick => P,
           \A t \in Thread, c \in Call : Begin(t, c) => P,
           \A t \in Thread : Lookup(t) => P,
           \A t \in Thread : Create(t) => P,
           \A t \in Thread : Remove(t) => P,
           \A t \in Thread : Unlist(t) => P,
           \A t \in Thread : Check(t) => P,
           \A t \in Thread : Set(t) => P,
           \A t \in Thread : Keys(t) => P,
           GCFire => P, GCExit => P, GCShard => P, GCNext => P,
           GCShardDone => P, GCScan => P, GCPurge => P, GCPurged => P,
           GCLen => P, GCDrop => P, Close => P, CloseReturn => P,
           UNCHANGED vars => P
    PROVE  P
BY DEF Next, ThreadStep, GCStep

USE DEF threadVars, storeVars, gcVars, lifeVars, historyVars

\* The type invariant is preserved by every step.
LEMMA TypeStep == TypeOK /\ [Next]_vars => TypeOK'
<1> SUFFICES ASSUME TypeOK, [Next]_vars PROVE TypeOK'
  OBVIOUS
<1>1. Tick => TypeOK'
  BY SMTT(60) DEF Tick, TypeOK
<1>2. ASSUME NEW t \in Thread, NEW c \in Call, Begin(t, c) PROVE TypeOK'
  <2>1. CASE closed
    BY SMTT(60), <1>2, <2>1 DEF Begin, TypeOK
  <2>2. CASE ~closed
    <3>1. pc' \in [Thread -> PCs] /\ call' \in [Thread -> Call]
      BY <1>2, <2>2 DEF Begin, TypeOK, PCs
    <3>2. found' \in [Thread -> SUBSET (Kind \X Peer)]
      BY <1>2, <2>2 DEF Begin, TypeOK
    <3>3. ret' \in [Thread -> {"nil", "ErrResourceDoesNotExist"}]
      BY <1>2, <2>2 DEF Begin, TypeOK
    <3> QED BY SMTT(60), <1>2, <2>2, <3>1, <3>2, <3>3 DEF Begin, TypeOK
  <2> QED BY <2>1, <2>2
<1>3. ASSUME NEW t \in Thread, Lookup(t) PROVE TypeOK'
  <2>1. swarms[shard(t)][call[t].ih] \in SwarmObj \cup {NoSwarm}
    BY SMTT(60), ThreadShard DEF TypeOK
  <2>2. AfterLookup(call[t].op) \in PCs
    BY AfterLookupType, ThreadShard
  <2>3. pc' \in [Thread -> PCs]
    BY <1>3, <2>2 DEF Lookup, TypeOK, PCs
  <2>4. obj' \in [Thread -> SwarmObj \cup {NoSwarm}]
    BY <1>3, <2>1 DEF Lookup, TypeOK
  <2>5. ret' \in [Thread -> {"nil", "ErrResourceDoesNotExist"}]
    BY <1>3 DEF Lookup, TypeOK
  <2> QED BY <1>3, <2>3, <2>4, <2>5 DEF Lookup, TypeOK
<1>4. ASSUME NEW t \in Thread, Create(t) PROVE TypeOK'
  <2>1. swarms[shard(t)][call[t].ih] \in SwarmObj \cup {NoSwarm}
    BY SMTT(60), ThreadShard DEF TypeOK
  <2>2. pc' \in [Thread -> PCs]
    BY <1>4, AfterLookupType, ThreadShard DEF Create, TypeOK
  <2>3. CASE swarms[shard(t)][call[t].ih] # NoSwarm
    BY <1>4, <2>1, <2>2, <2>3 DEF Create, TypeOK
  <2>4. CASE swarms[shard(t)][call[t].ih] = NoSwarm
    <3>1. PICK o \in SwarmObj :
             /\ swarms' = [swarms EXCEPT ![shard(t)][call[t].ih] = o]
             /\ peers' = [peers EXCEPT ![o] = NoPeers]
             /\ obj' = [obj EXCEPT ![t] = o]
      BY <1>4, <2>4 DEF Create
    <3>2. swarms' \in [Shard -> [InfoHash -> SwarmObj \cup {NoSwarm}]]
      BY <3>1, Except2 DEF TypeOK
    <3>3. NoPeers \in [Kind -> [Peer -> Int]]
      BY SMTT(60) DEF NoPeers, Absent
    <3>4. peers' \in [SwarmObj -> [Kind -> [Peer -> Int]]]
      BY <3>1, <3>3 DEF TypeOK
    <3> QED BY <1>4, <2>2, <3>1, <3>2, <3>4 DEF Create, TypeOK
  <2> QED BY <2>3, <2>4
<1>5. ASSUME NEW t \in Thread, Remove(t) PROVE TypeOK'
  <2>1. /\ peers' \in [SwarmObj -> [Kind -> [Peer -> Int]]]
        /\ numPeers' \in [Shard -> [Kind -> Nat]]
    BY <1>5, DelPeerType, ThreadShard, KindOfType DEF Remove
  <2> QED BY <1>5, <2>1 DEF Remove, TypeOK, PCs
<1>6. ASSUME NEW t \in Thread, Unlist(t) PROVE TypeOK'
  <2>1. /\ peers' \in [SwarmObj -> [Kind -> [Peer -> Int]]]
        /\ numPeers' \in [Shard -> [Kind -> Nat]]
    <3>1. "leechers" \in Kind
      BY DEF Kind
    <3> QED BY <1>6, <3>1, DelPeerType, ThreadShard DEF Unlist
  <2> QED BY <1>6, <2>1 DEF Unlist, TypeOK, PCs
<1>7. ASSUME NEW t \in Thread, Check(t) PROVE TypeOK'
  <2> DEFINE k == kindOf(call[t].op)
  <2>1. Increment(numPeers[shard(t)][k]) \in Nat
    BY SMTT(60), ThreadShard, KindOfType, CounterType DEF TypeOK
  <2>2. numPeers' \in [Shard -> [Kind -> Nat]]
    BY <1>7, <2>1, Except2 DEF Check, TypeOK
  <2> QED BY <1>7, <2>2 DEF Check, TypeOK, PCs
<1>8. ASSUME NEW t \in Thread, Set(t) PROVE TypeOK'
  <2> DEFINE k == kindOf(call[t].op)
  <2>1. PICK m \in since[t] .. now : peers' = WithCell(peers, obj[t], k, call[t].p, m)
    BY <1>8 DEF Set, WithCell
  <2>2. m \in Int
    BY SMTT(60) DEF TypeOK
  <2>3. peers' \in [SwarmObj -> [Kind -> [Peer -> Int]]]
    BY <2>1, <2>2, WithCellType
  <2>4. raced' \in SUBSET (Shard \X Kind)
    <3>1. raced' \in {raced, raced \cup {<<shard(t), k>>}}
      BY <1>8 DEF Set
    <3> QED BY SMTT(60), <3>1, ThreadShard, KindOfType DEF TypeOK
  <2> QED BY <1>8, <2>3, <2>4 DEF Set, TypeOK, PCs
<1>9. ASSUME NEW t \in Thread, Keys(t) PROVE TypeOK'
  <2> DEFINE k == IF call[t].forSeeder \/ pc[t] = "keysLeechers" THEN "leechers"
                                                               ELSE "seeders"
  <2>1. PICK T \in Taken(obj[t], k, call[t].numWant - Cardinality(found[t])) :
           found' = [found EXCEPT ![t] = @ \cup ({k} \X T)]
    BY <1>9 DEF Keys
  <2>2. T \subseteq Peer /\ k \in Kind
    BY DEF Taken, Held, Kind
  <2>3. found' \in [Thread -> SUBSET (Kind \X Peer)]
    BY SMTT(60), <2>1, <2>2 DEF TypeOK
  <2>4. pc' \in [Thread -> PCs] /\ obj' \in [Thread -> SwarmObj \cup {NoSwarm}]
    BY <1>9 DEF Keys, TypeOK, PCs
  <2> QED BY <1>9, <2>3, <2>4 DEF Keys, TypeOK
<1>10. GCFire => TypeOK'
  <2>1. 0 \in Shard
    BY SMTT(60), StoreAssumption DEF Shard
  <2>2. 0 \in 0 .. 2 * ShardCount /\ now - PeerLifeTime \in Int
    BY SMTT(60), StoreAssumption DEF TypeOK
  <2> QED BY <2>1, <2>2 DEF GCFire, TypeOK, GCPCs
<1>11. GCExit => TypeOK'
  BY DEF GCExit, TypeOK, GCPCs
<1>12. GCShard => TypeOK'
  BY DEF GCShard, TypeOK, GCPCs
<1>13. GCNext => TypeOK'
  <2> SUFFICES ASSUME GCNext PROVE TypeOK'
    OBVIOUS
  <2>1. gcShard \in Shard
    BY DEF GCNext, TypeOK, GCPCs
  <2>2. PICK ih \in gcTodo : /\ gcTodo' = gcTodo \ {ih}
                            /\ IF swarms[gcShard][ih] = NoSwarm
                               THEN UNCHANGED <<gcPc, gcIh, gcObj, gcKind>>
                               ELSE /\ gcPc' = "scan"
                                    /\ gcIh' = ih
                                    /\ gcObj' = swarms[gcShard][ih]
                                    /\ gcKind' = "leechers"
    BY DEF GCNext
  <2>3. ih \in InfoHash /\ swarms[gcShard][ih] \in SwarmObj \cup {NoSwarm}
    BY SMTT(60), <2>1 DEF TypeOK
  <2>4. "leechers" \in Kind
    BY DEF Kind
  <2> QED BY <2>1, <2>2, <2>3, <2>4 DEF GCNext, TypeOK, GCPCs
<1>14. GCShardDone => TypeOK'
  <2> SUFFICES ASSUME GCShardDone PROVE TypeOK'
    OBVIOUS
  <2>1. gcShard \in Shard
    BY DEF GCShardDone, TypeOK, GCPCs
  <2>2. gcShard + 1 \in 0 .. 2 * ShardCount
    BY SMTT(60), <2>1, StoreAssumption DEF Shard
  <2> QED BY <2>2 DEF GCShardDone, TypeOK, GCPCs
<1>15. GCScan => TypeOK'
  BY DEF GCScan, TypeOK, GCPCs, Held
<1>16. GCPurge => TypeOK'
  <2> SUFFICES ASSUME GCPurge PROVE TypeOK'
    OBVIOUS
  <2>1. gcShard \in Shard
    BY DEF GCPurge, TypeOK, GCPCs
  <2>2. PICK p \in gcDel : DelPeer(gcShard, gcObj, gcKind, p) /\ gcDel' = gcDel \ {p}
    BY DEF GCPurge
  <2>3. /\ peers' \in [SwarmObj -> [Kind -> [Peer -> Int]]]
        /\ numPeers' \in [Shard -> [Kind -> Nat]]
    BY <2>1, <2>2, DelPeerType DEF TypeOK
  <2> QED BY <2>1, <2>2, <2>3 DEF GCPurge, TypeOK
<1>17. ASSUME GCPurged PROVE TypeOK'
  <2>1. gcKind' \in Kind
    BY <1>17 DEF GCPurged, Kind
  <2>2. gcPc' \in GCPCs /\ gcShard \in Shard /\ UNCHANGED gcShard
    BY <1>17 DEF GCPurged, TypeOK, GCPCs
  <2> QED BY <1>17, <2>1, <2>2 DEF GCPurged, TypeOK
<1>18. ASSUME GCLen PROVE TypeOK'
  <2>1. gcKind' \in Kind /\ gcObj' \in SwarmObj \cup {NoSwarm}
    BY <1>18 DEF GCLen, TypeOK, Kind
  <2>2. gcPc' \in GCPCs /\ gcShard \in Shard /\ UNCHANGED gcShard
    BY <1>18 DEF GCLen, TypeOK, GCPCs
  <2> QED BY <1>18, <2>1, <2>2 DEF GCLen, TypeOK
<1>19. GCDrop => TypeOK'
  <2> SUFFICES ASSUME GCDrop PROVE TypeOK'
    OBVIOUS
  <2>1. gcShard \in Shard
    BY DEF GCDrop, TypeOK, GCPCs
  <2>2. swarms' \in [Shard -> [InfoHash -> SwarmObj \cup {NoSwarm}]]
    BY Except2 DEF GCDrop, TypeOK
  <2> QED BY SMTT(60), <2>1, <2>2 DEF GCDrop, TypeOK, GCPCs
<1>20. Close => TypeOK'
  BY DEF Close, TypeOK
<1>21. CloseReturn => TypeOK'
  BY DEF CloseReturn, TypeOK
<1>22. UNCHANGED vars => TypeOK'
  BY DEF vars, TypeOK
<1> QED BY <1>1, <1>2, <1>3, <1>4, <1>5, <1>6, <1>7, <1>8, <1>9, <1>10, <1>11,
           <1>12, <1>13, <1>14, <1>15, <1>16, <1>17, <1>18, <1>19, <1>20, <1>21, <1>22, NextCases

LEMMA InitType ==
    ASSUME Init PROVE TypeOK
<1>1. peers \in [SwarmObj -> [Kind -> [Peer -> Int]]]
  BY SMTT(60) DEF Init, NoPeers, Absent
<1>2. found \in [Thread -> SUBSET (Kind \X Peer)]
  BY DEF Init
<1>3. gcKind \in Kind
  BY DEF Init, Kind
<1>4. gcShard \in 0 .. 2 * ShardCount
  BY SMTT(60), StoreAssumption DEF Init
<1>5. swarms \in [Shard -> [InfoHash -> SwarmObj \cup {NoSwarm}]]
  BY DEF Init
<1>6. numPeers \in [Shard -> [Kind -> Nat]] /\ call \in [Thread -> Call]
  BY DEF Init
<1>7. /\ pc \in [Thread -> PCs] /\ obj \in [Thread -> SwarmObj \cup {NoSwarm}]
      /\ existed \in [Thread -> BOOLEAN] /\ since \in [Thread -> Nat]
      /\ ret \in [Thread -> {"nil", "ErrResourceDoesNotExist"}]
  BY DEF Init, PCs
<1>8. /\ gcPc \in GCPCs /\ gcPc \notin GCPCs \ {"select", "shard", "exited"}
      /\ gcArmed \in BOOLEAN /\ gcCutoff \in Int
  BY SMTT(60) DEF Init, GCPCs
<1>9. /\ now \in Nat /\ begun \in Nat
      /\ gcTodo \in SUBSET InfoHash /\ gcIh \in InfoHash /\ gcDel \in SUBSET Peer
      /\ gcObj \in SwarmObj \cup {NoSwarm}
      /\ closed \in BOOLEAN /\ closeReturned \in BOOLEAN /\ panicked \in BOOLEAN
  BY DEF Init
<1>10. raced \in SUBSET (Shard \X Kind) /\ dropped \in SUBSET (Shard \X InfoHash)
  BY DEF Init
<1> QED BY <1>1, <1>2, <1>3, <1>4, <1>5, <1>6, <1>7, <1>8, <1>9, <1>10 DEF TypeOK

\* Every variable keeps the type the code declares for it; in particular the
\* collector's shard index stays in range while it indexes ps.shards.
THEOREM TypeCorrect == Spec => []TypeOK
BY InitType, TypeStep, PTL DEF Spec

----------------------------------------------------------------------------
(* Who refers to which swarm.                                              *)

LEMMA ShardFrame ==
    ASSUME NEW t, UNCHANGED call
    PROVE  shard(t)' = shard(t)
BY DEF shard, shardIndex

\* Steps that change no map and at most let go of a swarm.
LEMMA OwnedFrame ==
    ASSUME Owned, OneSwarm, UNCHANGED <<swarms, call>>, dropped \subseteq dropped',
           \A t \in Thread : obj'[t] = obj[t] \/ obj'[t] = NoSwarm
    PROVE  Owned' /\ OneSwarm'
<1>1. \A t \in Thread : shard(t)' = shard(t)
  BY ShardFrame
<1>2. Owned'
  BY SMTT(60), <1>1 DEF Owned
<1>3. OneSwarm'
  BY <1>1 DEF OneSwarm
<1> QED BY <1>2, <1>3

LEMMA BeginOwned ==
    ASSUME TypeOK, Holders, Owned, OneSwarm,
           NEW t \in Thread, NEW c \in Call, Begin(t, c)
    PROVE  Owned' /\ OneSwarm'
<1>1. CASE closed
  BY <1>1, OwnedFrame DEF Begin
<1>2. CASE ~closed
  <2>1. obj[t] = NoSwarm
    BY DEF Begin, Holders, Holding
  <2>2. \A u \in Thread : u # t => call'[u] = call[u] /\ shard(u)' = shard(u)
    BY <1>2 DEF Begin, TypeOK, shard, shardIndex
  <2>3. UNCHANGED <<swarms, obj, dropped>>
    BY <1>2 DEF Begin
  <2>4. Owned'
    BY SMTT(60), <2>1, <2>2, <2>3 DEF Owned
  <2>5. OneSwarm'
    BY <2>1, <2>2, <2>3 DEF OneSwarm
  <2> QED BY <2>4, <2>5
<1> QED BY <1>1, <1>2

LEMMA LookupOwned ==
    ASSUME TypeOK, Owned, OneSwarm, NEW t \in Thread, Lookup(t)
    PROVE  Owned' /\ OneSwarm'
<1> DEFINE o == swarms[shard(t)][call[t].ih]
<1>1. CASE o = NoSwarm
  BY <1>1, OwnedFrame DEF Lookup
<1>2. CASE o # NoSwarm
  <2>1. \A u \in Thread : shard(u)' = shard(u)
    BY ShardFrame DEF Lookup
  <2>2. obj' = [obj EXCEPT ![t] = o] /\ UNCHANGED <<swarms, call, dropped>>
    BY <1>2 DEF Lookup
  <2>3. shard(t) \in Shard /\ call[t].ih \in InfoHash
    BY ThreadShard
  <2>4. obj'[t] = o /\ \A u \in Thread : u # t => obj'[u] = obj[u]
    BY <2>2 DEF TypeOK
  <2> HIDE DEF o
  <2>5. o = swarms[shard(t)][call[t].ih]
    BY DEF o
  <2>6. Owned'
    BY SMTT(60), <1>2, <2>1, <2>2, <2>3, <2>4, <2>5 DEF Owned
  <2>7. OneSwarm'
    BY <2>1, <2>2, <2>4, <2>5 DEF OneSwarm
  <2> QED BY <2>6, <2>7
<1> QED BY <1>1, <1>2

LEMMA CreateOwned ==
    ASSUME TypeOK, Holders, Owned, OneSwarm, NEW t \in Thread, Create(t)
    PROVE  Owned' /\ OneSwarm'
<1> DEFINE s == shard(t)
           ih == call[t].ih
<1>1. \A u \in Thread : shard(u)' = shard(u)
  BY ShardFrame DEF Create
<1>2. s \in Shard /\ ih \in InfoHash
  BY ThreadShard
<1>3. UNCHANGED <<call, dropped>>
  BY DEF Create
<1>4. CASE swarms[s][ih] # NoSwarm
  <2>1. UNCHANGED swarms /\ obj'[t] = swarms[s][ih]
        /\ \A u \in Thread : u # t => obj'[u] = obj[u]
    BY <1>4 DEF Create, TypeOK
  <2>2. Owned'
    BY SMTT(60), <1>1, <1>2, <1>3, <2>1 DEF Owned
  <2>3. OneSwarm'
    BY <1>1, <1>3, <2>1 DEF OneSwarm
  <2> QED BY <2>2, <2>3
<1>5. CASE swarms[s][ih] = NoSwarm
  <2>1. PICK o \in SwarmObj : /\ Fresh(o)
                              /\ swarms' = [swarms EXCEPT ![s][ih] = o]
                              /\ obj' = [obj EXCEPT ![t] = o]
    BY <1>5 DEF Create
  <2>2. obj'[t] = o /\ \A u \in Thread : u # t => obj'[u] = obj[u]
    BY <2>1 DEF TypeOK
  <2>3. \A s2 \in Shard, i2 \in InfoHash :
           swarms'[s2][i2] = IF s2 = s /\ i2 = ih THEN o ELSE swarms[s2][i2]
    BY <1>2, <2>1 DEF TypeOK
  <2>4. /\ \A s2 \in Shard, i2 \in InfoHash : swarms[s2][i2] # o
        /\ \A u \in Thread : obj[u] # o
    BY <2>1 DEF Fresh
  <2> HIDE DEF s, ih
  <2>5. s = shard(t) /\ ih = call[t].ih
    BY DEF s, ih
  <2>6. Owned'
    BY SMTT(60), <1>1, <1>2, <1>3, <2>2, <2>3, <2>4, <2>5 DEF Owned
  <2>7. OneSwarm'
    <3>1. \A u \in Thread : shard(u) \in Shard /\ call[u].ih \in InfoHash
      BY ThreadShard
    <3>2. \A u \in Thread : (obj[u] # NoSwarm /\ shard(u) = s /\ call[u].ih = ih) =>
             <<s, ih>> \in dropped
      BY <1>5, <2>5 DEF OneSwarm
    <3> QED BY SMTT(60), <1>1, <1>3, <2>2, <2>3, <2>5, <3>1, <3>2 DEF OneSwarm
  <2> QED BY <2>6, <2>7
<1> QED BY <1>4, <1>5

LEMMA DropOwned ==
    ASSUME TypeOK, Owned, OneSwarm, Collector, GCDrop
    PROVE  Owned' /\ OneSwarm'
<1>1. gcShard \in Shard /\ gcIh \in InfoHash
  BY DEF GCDrop, TypeOK, GCPCs
<1>2. \A s \in Shard, i \in InfoHash :
         swarms'[s][i] = IF s = gcShard /\ i = gcIh THEN NoSwarm ELSE swarms[s][i]
  BY <1>1 DEF GCDrop, TypeOK
<1>3. UNCHANGED <<obj, call>> /\ dropped' = dropped \cup {<<gcShard, gcIh>>}
  BY DEF GCDrop
<1>4. \A t \in Thread : /\ shard(t)' = shard(t) /\ shard(t) \in Shard
                        /\ call[t].ih \in InfoHash
  BY <1>3, ShardFrame, ThreadShard
<1>5. Owned'
  BY SMTT(60), <1>2, <1>3, <1>4 DEF Owned
<1>6. OneSwarm'
  BY SMTT(60), <1>2, <1>3, <1>4 DEF OneSwarm
<1> QED BY <1>5, <1>6

\* The collector's own bookkeeping, and what the others may do to it.
LEMMA CollectorFrame ==
    ASSUME TypeOK, Collector, GCSnapshotLive, UNCHANGED gcVars,
           \A s \in Shard, ih \in InfoHash :
               swarms[s][ih] # NoSwarm => swarms'[s][ih] = swarms[s][ih]
    PROVE  Collector' /\ GCSnapshotLive'
BY DEF Collector, GCSnapshotLive, TypeOK, GCPCs

LEMMA CreateKeeps ==
    ASSUME TypeOK, NEW t \in Thread, Create(t),
           NEW s \in Shard, NEW ih \in InfoHash, swarms[s][ih] # NoSwarm
    PROVE  swarms'[s][ih] = swarms[s][ih]
<1>1. shard(t) \in Shard /\ call[t].ih \in InfoHash
  BY ThreadShard
<1> QED BY SMTT(60), <1>1 DEF Create, TypeOK

LEMMA HoldersStep ==
    ASSUME TypeOK, Holders, [Next]_vars
    PROVE  Holders'
<1>1. Tick => Holders'
  BY DEF Tick, Holders
<1>2. \A t \in Thread, c \in Call : Begin(t, c) => Holders'
  BY SMTT(60) DEF Begin, Holders, Holding, TypeOK
<1>3. ASSUME NEW t \in Thread, Lookup(t) PROVE Holders'
  <2>1. AfterLookup(call[t].op) \in Holding
    BY ThreadShard DEF CallType, WriteOps, AfterLookup, Holding
  <2> QED BY SMTT(60), <1>3, <2>1 DEF Lookup, Holders, Holding, TypeOK
<1>4. ASSUME NEW t \in Thread, Create(t) PROVE Holders'
  <2>1. AfterLookup(call[t].op) \in Holding
    BY ThreadShard DEF CallType, WriteOps, AfterLookup, Holding
  <2>2. obj'[t] # NoSwarm /\ \A u \in Thread : u # t => obj'[u] = obj[u]
    BY SMTT(60), <1>4, StoreAssumption DEF Create, TypeOK
  <2> QED BY <1>4, <2>1, <2>2 DEF Create, Holders, TypeOK
<1>5. \A t \in Thread : Remove(t) => Holders'
  BY SMTT(60) DEF Remove, Holders, Holding, TypeOK
<1>6. \A t \in Thread : Unlist(t) => Holders'
  BY DEF Unlist, Holders, Holding, TypeOK
<1>7. \A t \in Thread : Check(t) => Holders'
  BY DEF Check, Holders, Holding, TypeOK
<1>8. ASSUME NEW t \in Thread, Set(t) PROVE Holders'
  <2>1. /\ pc' = [pc EXCEPT ![t] = "idle"] /\ obj' = [obj EXCEPT ![t] = NoSwarm]
    BY <1>8 DEF Set
  <2> QED BY <2>1 DEF Holders, Holding, TypeOK
<1>9. ASSUME NEW t \in Thread, Keys(t) PROVE Holders'
  <2>1. \/ pc' = [pc EXCEPT ![t] = "keysLeechers"] /\ UNCHANGED obj
        \/ pc' = [pc EXCEPT ![t] = "idle"] /\ obj' = [obj EXCEPT ![t] = NoSwarm]
    BY <1>9 DEF Keys
  <2>2. pc[t] \in Holding
    BY <1>9 DEF Keys, Holding
  <2> QED BY <2>1, <2>2 DEF Holders, Holding, TypeOK
<1>10. GCStep => UNCHANGED <<pc, obj>>
  BY DEF GCStep, GCFire, GCExit, GCShard, GCNext, GCShardDone, GCScan, GCPurge,
         GCPurged, GCLen, GCDrop
<1>11. GCStep => Holders'
  BY <1>10 DEF Holders
<1>12. (Close \/ CloseReturn \/ UNCHANGED vars) => Holders'
  BY DEF Close, CloseReturn, vars, Holders
<1> QED BY <1>1, <1>2, <1>3, <1>4, <1>5, <1>6, <1>7, <1>8, <1>9, <1>11, <1>12
        DEF Next, ThreadStep

LEMMA CollectorStep ==
    ASSUME TypeOK, Collector, GCSnapshotLive, [Next]_vars
    PROVE  Collector' /\ GCSnapshotLive'
<1> DEFINE Good == Collector' /\ GCSnapshotLive'
<1>1. (Tick \/ Close \/ CloseReturn \/ UNCHANGED vars) => Good
  BY CollectorFrame DEF Tick, Close, CloseReturn, vars
<1>2. \A t \in Thread, c \in Call : Begin(t, c) => Good
  BY CollectorFrame DEF Begin
<1>3. ASSUME NEW t \in Thread, ThreadStep(t) PROVE Good
  <2>1. Create(t) => Good
    BY CreateKeeps, CollectorFrame DEF Create
  <2>2. (Lookup(t) \/ Remove(t) \/ Unlist(t) \/ Check(t) \/ Set(t) \/ Keys(t))
           => UNCHANGED <<gcVars, swarms>>
    BY DEF Lookup, Remove, Unlist, Check, Set, Keys
  <2> QED BY <1>3, <2>1, <2>2, CollectorFrame DEF ThreadStep
<1>4. GCFire => Good
  BY DEF GCFire, Collector, GCSnapshotLive
<1>5. GCExit => Good
  BY DEF GCExit, Collector, GCSnapshotLive
<1>6. GCShard => Good
  BY DEF GCShard, Collector, GCSnapshotLive, TypeOK
<1>7. GCNext => Good
  <2> SUFFICES ASSUME GCNext PROVE Good
    OBVIOUS
  <2>1. PICK ih \in gcTodo : /\ gcTodo' = gcTodo \ {ih}
                            /\ IF swarms[gcShard][ih] = NoSwarm
                               THEN UNCHANGED <<gcPc, gcIh, gcObj, gcKind>>
                               ELSE /\ gcPc' = "scan"
                                    /\ gcIh' = ih
                                    /\ gcObj' = swarms[gcShard][ih]
                                    /\ gcKind' = "leechers"
    BY DEF GCNext
  <2>2. swarms[gcShard][ih] # NoSwarm
    BY DEF GCNext, GCSnapshotLive, GCPCs
  <2> QED BY <2>1, <2>2 DEF GCNext, Collector, GCSnapshotLive, GCPCs
<1>8. GCShardDone => Good
  BY DEF GCShardDone, Collector, GCSnapshotLive
<1>9. (GCScan \/ GCPurge) => Good
  BY DEF GCScan, GCPurge, Collector, GCSnapshotLive, GCPCs
<1>10. GCPurged => Good
  BY DEF GCPurged, Collector, GCSnapshotLive, GCPCs
<1>11. GCLen => Good
  BY DEF GCLen, Collector, GCSnapshotLive, GCPCs
<1>12. GCDrop => Good
  BY SMTT(60) DEF GCDrop, Collector, GCSnapshotLive, GCPCs, TypeOK
<1> QED BY <1>1, <1>2, <1>3, <1>4, <1>5, <1>6, <1>7, <1>8, <1>9, <1>10, <1>11,
           <1>12 DEF Next, GCStep

LEMMA OwnedStep ==
    ASSUME TypeOK, Holders, Owned, OneSwarm, Collector, [Next]_vars
    PROVE  Owned' /\ OneSwarm'
<1>1. ASSUME NEW t \in Thread, ThreadStep(t) PROVE Owned' /\ OneSwarm'
  <2>1. (Remove(t) \/ Unlist(t) \/ Check(t) \/ Set(t) \/ Keys(t)) =>
           /\ UNCHANGED <<swarms, call, dropped>>
           /\ \A u \in Thread : obj'[u] = obj[u] \/ obj'[u] = NoSwarm
    BY DEF Remove, Unlist, Check, Set, Keys, TypeOK
  <2> QED BY <1>1, <2>1, OwnedFrame, LookupOwned, CreateOwned DEF ThreadStep
<1>2. GCStep => Owned' /\ OneSwarm'
  <2>1. GCStep => GCDrop \/ UNCHANGED <<swarms, call, obj, dropped>>
    BY DEF GCStep, GCFire, GCExit, GCShard, GCNext, GCShardDone, GCScan, GCPurge,
           GCPurged, GCLen
  <2> QED BY <2>1, OwnedFrame, DropOwned
<1>3. (Tick \/ Close \/ CloseReturn \/ UNCHANGED vars) => Owned' /\ OneSwarm'
  BY OwnedFrame DEF Tick, Close, CloseReturn, vars
<1> QED BY <1>1, <1>2, <1>3, BeginOwned DEF Next

----------------------------------------------------------------------------
(* Swarms that the collector dropped while a goroutine held them.          *)

\* Steps that only take peers out of swarms, or do nothing to them.
LEMMA OrphansFrame ==
    ASSUME TypeOK, Orphans, UNCHANGED <<swarms, call>>, raced \subseteq raced',
           \A t \in Thread : obj'[t] = obj[t] \/ obj'[t] = NoSwarm,
           \A o \in SwarmObj, k \in Kind, q \in Peer :
               peers[o][k][q] = Absent => peers'[o][k][q] = Absent
    PROVE  Orphans'
<1>1. \A t \in Thread : shard(t)' = shard(t) /\ obj[t] \in SwarmObj \cup {NoSwarm}
  BY ShardFrame DEF TypeOK
<1>2. ASSUME NEW o \in SwarmObj, NEW k \in Kind, Held(o, k) = {}
      PROVE  {q \in Peer : peers'[o][k][q] # Absent} = {}
  BY <1>2 DEF Held
<1>3. ASSUME NEW t \in Thread, NEW k \in Kind, obj'[t] # NoSwarm
      PROVE  \/ swarms'[shard(t)'][call'[t].ih] = obj'[t] \/ <<shard(t)', k>> \in raced'
             \/ {q \in Peer : peers'[obj'[t]][k][q] # Absent} = {}
  <2>1. obj'[t] = obj[t] /\ obj[t] \in SwarmObj /\ obj[t] # NoSwarm
    BY <1>1, <1>3
  <2>2. \/ swarms[shard(t)][call[t].ih] = obj[t] \/ <<shard(t), k>> \in raced
        \/ Held(obj[t], k) = {}
    BY <2>1 DEF Orphans
  <2> QED BY SMTT(60), <1>1, <1>2, <2>1, <2>2
<1> QED BY <1>3 DEF Orphans, Held

LEMMA DelPeerKeepsAbsent ==
    ASSUME TypeOK, NEW s, NEW o1, NEW k1, NEW p1, DelPeer(s, o1, k1, p1)
    PROVE  \A o \in SwarmObj, k \in Kind, q \in Peer :
               peers[o][k][q] = Absent => peers'[o][k][q] = Absent
<1>1. CASE UNCHANGED peers
  BY <1>1
<1>2. CASE peers' = WithCell(peers, o1, k1, p1, Absent)
  BY SMTT(60), <1>2, WithCellAt
<1> QED BY <1>1, <1>2 DEF DelPeer, WithCell

LEMMA BeginOrphans ==
    ASSUME TypeOK, Holders, Orphans, NEW t \in Thread, NEW c \in Call, Begin(t, c)
    PROVE  Orphans'
<1>1. obj[t] = NoSwarm /\ UNCHANGED <<swarms, peers, obj, raced>>
  BY DEF Begin, Holders, Holding
<1>2. \A u \in Thread : u # t => call'[u] = call[u] /\ shard(u)' = shard(u)
  BY SMTT(60) DEF Begin, TypeOK, shard, shardIndex
<1> QED BY SMTT(60), <1>1, <1>2 DEF Orphans, Held

LEMMA LookupOrphans ==
    ASSUME TypeOK, Orphans, NEW t \in Thread, Lookup(t)
    PROVE  Orphans'
<1>1. UNCHANGED <<swarms, peers, call, raced>>
  BY DEF Lookup
<1>2. \A u \in Thread : shard(u)' = shard(u)
  BY <1>1, ShardFrame
<1>3. /\ \A u \in Thread : u # t => obj'[u] = obj[u]
      /\ obj'[t] = obj[t] \/ obj'[t] = swarms[shard(t)][call[t].ih]
  BY DEF Lookup, TypeOK
<1>4. ASSUME NEW u \in Thread, NEW k \in Kind
      PROVE  \/ obj'[u] = NoSwarm \/ swarms[shard(u)][call[u].ih] = obj'[u]
             \/ <<shard(u), k>> \in raced \/ Held(obj'[u], k) = {}
  <2>1. CASE obj'[u] = obj[u]
    BY <2>1 DEF Orphans
  <2>2. CASE obj'[u] # obj[u]
    BY <1>3, <2>2
  <2> QED BY <2>1, <2>2
<1> QED BY <1>1, <1>2, <1>4 DEF Orphans, Held

LEMMA CreateOrphans ==
    ASSUME TypeOK, Orphans, NEW t \in Thread, Create(t)
    PROVE  Orphans'
<1> DEFINE s == shard(t)
           ih == call[t].ih
<1>1. UNCHANGED <<call, raced>>
  BY DEF Create
<1>2. \A u \in Thread : shard(u)' = shard(u)
  BY <1>1, ShardFrame
<1>3. CASE swarms[s][ih] # NoSwarm
  <2>1. UNCHANGED <<swarms, peers>> /\ obj'[t] = swarms[s][ih]
        /\ \A u \in Thread : u # t => obj'[u] = obj[u]
    BY <1>3 DEF Create, TypeOK
  <2> QED BY SMTT(60), <1>1, <1>2, <2>1 DEF Orphans, Held
<1>4. CASE swarms[s][ih] = NoSwarm
  <2>1. PICK o \in SwarmObj : /\ Fresh(o)
                              /\ swarms' = [swarms EXCEPT ![s][ih] = o]
                              /\ peers' = [peers EXCEPT ![o] = NoPeers]
                              /\ obj' = [obj EXCEPT ![t] = o]
    BY <1>4 DEF Create
  <2>2. obj'[t] = o /\ \A u \in Thread : u # t => obj'[u] = obj[u] /\ obj[u] # o
    BY <2>1 DEF Fresh, TypeOK
  <2>3. \A x \in SwarmObj : x # o => peers'[x] = peers[x]
    BY <2>1 DEF TypeOK
  <2>4. \A u \in Thread : /\ shard(u) \in Shard /\ call[u].ih \in InfoHash
                          /\ obj[u] \in SwarmObj \cup {NoSwarm}
    BY ThreadShard DEF TypeOK
  <2>5. swarms'[s][ih] = o
    BY <2>1, <2>4 DEF TypeOK
  <2>6. \A u \in Thread : swarms'[shard(u)][call[u].ih] # obj[u] =>
           u = t \/ swarms[shard(u)][call[u].ih] # obj[u] \/ obj[u] = NoSwarm
    BY <2>1, <2>2, <2>4, <1>4 DEF TypeOK
  <2>7. ASSUME NEW u \in Thread, NEW k \in Kind, obj'[u] # NoSwarm
        PROVE  \/ swarms'[shard(u)][call[u].ih] = obj'[u] \/ <<shard(u), k>> \in raced
               \/ {q \in Peer : peers'[obj'[u]][k][q] # Absent} = {}
    <3>1. CASE u = t
      BY <2>2, <2>5, <3>1
    <3>2. CASE u # t
      <4>1. obj'[u] = obj[u] /\ obj[u] # o /\ obj[u] # NoSwarm /\ obj[u] \in SwarmObj
        BY SMTT(60), <2>2, <2>4, <2>7, <3>2
      <4>2. peers'[obj[u]] = peers[obj[u]]
        BY <2>3, <4>1
      <4>3. \/ swarms[shard(u)][call[u].ih] = obj[u] \/ <<shard(u), k>> \in raced
            \/ {q \in Peer : peers[obj[u]][k][q] # Absent} = {}
        BY <4>1 DEF Orphans, Held
      <4>4. swarms[shard(u)][call[u].ih] = obj[u] => swarms'[shard(u)][call[u].ih] = obj[u]
        BY <2>6, <3>2, <4>1
      <4> QED BY <4>1, <4>2, <4>3, <4>4
    <3> QED BY <3>1, <3>2
  <2> QED BY <1>1, <1>2, <2>7 DEF Orphans, Held
<1> QED BY <1>3, <1>4

LEMMA SetOrphans ==
    ASSUME TypeOK, Owned, Holders, Orphans, NEW t \in Thread, Set(t)
    PROVE  Orphans'
<1> DEFINE k == kindOf(call[t].op)
           o == obj[t]
           s == shard(t)
<1>1. UNCHANGED <<swarms, call>> /\ raced \subseteq raced'
  BY DEF Set
<1>2. \A u \in Thread : shard(u)' = shard(u) /\ obj[u] \in SwarmObj \cup {NoSwarm}
  BY <1>1, ShardFrame DEF TypeOK
<1>3. \A u \in Thread : obj'[u] = IF u = t THEN NoSwarm ELSE obj[u]
  BY DEF Set, TypeOK
<1>4. swarms[s][call[t].ih] # o => <<s, k>> \in raced'
  BY DEF Set
<1>5. \A x \in SwarmObj, j \in Kind :
         (x # o \/ j # k) => \A q \in Peer : peers'[x][j][q] = peers[x][j][q]
  <2>1. PICK m : peers' = WithCell(peers, o, k, call[t].p, m)
    BY DEF Set, WithCell
  <2> HIDE DEF k, o
  <2> QED BY SMTT(60), <2>1, WithCellAt
<1> HIDE DEF k, o, s
<1>6. ASSUME NEW u \in Thread, NEW j \in Kind, u # t,
             obj[u] # NoSwarm, swarms[shard(u)][call[u].ih] # obj[u],
             <<shard(u), j>> \notin raced'
      PROVE  \A q \in Peer : peers'[obj[u]][j][q] = Absent
  <2>1. obj[u] # o \/ j # k
    BY <1>4, <1>6 DEF Owned, o, s
  <2>2. Held(obj[u], j) = {}
    BY <1>1, <1>6 DEF Orphans
  <2> QED BY <1>2, <1>5, <1>6, <2>1, <2>2 DEF Held
<1> QED BY SMTT(60), <1>1, <1>2, <1>3, <1>6 DEF Orphans, Held

LEMMA DropOrphans ==
    ASSUME TypeOK, Owned, Collector, Orphans, GCDrop
    PROVE  Orphans'
<1>1. gcShard \in Shard /\ gcIh \in InfoHash /\ gcObj # NoSwarm
      /\ swarms[gcShard][gcIh] = gcObj
  BY DEF GCDrop, TypeOK, GCPCs, Collector
<1>2. \A x \in Shard, i \in InfoHash :
         swarms'[x][i] = IF x = gcShard /\ i = gcIh THEN NoSwarm ELSE swarms[x][i]
  BY <1>1 DEF GCDrop, TypeOK
<1>3. UNCHANGED <<obj, call, peers>> /\ raced \subseteq raced'
  BY DEF GCDrop
<1>4. \A u \in Thread : /\ shard(u)' = shard(u) /\ shard(u) \in Shard
                        /\ call[u].ih \in InfoHash
  BY <1>3, ShardFrame, ThreadShard
<1>5. \A j \in Kind : Held(gcObj, j) = {} \/ <<gcShard, j>> \in raced'
  BY DEF GCDrop
<1>6. ASSUME NEW u \in Thread, NEW j \in Kind,
             obj[u] # NoSwarm, swarms'[shard(u)][call[u].ih] # obj[u],
             <<shard(u), j>> \notin raced'
      PROVE  Held(obj[u], j) = {}
  <2>1. CASE obj[u] = gcObj
    <3>1. shard(u) = gcShard
      BY SMTT(60), <1>1, <1>6, <2>1 DEF Owned
    <3> QED BY <1>5, <1>6, <2>1, <3>1
  <2>2. CASE obj[u] # gcObj
    <3>1. swarms[shard(u)][call[u].ih] # obj[u]
      BY <1>1, <1>2, <1>4, <1>6, <2>2
    <3> QED BY <1>3, <1>6, <3>1 DEF Orphans
  <2> QED BY <2>1, <2>2
<1> QED BY SMTT(60), <1>3, <1>4, <1>6 DEF Orphans, Held

LEMMA OrphansStep ==
    ASSUME TypeOK, Holders, Owned, Collector, Orphans, [Next]_vars
    PROVE  Orphans'
<1>1. ASSUME NEW t \in Thread, ThreadStep(t) PROVE Orphans'
  <2>1. (Check(t) \/ Keys(t)) => Orphans'
    <3>1. (Check(t) \/ Keys(t)) =>
             /\ UNCHANGED <<swarms, call, raced, peers>>
             /\ \A u \in Thread : obj'[u] = obj[u] \/ obj'[u] = NoSwarm
      BY DEF Check, Keys, TypeOK
    <3> QED BY <3>1, OrphansFrame
  <2>2. (Remove(t) \/ Unlist(t)) => Orphans'
    <3>1. (Remove(t) \/ Unlist(t)) =>
             /\ UNCHANGED <<swarms, call, raced>>
             /\ \A u \in Thread : obj'[u] = obj[u] \/ obj'[u] = NoSwarm
      BY DEF Remove, Unlist, TypeOK
    <3>2. (Remove(t) \/ Unlist(t)) =>
             \A o \in SwarmObj, k \in Kind, q \in Peer :
                 peers[o][k][q] = Absent => peers'[o][k][q] = Absent
      BY DelPeerKeepsAbsent DEF Remove, Unlist
    <3> QED BY <3>1, <3>2, OrphansFrame
  <2> QED BY <1>1, <2>1, <2>2, LookupOrphans, CreateOrphans, SetOrphans DEF ThreadStep
<1>2. GCStep => Orphans'
  <2>1. GCStep => GCDrop \/ UNCHANGED <<swarms, call, obj, raced>>
    BY DEF GCStep, GCFire, GCExit, GCShard, GCNext, GCShardDone, GCScan, GCPurge,
           GCPurged, GCLen
  <2>2. GCStep => GCDrop \/ GCPurge \/ UNCHANGED peers
    BY DEF GCStep, GCFire, GCExit, GCShard, GCNext, GCShardDone, GCScan, GCPurged, GCLen
  <2>3. GCPurge => \A o \in SwarmObj, k \in Kind, q \in Peer :
                      peers[o][k][q] = Absent => peers'[o][k][q] = Absent
    BY DelPeerKeepsAbsent DEF GCPurge
  <2> QED BY <2>1, <2>2, <2>3, OrphansFrame, DropOrphans
<1>3. (Tick \/ Close \/ CloseReturn \/ UNCHANGED vars) => Orphans'
  BY OrphansFrame DEF Tick, Close, CloseReturn, vars
<1> QED BY <1>1, <1>2, <1>3, BeginOrphans DEF Next

----------------------------------------------------------------------------
(* The counters.                                                           *)

\* What the proof needs to know of finite sets: the library's theorems, put
\* together in LEMMA Counted of MemoryStoreProofs.
CountingLaws ==
    /\ IsFiniteSet(InfoHash \X Peer)
    /\ Cardinality({}) = 0
    /\ \A S : IsFiniteSet(S) => Cardinality(S) \in Nat
    /\ \A S, T : IsFiniteSet(S) /\ T \subseteq S =>
                   IsFiniteSet(T) /\ Cardinality(T) <= Cardinality(S)
    /\ \A S, x : IsFiniteSet(S) /\ x \notin S =>
                   Cardinality(S \cup {x}) = Cardinality(S) + 1
    /\ \A S, x : IsFiniteSet(S) /\ x \in S =>
                   Cardinality(S \ {x}) = Cardinality(S) - 1

LEMMA CountSubset ==
    ASSUME CountingLaws, NEW S, NEW T \in SUBSET S, IsFiniteSet(S)
    PROVE  /\ IsFiniteSet(T) /\ Cardinality(T) <= Cardinality(S)
           /\ Cardinality(T) \in Nat /\ Cardinality(S) \in Nat
BY DEF CountingLaws

LEMMA CountAdd ==
    ASSUME CountingLaws, NEW S, NEW x, IsFiniteSet(S), x \notin S
    PROVE  Cardinality(S \cup {x}) = Cardinality(S) + 1
BY DEF CountingLaws

LEMMA CountRemove ==
    ASSUME CountingLaws, NEW S, NEW x, IsFiniteSet(S), x \in S
    PROVE  Cardinality(S \ {x}) = Cardinality(S) - 1
BY DEF CountingLaws

\* The sets that CountersExact counts are finite and fit a counter.
LEMMA CountBound ==
    ASSUME CountingLaws, NEW T \in SUBSET (InfoHash \X Peer), NEW C \in SUBSET Thread
    PROVE  /\ IsFiniteSet(T) /\ Cardinality(T) \in Nat
           /\ IsFiniteSet(C) /\ Cardinality(C) \in Nat
           /\ Cardinality(T) + Cardinality(C) < Word
<1>1. IsFiniteSet(InfoHash \X Peer) /\ IsFiniteSet(Thread)
  BY StoreAssumption DEF CountingLaws
<1>2. /\ IsFiniteSet(T) /\ Cardinality(T) <= Cardinality(InfoHash \X Peer)
      /\ Cardinality(T) \in Nat /\ Cardinality(InfoHash \X Peer) \in Nat
  BY <1>1, CountSubset
<1>3. /\ IsFiniteSet(C) /\ Cardinality(C) <= Cardinality(Thread)
      /\ Cardinality(C) \in Nat /\ Cardinality(Thread) \in Nat
  BY <1>1, CountSubset
<1> QED BY SMTT(60), <1>2, <1>3, WordAssumption

LEMMA CountingFrame ==
    ASSUME \A t \in Thread : pc'[t] = "set" <=> pc[t] = "set",
           \A t \in Thread : pc[t] = "set" =>
               existed'[t] = existed[t] /\ call'[t] = call[t],
           NEW s, NEW k
    PROVE  Counting(s, k)' = Counting(s, k)
BY DEF Counting, shard, shardIndex

\* Tracked, peer by peer.
TrackedPeer(s, k, ih, p) ==
    swarms[s][ih] # NoSwarm /\ peers[swarms[s][ih]][k][p] # Absent

LEMMA TrackedSame ==
    ASSUME NEW s, NEW k,
           \A ih \in InfoHash, p \in Peer :
               TrackedPeer(s, k, ih, p)' <=> TrackedPeer(s, k, ih, p)
    PROVE  Tracked(s, k)' = Tracked(s, k)
BY DEF Tracked, TrackedPeer

LEMMA TrackedFrame ==
    ASSUME UNCHANGED <<swarms, peers>>, NEW s, NEW k
    PROVE  Tracked(s, k)' = Tracked(s, k)
BY DEF Tracked

\* A step that changes none of the three is of no concern to CountersExact.
LEMMA CountersFrame ==
    ASSUME CountersExact, UNCHANGED <<swarms, peers, numPeers>>, raced \subseteq raced',
           \A s \in Shard, k \in Kind : Counting(s, k)' = Counting(s, k)
    PROVE  CountersExact'
BY SMTT(60), TrackedFrame DEF CountersExact

\* peers.del and its counter update, on a swarm that belongs to s and ih.
LEMMA DelPeerExact ==
    ASSUME CountingLaws, TypeOK, CountersExact,
           NEW s \in Shard, NEW ih \in InfoHash, NEW o \in SwarmObj,
           NEW k \in Kind, NEW p \in Peer,
           DelPeer(s, o, k, p), UNCHANGED <<swarms, raced>>,
           \A s2 \in Shard, i2 \in InfoHash : swarms[s2][i2] = o => s2 = s /\ i2 = ih,
           swarms[s][ih] = o \/ <<s, k>> \in raced \/ Held(o, k) = {},
           \A x \in Shard, y \in Kind : Counting(x, y)' = Counting(x, y)
    PROVE  CountersExact'
<1>1. CASE peers[o][k][p] = Absent
  BY <1>1, CountersFrame DEF DelPeer
<1>2. CASE peers[o][k][p] # Absent
  <2> SUFFICES ASSUME NEW x \in Shard, NEW y \in Kind, <<x, y>> \notin raced
               PROVE  numPeers'[x][y] = Cardinality(Tracked(x, y)') + Cardinality(Counting(x, y))
    BY SMTT(60) DEF CountersExact
  <2>1. /\ peers' = WithCell(peers, o, k, p, Absent)
        /\ numPeers' = [numPeers EXCEPT ![s][k] = Decrement(numPeers[s][k])]
    BY <1>2 DEF DelPeer, WithCell
  <2>2. \A z \in SwarmObj, j \in Kind, q \in Peer :
           peers'[z][j][q] = IF z = o /\ j = k /\ q = p THEN Absent ELSE peers[z][j][q]
    BY SMTT(60), <2>1, WithCellAt
  <2>3. \A i \in InfoHash : swarms[x][i] \in SwarmObj \cup {NoSwarm}
    BY SMTT(60) DEF TypeOK
  <2>4. numPeers[x][y] = Cardinality(Tracked(x, y)) + Cardinality(Counting(x, y))
    BY DEF CountersExact
  <2>5. CASE x = s /\ y = k
    <3>1. swarms[s][ih] = o
      BY <1>2, <2>5 DEF Held
    <3>2. <<ih, p>> \in Tracked(s, k) /\ NoSwarm # o
      BY <1>2, <3>1, StoreAssumption DEF Tracked
    <3>3. Tracked(s, k)' = Tracked(s, k) \ {<<ih, p>>}
      <4>1. ASSUME NEW i \in InfoHash, NEW q \in Peer
            PROVE  <<i, q>> \in Tracked(s, k)'
                      <=> <<i, q>> \in Tracked(s, k) /\ <<i, q>> # <<ih, p>>
        <5>1. swarms[s][i] = o <=> i = ih
          BY <3>1
        <5>2. swarms[s][i] # NoSwarm => swarms[s][i] \in SwarmObj
          BY <2>3, <2>5
        <5>3. CASE swarms[s][i] = NoSwarm
          BY <5>3 DEF Tracked
        <5>4. CASE swarms[s][i] # NoSwarm
          <6>1. peers'[swarms[s][i]][k][q] =
                   IF i = ih /\ q = p THEN Absent ELSE peers[swarms[s][i]][k][q]
            BY <2>2, <5>1, <5>2, <5>4
          <6> QED BY <5>4, <6>1 DEF Tracked
        <5> QED BY <5>3, <5>4
      <4>2. Tracked(s, k) \subseteq InfoHash \X Peer /\ Tracked(s, k)' \subseteq InfoHash \X Peer
        BY DEF Tracked
      <4> QED BY SMTT(60), <4>1, <4>2
    <3>4. Tracked(s, k) \in SUBSET (InfoHash \X Peer) /\ Counting(s, k) \in SUBSET Thread
      BY DEF Tracked, Counting
    <3>5. Cardinality(Tracked(s, k)') = Cardinality(Tracked(s, k)) - 1
      <4>1. IsFiniteSet(Tracked(s, k))
        BY <3>4, CountBound
      <4> QED BY <3>2, <3>3, <4>1, CountRemove
    <3>5a. Cardinality(Tracked(s, k)') \in Nat
      BY <3>3, <3>4, CountBound
    <3>6. numPeers'[s][k] = Decrement(numPeers[s][k])
      BY <2>1 DEF TypeOK
    <3>7. /\ Cardinality(Tracked(s, k)) \in Nat /\ Cardinality(Counting(s, k)) \in Nat
          /\ Cardinality(Tracked(s, k)) + Cardinality(Counting(s, k)) < Word
      BY <3>4, CountBound
    <3>7a. numPeers[s][k] = Cardinality(Tracked(s, k)) + Cardinality(Counting(s, k))
      BY <2>4, <2>5
    <3>8. /\ numPeers[s][k] \in Nat /\ numPeers[s][k] < Word /\ numPeers[s][k] > 0
      BY ONLY SMTT(60), <3>5, <3>5a, <3>7, <3>7a
    <3>9. numPeers'[s][k] = numPeers[s][k] - 1
      BY <3>6, <3>8, CounterStep
    <3>10. numPeers'[s][k] = Cardinality(Tracked(s, k)') + Cardinality(Counting(s, k))
      BY ONLY SMTT(60), <3>5, <3>7, <3>7a, <3>9
    <3> QED BY ONLY ZenonT(60), <2>5, <3>10
  <2>6. CASE ~(x = s /\ y = k)
    <3>1. Tracked(x, y)' = Tracked(x, y)
      <4>1. ASSUME NEW i \in InfoHash, NEW q \in Peer, swarms[x][i] # NoSwarm
            PROVE  peers'[swarms[x][i]][y][q] = peers[swarms[x][i]][y][q]
        <5>1. swarms[x][i] \in SwarmObj /\ (swarms[x][i] = o => x = s)
          BY <2>3, <4>1
        <5> QED BY SMTT(60), <2>2, <2>6, <5>1
      <4> QED BY <4>1 DEF Tracked
    <3>2. numPeers'[x][y] = numPeers[x][y]
      BY <2>1, <2>6 DEF TypeOK
    <3> QED BY <2>4, <3>1, <3>2
  <2> QED BY SMTT(60), <2>5, <2>6
<1> QED BY <1>1, <1>2

LEMMA CreateExact ==
    ASSUME TypeOK, CountersExact, NEW t \in Thread, Create(t)
    PROVE  CountersExact'
<1> DEFINE s == shard(t)
           ih == call[t].ih
<1>1. \A x \in Shard, y \in Kind : Counting(x, y)' = Counting(x, y)
  <2>1. \A u \in Thread : pc'[u] = "set" <=> pc[u] = "set"
    <3>1. AfterLookup(call[t].op) # "set"
      BY ThreadShard DEF AfterLookup, CallType, WriteOps
    <3> QED BY <3>1 DEF Create, TypeOK
  <2> QED BY <2>1, CountingFrame DEF Create
<1>2. UNCHANGED <<numPeers, raced>>
  BY DEF Create
<1>3. CASE swarms[s][ih] # NoSwarm
  BY <1>1, <1>2, <1>3, CountersFrame DEF Create
<1>4. CASE swarms[s][ih] = NoSwarm
  <2>1. PICK o \in SwarmObj : /\ Fresh(o)
                              /\ swarms' = [swarms EXCEPT ![s][ih] = o]
                              /\ peers' = [peers EXCEPT ![o] = NoPeers]
    BY <1>4 DEF Create
  <2>2. s \in Shard /\ ih \in InfoHash
    BY ThreadShard
  <2>3. \A x \in Shard, i \in InfoHash :
           /\ swarms[x][i] \in SwarmObj \cup {NoSwarm} /\ swarms[x][i] # o
           /\ swarms'[x][i] = IF x = s /\ i = ih THEN o ELSE swarms[x][i]
    BY SMTT(60), <2>1, <2>2 DEF TypeOK, Fresh
  <2>4. /\ \A z \in SwarmObj : z # o => peers'[z] = peers[z]
        /\ \A y \in Kind, q \in Peer : peers'[o][y][q] = Absent
    BY <2>1 DEF TypeOK, NoPeers
  <2>5. \A x \in Shard, y \in Kind : Tracked(x, y)' = Tracked(x, y)
    <3> HIDE DEF s, ih
    <3> QED BY SMTT(60), <1>4, <2>2, <2>3, <2>4, TrackedSame DEF TrackedPeer
  <2> QED BY <1>1, <1>2, <2>5 DEF CountersExact
<1> QED BY <1>3, <1>4

LEMMA CheckExact ==
    ASSUME CountingLaws, TypeOK, CountersExact, NEW t \in Thread, Check(t)
    PROVE  CountersExact'
<1> DEFINE s == shard(t)
           k == kindOf(call[t].op)
           exists == peers[obj[t]][k][call[t].p] # Absent
<1>1. /\ UNCHANGED <<swarms, peers, raced, call>>
      /\ pc[t] = "check" /\ s \in Shard /\ k \in Kind
  BY ThreadShard, KindOfType DEF Check
<1>2. \A u \in Thread : shard(u)' = shard(u)
  BY <1>1, ShardFrame
<1>3. /\ pc'[t] = "set" /\ existed'[t] = exists
      /\ \A u \in Thread : u # t => pc'[u] = pc[u] /\ existed'[u] = existed[u]
  BY DEF Check, TypeOK
<1>4. CASE exists
  <2>1. \A x \in Shard, y \in Kind : Counting(x, y)' = Counting(x, y)
    BY <1>1, <1>2, <1>3, <1>4 DEF Counting
  <2> QED BY <1>1, <1>4, <2>1, CountersFrame DEF Check
<1>5. CASE ~exists
  <2>1. numPeers' = [numPeers EXCEPT ![s][k] = Increment(numPeers[s][k])]
    BY <1>5 DEF Check
  <2>2. \A x \in Shard, y \in Kind :
           Counting(x, y)' = IF x = s /\ y = k THEN Counting(x, y) \cup {t}
                                               ELSE Counting(x, y)
    <3> HIDE DEF exists
    <3> QED BY SMTT(60), <1>1, <1>2, <1>3, <1>5 DEF Counting
  <2> HIDE DEF s, k, exists
  <2> SUFFICES ASSUME NEW x \in Shard, NEW y \in Kind, <<x, y>> \notin raced
               PROVE  numPeers'[x][y] = Cardinality(Tracked(x, y)) + Cardinality(Counting(x, y)')
    <3>1. \A x \in Shard, y \in Kind : Tracked(x, y)' = Tracked(x, y)
      BY <1>1, TrackedFrame
    <3> QED BY <1>1, <3>1 DEF CountersExact
  <2>3. numPeers[x][y] = Cardinality(Tracked(x, y)) + Cardinality(Counting(x, y))
    BY DEF CountersExact
  <2>4. CASE x = s /\ y = k
    <3>1. t \notin Counting(s, k)
      BY <1>1 DEF Counting
    <3>2. /\ Tracked(s, k) \in SUBSET (InfoHash \X Peer) /\ Counting(s, k) \in SUBSET Thread
          /\ Counting(s, k) \cup {t} \in SUBSET Thread
      BY DEF Tracked, Counting
    <3>3. /\ Cardinality(Tracked(s, k)) \in Nat /\ Cardinality(Counting(s, k)) \in Nat
          /\ Cardinality(Tracked(s, k)) + Cardinality(Counting(s, k) \cup {t}) < Word
          /\ Cardinality(Counting(s, k) \cup {t}) = Cardinality(Counting(s, k)) + 1
      <4>1. IsFiniteSet(Counting(s, k))
        BY <3>2, CountBound
      <4> QED BY <3>1, <3>2, <4>1, CountBound, CountAdd
    <3>4. numPeers[s][k] \in Nat /\ numPeers[s][k] + 1 < Word /\ numPeers[s][k] < Word
      BY SMTT(60), <2>3, <2>4, <3>3, WordAssumption
    <3>5. Increment(numPeers[s][k]) = numPeers[s][k] + 1
      BY <3>4, CounterStep
    <3>6. numPeers'[s][k] = Increment(numPeers[s][k])
      BY <1>1, <2>1 DEF TypeOK
    <3>7. Counting(x, y)' = Counting(s, k) \cup {t}
      BY <2>2, <2>4
    <3> QED BY SMTT(60), <2>3, <2>4, <3>3, <3>5, <3>6, <3>7
  <2>5. CASE ~(x = s /\ y = k)
    <3>1. numPeers'[x][y] = numPeers[x][y]
      BY SMTT(60), <2>1, <2>5 DEF TypeOK
    <3> QED BY <2>2, <2>3, <2>5, <3>1
  <2> QED BY <2>4, <2>5
<1> QED BY <1>4, <1>5

LEMMA SetExact ==
    ASSUME CountingLaws, TypeOK, Holders, Owned, CountersExact, NEW t \in Thread, Set(t)
    PROVE  CountersExact'
<1> DEFINE s == shard(t)
           k == kindOf(call[t].op)
           o == obj[t]
           ih == call[t].ih
           p == call[t].p
<1>1. /\ UNCHANGED <<swarms, numPeers, call>> /\ raced \subseteq raced'
      /\ pc[t] = "set" /\ s \in Shard /\ k \in Kind /\ ih \in InfoHash /\ p \in Peer
  BY ThreadShard, KindOfType DEF Set
<1>2. o \in SwarmObj /\ o # NoSwarm
  BY SMTT(60), <1>1 DEF Holders, Holding, TypeOK
<1>3. \A u \in Thread : shard(u)' = shard(u)
  BY <1>1, ShardFrame
<1>4. pc'[t] # "set" /\ \A u \in Thread : u # t => pc'[u] = pc[u] /\ existed'[u] = existed[u]
  BY DEF Set, TypeOK
<1>5. PICK m \in since[t] .. now : peers' = WithCell(peers, o, k, p, m)
  BY DEF Set, WithCell
<1>6. m # Absent
  BY SMTT(60) DEF TypeOK, Absent
<1>7. \A z \in SwarmObj, y \in Kind, q \in Peer :
         peers'[z][y][q] = IF z = o /\ y = k /\ q = p THEN m ELSE peers[z][y][q]
  <2> HIDE DEF k, o, p
  <2> QED BY SMTT(60), <1>5, WithCellAt
<1>8. <<s, k>> \notin raced' => /\ existed[t] = (peers[o][k][p] # Absent)
                               /\ swarms[s][ih] = o
  BY DEF Set
<1>9. \A x \in Shard, i \in InfoHash :
         /\ swarms[x][i] \in SwarmObj \cup {NoSwarm}
         /\ swarms[x][i] = o => x = s /\ i = ih
  BY SMTT(60), <1>2 DEF TypeOK, Owned
<1>10. \A x \in Shard, y \in Kind :
         Counting(x, y)' = IF x = s /\ y = k THEN Counting(x, y) \ {t} ELSE Counting(x, y)
  BY SMTT(60), <1>1, <1>3, <1>4 DEF Counting
<1>11. existed[t] \in BOOLEAN
  BY SMTT(60) DEF TypeOK
<1>12. t \in Counting(s, k) <=> ~existed[t]
  BY SMTT(60), <1>1 DEF Counting
<1> HIDE DEF s, k, o, ih, p
<1> SUFFICES ASSUME NEW x \in Shard, NEW y \in Kind, <<x, y>> \notin raced'
             PROVE  numPeers[x][y] = Cardinality(Tracked(x, y)') + Cardinality(Counting(x, y)')
  BY <1>1 DEF CountersExact
<1>13. numPeers[x][y] = Cardinality(Tracked(x, y)) + Cardinality(Counting(x, y))
  BY SMTT(60), <1>1 DEF CountersExact
<1>14. CASE ~(x = s /\ y = k)
  <2>1. Tracked(x, y)' = Tracked(x, y)
    BY SMTT(60), <1>1, <1>7, <1>9, <1>14, TrackedSame DEF TrackedPeer
  <2> QED BY SMTT(60), <1>10, <1>13, <1>14, <2>1
<1>15. CASE x = s /\ y = k /\ existed[t]
  <2>1. \A z \in SwarmObj, q \in Peer : peers'[z][y][q] # Absent <=> peers[z][y][q] # Absent
    <3>1. peers[o][k][p] # Absent
      BY <1>8, <1>15
    <3> QED BY SMTT(60), <1>6, <1>7, <1>15, <3>1
  <2>1a. Tracked(x, y)' = Tracked(x, y)
    BY SMTT(60), <1>1, <1>9, <2>1, TrackedSame DEF TrackedPeer
  <2>2. Counting(x, y)' = Counting(x, y)
    BY SMTT(60), <1>10, <1>12, <1>15
  <2> QED BY SMTT(60), <1>13, <2>1a, <2>2
<1>16. CASE x = s /\ y = k /\ ~existed[t]
  <2>1. <<ih, p>> \notin Tracked(x, y)
    BY <1>8, <1>16 DEF Tracked
  <2>2. Tracked(x, y)' = Tracked(x, y) \cup {<<ih, p>>}
    <3>1. ASSUME NEW i \in InfoHash, NEW q \in Peer
          PROVE  <<i, q>> \in Tracked(x, y)'
                    <=> <<i, q>> \in Tracked(x, y) \/ (i = ih /\ q = p)
      <4>1. swarms[x][i] = o <=> i = ih
        BY SMTT(60), <1>8, <1>9, <1>16
      <4>2. CASE swarms[x][i] = NoSwarm
        BY <1>1, <1>2, <4>1, <4>2 DEF Tracked
      <4>3. CASE swarms[x][i] # NoSwarm
        <5>1. swarms[x][i] \in SwarmObj
          BY <1>9, <4>3
        <5>2. peers'[swarms[x][i]][y][q] = IF i = ih /\ q = p THEN m ELSE peers[swarms[x][i]][y][q]
          BY SMTT(60), <1>7, <1>16, <4>1, <5>1
        <5> QED BY <1>1, <1>6, <4>3, <5>2 DEF Tracked
      <4> QED BY SMTT(60), <4>2, <4>3
    <3>2. Tracked(x, y) \subseteq InfoHash \X Peer /\ Tracked(x, y)' \subseteq InfoHash \X Peer
      BY DEF Tracked
    <3> QED BY SMTT(60), <1>1, <3>1, <3>2
  <2>3. Counting(x, y)' = Counting(x, y) \ {t} /\ t \in Counting(x, y)
    BY SMTT(60), <1>10, <1>12, <1>16
  <2>4. /\ Tracked(x, y) \in SUBSET (InfoHash \X Peer) /\ Counting(x, y) \in SUBSET Thread
    BY DEF Tracked, Counting
  <2>5. /\ IsFiniteSet(Tracked(x, y)) /\ IsFiniteSet(Counting(x, y))
        /\ Cardinality(Tracked(x, y)) \in Nat /\ Cardinality(Counting(x, y)) \in Nat
    BY SMTT(60), <2>4, CountBound
  <2>6. Cardinality(Tracked(x, y)') = Cardinality(Tracked(x, y)) + 1
    BY <2>1, <2>2, <2>5, CountAdd
  <2>7. Cardinality(Counting(x, y)') = Cardinality(Counting(x, y)) - 1
    BY <2>3, <2>5, CountRemove
  <2> QED BY SMTT(60), <1>13, <2>5, <2>6, <2>7
<1> QED BY <1>11, <1>14, <1>15, <1>16

LEMMA DropExact ==
    ASSUME TypeOK, Collector, CountersExact, GCDrop
    PROVE  CountersExact'
<1>1. gcShard \in Shard /\ gcIh \in InfoHash /\ gcObj # NoSwarm
      /\ swarms[gcShard][gcIh] = gcObj
  BY SMTT(60) DEF GCDrop, TypeOK, GCPCs, Collector
<1>2. \A x \in Shard, i \in InfoHash :
         swarms'[x][i] = IF x = gcShard /\ i = gcIh THEN NoSwarm ELSE swarms[x][i]
  BY SMTT(60), <1>1 DEF GCDrop, TypeOK
<1>3. UNCHANGED <<peers, numPeers, pc, existed, call>> /\ raced \subseteq raced'
  BY DEF GCDrop
<1>4. \A y \in Kind : <<gcShard, y>> \notin raced' => Held(gcObj, y) = {}
  BY DEF GCDrop
<1>5. \A x \in Shard, y \in Kind : Counting(x, y)' = Counting(x, y)
  BY <1>3, CountingFrame
<1>6. ASSUME NEW x \in Shard, NEW y \in Kind, <<x, y>> \notin raced'
      PROVE  Tracked(x, y)' = Tracked(x, y)
  BY SMTT(60), <1>1, <1>2, <1>3, <1>4, <1>6, TrackedSame DEF TrackedPeer, Held
<1> QED BY SMTT(60), <1>3, <1>5, <1>6 DEF CountersExact

LEMMA CountersStep ==
    ASSUME CountingLaws, TypeOK, Holders, Owned, Collector, Orphans, CountersExact, [Next]_vars
    PROVE  CountersExact'
<1>1. ASSUME NEW t \in Thread, Lookup(t) \/ Keys(t) PROVE CountersExact'
  <2>1. \A u \in Thread : pc'[u] = "set" <=> pc[u] = "set"
    <3>1. AfterLookup(call[t].op) # "set"
      BY ThreadShard DEF AfterLookup, CallType, WriteOps
    <3>2. CASE Lookup(t)
      BY <3>1, <3>2 DEF Lookup, TypeOK
    <3>3. CASE Keys(t)
      BY SMTT(60), <3>3 DEF Keys, TypeOK
    <3> QED BY SMTT(60), <1>1, <3>2, <3>3
  <2>2. UNCHANGED <<swarms, peers, numPeers, raced, existed, call>>
    BY <1>1 DEF Lookup, Keys
  <2> QED BY SMTT(60), <2>1, <2>2, CountingFrame, CountersFrame
<1>2. ASSUME NEW t \in Thread, Remove(t) \/ Unlist(t) PROVE CountersExact'
  <2>1. \A u \in Thread : pc'[u] = "set" <=> pc[u] = "set"
    BY SMTT(60), <1>2 DEF Remove, Unlist, TypeOK
  <2>2. UNCHANGED <<swarms, raced, existed, call>>
    BY <1>2 DEF Remove, Unlist
  <2>3. PICK k \in Kind : DelPeer(shard(t), obj[t], k, call[t].p)
    BY <1>2, KindOfType DEF Remove, Unlist, Kind
  <2>4. obj[t] \in SwarmObj /\ obj[t] # NoSwarm
    BY SMTT(60), <1>2 DEF Remove, Unlist, Holders, Holding, TypeOK
  <2>5. shard(t) \in Shard /\ call[t].ih \in InfoHash /\ call[t].p \in Peer
    BY ThreadShard
  <2>6. \A x \in Shard, i \in InfoHash :
           swarms[x][i] = obj[t] => x = shard(t) /\ i = call[t].ih
    BY <2>4 DEF Owned
  <2>7. \/ swarms[shard(t)][call[t].ih] = obj[t] \/ <<shard(t), k>> \in raced
        \/ Held(obj[t], k) = {}
    BY <2>4 DEF Orphans
  <2>8. \A x \in Shard, y \in Kind : Counting(x, y)' = Counting(x, y)
    BY SMTT(60), <2>1, <2>2, CountingFrame
  <2>9. UNCHANGED <<swarms, raced>>
    BY <2>2
  <2>10. ASSUME NEW s \in Shard, NEW ih \in InfoHash, NEW o \in SwarmObj, NEW p \in Peer,
                s = shard(t), ih = call[t].ih, o = obj[t], p = call[t].p
         PROVE  CountersExact'
    <3>1. DelPeer(s, o, k, p)
      BY <2>3, <2>10
    <3>2. \A x \in Shard, i \in InfoHash : swarms[x][i] = o => x = s /\ i = ih
      BY SMTT(60), <2>6, <2>10
    <3>3. swarms[s][ih] = o \/ <<s, k>> \in raced \/ Held(o, k) = {}
      BY <2>7, <2>10
    <3>4. k \in Kind
      BY <2>3
    <3> QED BY ONLY SMTT(60), CountingLaws, TypeOK, CountersExact, s \in Shard,
                    ih \in InfoHash, o \in SwarmObj, p \in Peer, <2>8, <2>9, <3>1, <3>2, <3>3, <3>4, DelPeerExact
  <2> QED BY SMTT(60), <2>4, <2>5, <2>10
<1>3. ASSUME NEW t \in Thread, NEW c \in Call, Begin(t, c) PROVE CountersExact'
  <2>1. \A u \in Thread : /\ pc'[u] = "set" <=> pc[u] = "set"
                          /\ pc[u] = "set" => existed'[u] = existed[u] /\ call'[u] = call[u]
    BY SMTT(60), <1>3 DEF Begin, TypeOK
  <2>2. UNCHANGED <<swarms, peers, numPeers, raced>>
    BY <1>3 DEF Begin
  <2> QED BY SMTT(60), <2>1, <2>2, CountingFrame, CountersFrame
<1>4. ASSUME GCPurge PROVE CountersExact'
  <2>1. gcShard \in Shard /\ gcIh \in InfoHash /\ gcObj \in SwarmObj /\ gcKind \in Kind
        /\ gcObj # NoSwarm /\ swarms[gcShard][gcIh] = gcObj
    BY SMTT(60), <1>4 DEF GCPurge, TypeOK, GCPCs, Collector
  <2>2. PICK p \in Peer : DelPeer(gcShard, gcObj, gcKind, p)
    BY SMTT(60), <1>4 DEF GCPurge, TypeOK
  <2>3. UNCHANGED <<pc, existed, call>>
    BY SMTT(60), <1>4 DEF GCPurge
  <2>3a. UNCHANGED <<swarms, raced>>
    BY <1>4 DEF GCPurge
  <2>4. \A x \in Shard, i \in InfoHash : swarms[x][i] = gcObj => x = gcShard /\ i = gcIh
    BY SMTT(60), <2>1 DEF Owned
  <2>5. \A x \in Shard, y \in Kind : Counting(x, y)' = Counting(x, y)
    BY <2>3, CountingFrame
  <2>6. \/ swarms[gcShard][gcIh] = gcObj \/ <<gcShard, gcKind>> \in raced
        \/ Held(gcObj, gcKind) = {}
    BY <2>1
  <2>7. gcShard \in Shard /\ gcIh \in InfoHash /\ gcObj \in SwarmObj /\ gcKind \in Kind
    BY <2>1
  <2> QED BY SMTT(60), <2>2, <2>3a, <2>4, <2>5, <2>6, <2>7, DelPeerExact
<1>5. GCStep => GCPurge \/ GCDrop
                \/ UNCHANGED <<swarms, peers, numPeers, raced, pc, existed, call>>
  BY DEF GCStep, GCFire, GCExit, GCShard, GCNext, GCShardDone, GCScan, GCPurged, GCLen
<1>6. (Tick \/ Close \/ CloseReturn \/ UNCHANGED vars) =>
         UNCHANGED <<swarms, peers, numPeers, raced, pc, existed, call>>
  BY SMTT(60) DEF Tick, Close, CloseReturn, vars
<1>7. UNCHANGED <<swarms, peers, numPeers, raced, pc, existed, call>> => CountersExact'
  BY CountingFrame, CountersFrame
<1> QED BY <1>1, <1>2, <1>3, <1>4, <1>5, <1>6, <1>7, CreateExact, CheckExact, SetExact,
           DropExact DEF Next, ThreadStep

----------------------------------------------------------------------------
(* IInv is inductive.                                                      *)

LEMMA InitInductive == CountingLaws /\ Init => IInv
<1> SUFFICES ASSUME CountingLaws, Init PROVE IInv
  BY SMTT(60)
<1>1. TypeOK
  BY SMTT(60), InitType
<1>2. Holders /\ Owned /\ Orphans /\ OneSwarm
  BY SMTT(60) DEF Init, Holders, Holding, Owned, Orphans, OneSwarm
<1>3. Collector /\ GCSnapshotLive
  BY DEF Init, Collector, GCSnapshotLive
<1>4. CountersExact
  <2>1. ASSUME NEW s \in Shard, NEW k \in Kind
        PROVE  Tracked(s, k) = {} /\ Counting(s, k) = {} /\ numPeers[s][k] = 0
    BY SMTT(60) DEF Init, Tracked, Counting
  <2>2. Cardinality({}) = 0
    BY SMTT(60) DEF CountingLaws
  <2>3. ASSUME NEW s \in Shard, NEW k \in Kind
        PROVE  numPeers[s][k] = Cardinality(Tracked(s, k)) + Cardinality(Counting(s, k))
    BY SMTT(60), <2>1, <2>2
  <2> QED BY <2>3 DEF CountersExact
<1> QED BY SMTT(60), <1>1, <1>2, <1>3, <1>4 DEF IInv

LEMMA InductiveStep == CountingLaws /\ IInv /\ [Next]_vars => IInv'
BY SMTT(60), TypeStep, HoldersStep, OwnedStep, CollectorStep, OrphansStep, CountersStep DEF IInv
====
