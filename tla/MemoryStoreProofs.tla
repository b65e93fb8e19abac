------------------------- MODULE MemoryStoreProofs -------------------------
(***************************************************************************)
(* Theorems about MemoryStore, for any number of info hashes, peers,       *)
(* goroutines, shards and calls: it implements SwarmStore, every step is a *)
(* step of SwarmStore or changes nothing SwarmStore sees; AnnouncePeers    *)
(* answers what was asked for; and counters, swarms and the collector's    *)
(* snapshot are right.                                                     *)
(***************************************************************************)
EXTENDS MemoryRefinement, MemoryStoreInvariants

USE ZenonT(60) DEF threadVars, storeVars, gcVars, lifeVars, historyVars

----------------------------------------------------------------------------
(* Shards and address families.                                            *)

\* A shard tells the family.
LEMMA ShardV6 ==
    ASSUME NEW ih \in InfoHash, NEW v \in BOOLEAN
    PROVE  isV6(shardIndex(ih, v)) = v
<1>1. Prefix[ih] % ShardCount \in 0 .. ShardCount - 1
  BY SMTT(60), StoreAssumption
<1> QED BY SMTT(60), <1>1, StoreAssumption DEF isV6, shardIndex

LEMMA IsV6Type == ASSUME NEW s PROVE isV6(s) \in BOOLEAN
BY SMTT(60) DEF isV6

\* The family of a call is that of its shard.
LEMMA CallFamily ==
    ASSUME TypeOK, NEW t \in Thread
    PROVE  /\ Store!family(call[t]) \in BOOLEAN
           /\ shard(t) = shardIndex(call[t].ih, Store!family(call[t]))
           /\ isV6(shard(t)) = Store!family(call[t])
           /\ call[t].op \in WriteOps => Store!family(call[t]) = Is6[call[t].p]
<1>1. call[t] \in CallType /\ call[t].ih \in InfoHash /\ call[t].p \in Peer
  BY ThreadShard
<1>2. Is6[call[t].p] \in BOOLEAN /\ call[t].v6 \in BOOLEAN
  BY <1>1, StoreAssumption DEF CallType
<1>3. Store!family(call[t]) =
         IF call[t].op \in WriteOps THEN Is6[call[t].p] ELSE call[t].v6
  BY <1>1 DEF Store!family, CallType, WriteOps
<1>4. Store!family(call[t]) \in BOOLEAN
  BY <1>2, <1>3
<1>5. shard(t) = shardIndex(call[t].ih, Store!family(call[t]))
  BY <1>3 DEF shard
<1> QED BY <1>1, <1>3, <1>4, <1>5, ShardV6

----------------------------------------------------------------------------
(* RInv is inductive.                                                      *)

LEMMA WritersStep ==
    ASSUME TypeOK, Writers, [Next]_vars
    PROVE  Writers'
<1>1. ASSUME UNCHANGED <<pc, call>> PROVE Writers'
  BY <1>1 DEF Writers
<1>2. ASSUME NEW t \in Thread, UNCHANGED call,
             NEW w, pc' = [pc EXCEPT ![t] = w],
             w \in {"create", "unlist", "check", "set", "remove"} => call[t].op \in WriteOps
      PROVE  Writers'
  BY <1>2 DEF Writers, TypeOK
<1>3. ASSUME NEW t \in Thread, NEW c \in Call, Begin(t, c) PROVE Writers'
  BY SMTT(60), <1>3 DEF Begin, Writers, TypeOK
<1>4. ASSUME NEW t \in Thread, Lookup(t) PROVE Writers'
  <2>1. call[t] \in CallType
    BY ThreadShard
  <2>2. AfterLookup(call[t].op) \in {"create", "unlist", "check", "set", "remove"}
           => call[t].op \in WriteOps
    BY <2>1 DEF AfterLookup, CallType, WriteOps
  <2> QED BY <1>2, <1>4, <2>2 DEF Lookup, WriteOps
<1>5. ASSUME NEW t \in Thread, Create(t) PROVE Writers'
  <2>1. call[t].op \in WriteOps
    BY <1>5 DEF Create, Writers
  <2> QED BY <1>2, <1>5, <2>1 DEF Create
<1>6. ASSUME NEW t \in Thread, Remove(t) PROVE Writers'
  BY <1>2, <1>6 DEF Remove
<1>7. ASSUME NEW t \in Thread, Unlist(t) PROVE Writers'
  <2>1. call[t].op \in WriteOps
    BY <1>7 DEF Unlist, Writers
  <2> QED BY <1>2, <1>7, <2>1 DEF Unlist
<1>8. ASSUME NEW t \in Thread, Check(t) PROVE Writers'
  <2>1. call[t].op \in WriteOps
    BY <1>8 DEF Check, Writers
  <2> QED BY <1>2, <1>8, <2>1 DEF Check
<1>9. ASSUME NEW t \in Thread, Set(t) PROVE Writers'
  BY <1>2, <1>9 DEF Set
<1>10. ASSUME NEW t \in Thread, Keys(t) PROVE Writers'
  BY <1>2, <1>10 DEF Keys
<1>11. Tick \/ GCFire \/ GCExit \/ GCShard \/ GCNext \/ GCShardDone \/ GCScan \/ GCPurge
          \/ GCPurged \/ GCLen \/ GCDrop \/ Close \/ CloseReturn \/ UNCHANGED vars
          => UNCHANGED <<pc, call>>
  BY DEF Tick, GCFire, GCExit, GCShard, GCNext, GCShardDone, GCScan, GCPurge, GCPurged, GCLen,
         GCDrop, Close, CloseReturn, vars
<1> QED BY NextCases, <1>1, <1>3, <1>4, <1>5, <1>6, <1>7, <1>8, <1>9, <1>10, <1>11

LEMMA PlacedStep ==
    ASSUME TypeOK, Placed, [Next]_vars
    PROVE  Placed'
<1>1. ASSUME \A s \in Shard, ih \in InfoHash :
                 swarms'[s][ih] = swarms[s][ih] \/ swarms'[s][ih] = NoSwarm
      PROVE  Placed'
  BY <1>1 DEF Placed
<1>2. ASSUME UNCHANGED swarms PROVE Placed'
  BY <1>1, <1>2
<1>3. ASSUME NEW t \in Thread, Create(t) PROVE Placed'
  <2>1. /\ shard(t) \in Shard /\ call[t].ih \in InfoHash
        /\ shard(t) = shardIndex(call[t].ih, isV6(shard(t)))
    BY ThreadShard, CallFamily
  <2>2. \A s \in Shard, ih \in InfoHash :
           swarms'[s][ih] = swarms[s][ih] \/ (s = shard(t) /\ ih = call[t].ih)
    BY SMTT(60), <1>3, <2>1 DEF Create, TypeOK
  <2> QED BY <2>1, <2>2 DEF Placed
<1>4. ASSUME GCDrop PROVE Placed'
  BY <1>1, <1>4 DEF GCDrop, TypeOK
<1>5. (\E t \in Thread : Lookup(t) \/ Remove(t) \/ Unlist(t) \/ Check(t) \/ Set(t) \/ Keys(t)
                           \/ \E c \in Call : Begin(t, c))
      \/ Tick \/ GCFire \/ GCExit \/ GCShard \/ GCNext \/ GCShardDone \/ GCScan \/ GCPurge
      \/ GCPurged \/ GCLen \/ Close \/ CloseReturn \/ UNCHANGED vars => UNCHANGED swarms
  BY DEF Lookup, Remove, Unlist, Check, Set, Keys, Begin, Tick, GCFire, GCExit, GCShard, GCNext,
         GCShardDone, GCScan, GCPurge, GCPurged, GCLen, Close, CloseReturn, vars
<1> QED BY NextCases, <1>2, <1>3, <1>4, <1>5

\* A deletion adds no peer.
LEMMA DelPeerOnly ==
    ASSUME TypeOK, NEW s, NEW o \in SwarmObj, NEW k \in Kind, NEW p \in Peer, DelPeer(s, o, k, p)
    PROVE  \A x \in SwarmObj, j \in Kind, q \in Peer :
               peers'[x][j][q] = IF x = o /\ j = k /\ q = p THEN Absent ELSE peers[x][j][q]
<1>1. CASE peers[o][k][p] # Absent
  <2>1. peers' = WithCell(peers, o, k, p, Absent)
    BY <1>1 DEF DelPeer, WithCell
  <2> QED BY SMTT(60), <2>1, WithCellAt
<1>2. CASE peers[o][k][p] = Absent
  BY <1>2 DEF DelPeer
<1> QED BY <1>1, <1>2

\* Steps that store no peer of the wrong family.
LEMMA FamilyFrame ==
    ASSUME Family,
           \A s \in Shard, ih \in InfoHash :
               swarms'[s][ih] = swarms[s][ih] \/ swarms'[s][ih] = NoSwarm,
           \A s \in Shard, ih \in InfoHash, k \in Kind, p \in Peer :
               swarms[s][ih] # NoSwarm =>
                   \/ peers'[swarms[s][ih]][k][p] = peers[swarms[s][ih]][k][p]
                   \/ peers'[swarms[s][ih]][k][p] = Absent
                   \/ Is6[p] = isV6(s),
           gcPc' = "purge" => gcPc = "purge" /\ gcDel' \subseteq gcDel /\ gcShard' = gcShard
    PROVE  Family'
<1>1. ASSUME NEW s \in Shard, NEW ih \in InfoHash, NEW k \in Kind, NEW p \in Peer,
             swarms'[s][ih] # NoSwarm, peers'[swarms'[s][ih]][k][p] # Absent
      PROVE  Is6[p] = isV6(s)
  BY SMTT(60), <1>1 DEF Family
<1>2. gcPc' = "purge" => \A p \in gcDel' : Is6[p] = isV6(gcShard')
  BY DEF Family
<1> QED BY SMTT(60), <1>1, <1>2 DEF Family, isV6

\* A thread writes its own peer to a swarm it holds.
LEMMA OwnPeer ==
    ASSUME TypeOK, Owned, Writers, NEW t \in Thread, obj[t] # NoSwarm,
           pc[t] \in {"unlist", "check", "set", "remove"},
           NEW s \in Shard, NEW ih \in InfoHash, swarms[s][ih] = obj[t]
    PROVE  Is6[call[t].p] = isV6(s) /\ s = shard(t) /\ ih = call[t].ih
<1>1. s = shard(t) /\ ih = call[t].ih
  BY DEF Owned
<1>2. call[t].op \in WriteOps
  BY DEF Writers
<1> QED BY <1>1, <1>2, CallFamily

LEMMA FamilyStep ==
    ASSUME TypeOK, Holders, Owned, Collector, Writers, Family, [Next]_vars
    PROVE  Family'
<1> USE DEF Holding
<1>1. ASSUME NEW t \in Thread, Create(t) PROVE Family'
  <2>1. CASE swarms[shard(t)][call[t].ih] # NoSwarm
    BY <1>1, <2>1, FamilyFrame DEF Create
  <2>2. CASE swarms[shard(t)][call[t].ih] = NoSwarm
    <3>1. PICK o \in SwarmObj : /\ Fresh(o)
                                /\ swarms' = [swarms EXCEPT ![shard(t)][call[t].ih] = o]
                                /\ peers' = [peers EXCEPT ![o] = NoPeers]
      BY <1>1, <2>2 DEF Create
    <3>2. \A s \in Shard, ih \in InfoHash :
             \/ swarms'[s][ih] = o
             \/ swarms'[s][ih] = swarms[s][ih] /\ swarms[s][ih] # o
      BY SMTT(60), <3>1 DEF Fresh, TypeOK
    <3>3. \A k \in Kind, p \in Peer : peers'[o][k][p] = Absent
      BY <3>1 DEF TypeOK, NoPeers
    <3>4. \A x \in SwarmObj : x # o => peers'[x] = peers[x]
      BY <3>1 DEF TypeOK
    <3>5. \A s \in Shard, ih \in InfoHash : swarms[s][ih] \in SwarmObj \cup {NoSwarm}
      BY SMTT(60) DEF TypeOK
    <3>6. UNCHANGED <<gcPc, gcDel, gcShard>>
      BY <1>1 DEF Create
    <3>7. ASSUME NEW s \in Shard, NEW ih \in InfoHash, NEW k \in Kind, NEW p \in Peer,
                 swarms'[s][ih] # NoSwarm, peers'[swarms'[s][ih]][k][p] # Absent
          PROVE  Is6[p] = isV6(s)
      BY SMTT(60), <3>2, <3>3, <3>4, <3>5, <3>7 DEF Family
    <3> QED BY SMTT(60), <3>6, <3>7 DEF Family, isV6
  <2> QED BY <2>1, <2>2
<1>2. ASSUME NEW t \in Thread, NEW k \in Kind, obj[t] # NoSwarm,
             pc[t] \in {"unlist", "check", "set", "remove"},
             UNCHANGED <<swarms, gcVars>>,
             \A x \in SwarmObj, j \in Kind, q \in Peer :
                 peers'[x][j][q] # peers[x][j][q] => x = obj[t] /\ q = call[t].p
      PROVE  Family'
  <2>1. \A s \in Shard, ih \in InfoHash : swarms[s][ih] \in SwarmObj \cup {NoSwarm}
    BY SMTT(60) DEF TypeOK
  <2>2. \A s \in Shard, ih \in InfoHash, j \in Kind, q \in Peer :
           swarms[s][ih] # NoSwarm =>
               peers'[swarms[s][ih]][j][q] = peers[swarms[s][ih]][j][q] \/ Is6[q] = isV6(s)
    BY SMTT(60), <1>2, <2>1, OwnPeer
  <2> QED BY <1>2, <2>2, FamilyFrame
<1>3. ASSUME NEW t \in Thread, Remove(t) \/ Unlist(t) PROVE Family'
  <2>1. pc[t] \in {"unlist", "remove"} /\ obj[t] # NoSwarm /\ obj[t] \in SwarmObj
    BY <1>3 DEF Remove, Unlist, Holders, TypeOK
  <2>2. PICK k \in Kind : DelPeer(shard(t), obj[t], k, call[t].p)
    BY <1>3, KindOfType DEF Remove, Unlist, Kind
  <2>3. call[t].p \in Peer
    BY ThreadShard
  <2>4. \A x \in SwarmObj, j \in Kind, q \in Peer :
           peers'[x][j][q] # peers[x][j][q] => x = obj[t] /\ q = call[t].p
    BY SMTT(60), <2>1, <2>2, <2>3, DelPeerOnly
  <2>5. UNCHANGED <<swarms, gcVars>>
    BY <1>3 DEF Remove, Unlist
  <2> QED BY <1>2, <2>1, <2>2, <2>4, <2>5
<1>4. ASSUME NEW t \in Thread, Set(t) PROVE Family'
  <2>1. pc[t] = "set" /\ obj[t] # NoSwarm /\ obj[t] \in SwarmObj
    BY <1>4 DEF Set, Holders, TypeOK
  <2>2. PICK m \in since[t] .. now :
           peers' = WithCell(peers, obj[t], kindOf(call[t].op), call[t].p, m)
    BY <1>4 DEF Set, WithCell
  <2>3. kindOf(call[t].op) \in Kind
    BY KindOfType
  <2>4. \A x \in SwarmObj, j \in Kind, q \in Peer :
           peers'[x][j][q] # peers[x][j][q] => x = obj[t] /\ q = call[t].p
    BY SMTT(60), <2>2, WithCellAt
  <2>5. UNCHANGED <<swarms, gcVars>>
    BY <1>4 DEF Set
  <2> QED BY <1>2, <2>1, <2>3, <2>4, <2>5
<1>5. ASSUME GCScan PROVE Family'
  <2>1. /\ gcObj # NoSwarm /\ swarms[gcShard][gcIh] = gcObj /\ gcShard \in Shard
        /\ gcIh \in InfoHash /\ gcKind \in Kind
    BY <1>5 DEF GCScan, Collector, TypeOK, GCPCs
  <2>2. \A p \in gcDel' : p \in Peer /\ peers[gcObj][gcKind][p] # Absent
    BY <1>5 DEF GCScan, Held
  <2>3. \A p \in gcDel' : Is6[p] = isV6(gcShard)
    BY <2>1, <2>2 DEF Family
  <2> QED BY <1>5, <2>3 DEF GCScan, Family, isV6
<1>6. ASSUME GCPurge PROVE Family'
  <2>1. PICK p \in gcDel : DelPeer(gcShard, gcObj, gcKind, p) /\ gcDel' = gcDel \ {p}
    BY <1>6 DEF GCPurge
  <2>2. gcObj \in SwarmObj /\ gcKind \in Kind /\ p \in Peer
    BY <1>6, <2>1 DEF GCPurge, Collector, TypeOK
  <2>5. \A x \in SwarmObj, j \in Kind, q \in Peer :
           peers'[x][j][q] = IF x = gcObj /\ j = gcKind /\ q = p THEN Absent ELSE peers[x][j][q]
    BY SMTT(60), <2>1, <2>2, DelPeerOnly
  <2>3. \A x \in SwarmObj, j \in Kind, q \in Peer :
           peers'[x][j][q] = peers[x][j][q] \/ peers'[x][j][q] = Absent
    BY SMTT(60), <2>5
  <2>4. \A s \in Shard, ih \in InfoHash : swarms[s][ih] \in SwarmObj \cup {NoSwarm}
    BY SMTT(60) DEF TypeOK
  <2> QED BY SMTT(60), <1>6, <2>1, <2>3, <2>4, FamilyFrame DEF GCPurge
<1>7. ASSUME GCDrop PROVE Family'
  BY <1>7, FamilyFrame DEF GCDrop, TypeOK
<1>8. ASSUME UNCHANGED <<swarms, peers>>,
             gcPc' = "purge" => gcPc = "purge" /\ UNCHANGED <<gcDel, gcShard>>
      PROVE  Family'
  BY <1>8, FamilyFrame
<1>9. (\E t \in Thread : Lookup(t) \/ Check(t) \/ Keys(t) \/ \E c \in Call : Begin(t, c))
      \/ Tick \/ Close \/ CloseReturn \/ UNCHANGED vars
         => UNCHANGED <<swarms, peers, gcPc, gcDel, gcShard>>
  BY DEF Lookup, Check, Keys, Begin, Tick, Close, CloseReturn, vars
<1>10. GCFire \/ GCExit \/ GCShard \/ GCNext \/ GCShardDone \/ GCPurged \/ GCLen
          => /\ UNCHANGED <<swarms, peers>>
             /\ gcPc' # "purge" \/ UNCHANGED <<gcPc, gcDel, gcShard>>
  BY DEF GCFire, GCExit, GCShard, GCNext, GCShardDone, GCPurged, GCLen
<1> QED BY NextCases, <1>1, <1>3, <1>4, <1>5, <1>6, <1>7, <1>8, <1>9, <1>10

LEMMA CutoffStep ==
    ASSUME TypeOK, Cutoff, [Next]_vars
    PROVE  Cutoff'
<1>1. PeerLifeTime \in Nat /\ now \in Nat /\ gcCutoff \in Int
  BY StoreAssumption DEF TypeOK
<1>2. ASSUME now' = now \/ now' = now + 1, UNCHANGED gcCutoff,
             gcPc' \notin {"select", "exited"} => gcPc \notin {"select", "exited"}
      PROVE  Cutoff'
  BY SMTT(60), <1>1, <1>2 DEF Cutoff
<1>3. ASSUME GCFire PROVE Cutoff'
  BY SMTT(60), <1>1, <1>3 DEF GCFire, Cutoff
<1>4. (\E t \in Thread : Lookup(t) \/ Create(t) \/ Remove(t) \/ Unlist(t) \/ Check(t) \/ Set(t)
                           \/ Keys(t) \/ \E c \in Call : Begin(t, c))
      \/ Tick \/ Close \/ CloseReturn \/ UNCHANGED vars
         => (now' = now \/ now' = now + 1) /\ UNCHANGED <<gcCutoff, gcPc>>
  BY DEF Lookup, Create, Remove, Unlist, Check, Set, Keys, Begin, Tick, Close, CloseReturn, vars
<1>5. GCExit \/ GCShard \/ GCNext \/ GCShardDone \/ GCScan \/ GCPurge \/ GCPurged \/ GCLen
         \/ GCDrop
         => /\ UNCHANGED <<now, gcCutoff>>
            /\ gcPc' \notin {"select", "exited"} => gcPc \notin {"select", "exited"}
  BY DEF GCExit, GCShard, GCNext, GCShardDone, GCScan, GCPurge, GCPurged, GCLen, GCDrop
<1> QED BY NextCases, <1>2, <1>3, <1>4, <1>5

\* The invariant of the refinement holds in every state.
LEMMA RefinementInvariant == Spec => []RInv
<1>1. Init => RInv
  <2> SUFFICES ASSUME Init PROVE RInv
    OBVIOUS
  <2>1. TypeOK
    BY InitType
  <2>2. Holders /\ Owned /\ OneSwarm /\ Collector /\ GCSnapshotLive
    BY DEF Init, Holders, Holding, Owned, OneSwarm, Collector, GCSnapshotLive, GCPCs
  <2>3. Writers /\ Placed /\ Family /\ Cutoff
    BY DEF Init, Writers, Placed, Family, Cutoff
  <2> QED BY <2>1, <2>2, <2>3 DEF RInv
<1>2. RInv /\ [Next]_vars => RInv'
  BY TypeStep, HoldersStep, OwnedStep, CollectorStep, WritersStep, PlacedStep, FamilyStep,
     CutoffStep DEF RInv
<1> QED BY <1>1, <1>2, PTL DEF Spec

----------------------------------------------------------------------------
(* What SwarmStore sees of a state.                                        *)

LEMMA TableSame ==
    ASSUME \A ih \in InfoHash, k \in Kind, p \in Peer : cell(ih, k, p)' = cell(ih, k, p)
    PROVE  tableOf' = tableOf
BY DEF tableOf

LEMMA TableUpdate ==
    ASSUME NEW i \in InfoHash, NEW j \in Kind, NEW q \in Peer, NEW v,
           \A ih \in InfoHash, k \in Kind, p \in Peer :
               cell(ih, k, p)' = IF ih = i /\ k = j /\ p = q THEN v ELSE cell(ih, k, p)
    PROVE  tableOf' = [tableOf EXCEPT ![i][j][q] = v]
<1> DEFINE row(ih, k) == [p \in Peer |-> cell(ih, k, p)]
<1>1. ASSUME NEW ih \in InfoHash, NEW k \in Kind, ih # i \/ k # j
      PROVE  row(ih, k)' = row(ih, k)
  BY <1>1
<1>2. row(i, j)' = [row(i, j) EXCEPT ![q] = v]
  OBVIOUS
<1> HIDE DEF row
<1>3. [k \in Kind |-> row(i, k)'] =
         [[k \in Kind |-> row(i, k)] EXCEPT ![j] = [row(i, j) EXCEPT ![q] = v]]
  BY <1>1, <1>2
<1>4. [ih \in InfoHash |-> [k \in Kind |-> row(ih, k)']] =
          [[ih \in InfoHash |-> [k \in Kind |-> row(ih, k)]]
              EXCEPT ![i] = [k \in Kind |-> row(i, k)']]
  <2>1. ASSUME NEW ih \in InfoHash, ih # i
        PROVE  [k \in Kind |-> row(ih, k)'] = [k \in Kind |-> row(ih, k)]
    BY <1>1, <2>1
  <2> QED BY <2>1
<1>5. tableOf = [ih \in InfoHash |-> [k \in Kind |-> row(ih, k)]]
  BY DEF tableOf, row
<1>6. tableOf' = [ih \in InfoHash |-> [k \in Kind |-> row(ih, k)']]
  BY DEF tableOf, row
<1> QED BY <1>3, <1>4, <1>5, <1>6

\* A thread's write to the swarm it holds is a write to the table, unless that
\* swarm is not in the map any more.
LEMMA WriteTable ==
    ASSUME RInv, NEW t \in Thread, pc[t] \in {"unlist", "set", "remove"},
           NEW k \in Kind, NEW m, UNCHANGED swarms,
           \A x \in SwarmObj, j \in Kind, q \in Peer :
               peers'[x][j][q] = IF x = obj[t] /\ j = k /\ q = call[t].p
                                 THEN m ELSE peers[x][j][q]
    PROVE  Store!Put(t, k, m)
<1> USE DEF RInv
<1>1. obj[t] # NoSwarm /\ obj[t] \in SwarmObj
  BY SMTT(60) DEF Holders, Holding, TypeOK
<1>2. /\ call[t].ih \in InfoHash /\ call[t].p \in Peer /\ shard(t) \in Shard
      /\ shard(t) = shardIndex(call[t].ih, Is6[call[t].p])
  <2>1. call[t].op \in WriteOps
    BY DEF Writers
  <2> QED BY <2>1, ThreadShard, CallFamily
<1>3. \A s \in Shard, ih \in InfoHash :
         swarms[s][ih] = obj[t] => s = shard(t) /\ ih = call[t].ih
  BY <1>1 DEF Owned
<1>4. \A ih \in InfoHash, p \in Peer :
         /\ shardIndex(ih, Is6[p]) \in Shard
         /\ swarms[shardIndex(ih, Is6[p])][ih] \in SwarmObj \cup {NoSwarm}
  BY SMTT(60), ShardIndexType, StoreAssumption DEF TypeOK
<1>5. CASE t \in exposedOf
  <2>1. swarms[shard(t)][call[t].ih] # obj[t]
    BY <1>5 DEF exposedOf
  <2>2. \A ih \in InfoHash, j \in Kind, p \in Peer : cell(ih, j, p)' = cell(ih, j, p)
    BY SMTT(60), <1>3, <1>4, <2>1 DEF cell
  <2> QED BY <1>5, <2>2, TableSame DEF Store!Put
<1>6. CASE t \notin exposedOf
  <2>1. swarms[shard(t)][call[t].ih] = obj[t]
    BY <1>1, <1>6 DEF exposedOf
  <2>2. ASSUME NEW ih \in InfoHash, NEW j \in Kind, NEW p \in Peer
        PROVE  cell(ih, j, p)' = IF ih = call[t].ih /\ j = k /\ p = call[t].p
                                 THEN m ELSE cell(ih, j, p)
    <3> DEFINE o == swarms[shardIndex(ih, Is6[p])][ih]
    <3>1. o \in SwarmObj \cup {NoSwarm} /\ (o = obj[t] => ih = call[t].ih)
      BY <1>3, <1>4
    <3>2. ih = call[t].ih /\ p = call[t].p => o = obj[t]
      BY <1>2, <2>1
    <3>3. CASE o = NoSwarm
      BY SMTT(60), <1>1, <3>2, <3>3 DEF cell
    <3>4. CASE o # NoSwarm
      <4>1. cell(ih, j, p)' = peers'[o][j][p] /\ cell(ih, j, p) = peers[o][j][p]
        BY SMTT(60), <1>2, <3>4 DEF cell
      <4> HIDE DEF o
      <4> QED BY SMTT(60), <1>2, <3>1, <3>2, <3>4, <4>1
    <3> QED BY <3>3, <3>4
  <2>3. tableOf' = [tableOf EXCEPT ![call[t].ih][k][call[t].p] = m]
    BY SMTT(60), <1>2, <2>2, TableUpdate
  <2> QED BY <1>6, <2>3 DEF Store!Put
<1> QED BY <1>5, <1>6

LEMMA TableFrame == ASSUME UNCHANGED <<swarms, peers>> PROVE tableOf' = tableOf
BY DEF tableOf, cell

LEMMA ExposedFrame == ASSUME UNCHANGED <<swarms, call, obj>> PROVE exposedOf' = exposedOf
BY DEF exposedOf, shard

LEMMA CollectorSeen == ASSUME UNCHANGED gcVars PROVE UNCHANGED <<doomedOf, seenEmptyOf>>
BY DEF doomedOf, seenEmptyOf, isV6

LEMMA PhaseFrame == ASSUME UNCHANGED <<pc, call>> PROVE phaseOf' = phaseOf
BY DEF phaseOf

LEMMA PhaseUpdate ==
    ASSUME TypeOK, NEW t \in Thread, NEW w, UNCHANGED call, pc' = [pc EXCEPT ![t] = w]
    PROVE  phaseOf' = [phaseOf EXCEPT ![t] = phaseAt(w, call[t].op)]
BY DEF phaseOf, TypeOK

LEMMA ReturnSim ==
    ASSUME TypeOK, NEW t \in Thread, UNCHANGED <<call, swarms>>,
           pc' = [pc EXCEPT ![t] = "idle"], obj' = [obj EXCEPT ![t] = NoSwarm]
    PROVE  Store!Return(t)
<1>1. phaseAt("idle", call[t].op) = "idle"
  BY DEF phaseAt
<1>2. phaseOf' = [phaseOf EXCEPT ![t] = "idle"]
  BY <1>1, PhaseUpdate
<1>3. exposedOf' = exposedOf \ {t}
  BY DEF exposedOf, shard, TypeOK
<1> QED BY <1>2, <1>3 DEF Store!Return

----------------------------------------------------------------------------
(* The steps of the threads.                                               *)

\* Deleting the call's peer from one of its swarm's maps.
LEMMA DelSim ==
    ASSUME RInv, NEW t \in Thread, pc[t] \in {"unlist", "remove"}, NEW k \in Kind,
           DelPeer(shard(t), obj[t], k, call[t].p), UNCHANGED swarms
    PROVE  Store!Put(t, k, Absent)
<1>1. obj[t] \in SwarmObj /\ call[t].p \in Peer /\ TypeOK
  BY ThreadShard DEF RInv, Holders, Holding, TypeOK
<1>2. \A x \in SwarmObj, j \in Kind, q \in Peer :
         peers'[x][j][q] = IF x = obj[t] /\ j = k /\ q = call[t].p
                           THEN Absent ELSE peers[x][j][q]
  <2> DEFINE o == obj[t]
             p == call[t].p
  <2>1. o \in SwarmObj /\ p \in Peer /\ DelPeer(shard(t), o, k, p)
    BY <1>1
  <2> HIDE DEF o, p
  <2>2. \A x \in SwarmObj, j \in Kind, q \in Peer :
           peers'[x][j][q] = IF x = o /\ j = k /\ q = p THEN Absent ELSE peers[x][j][q]
    BY SMTT(60), <1>1, <2>1, DelPeerOnly
  <2> QED BY <2>2 DEF o, p
<1> QED BY <1>2, WriteTable

LEMMA RemoveSim ==
    ASSUME RInv, NEW t \in Thread, Remove(t) PROVE Store!Remove(t)
<1>1. phaseOf[t] = "remove"
  BY DEF Remove, phaseOf, phaseAt
<1>2. Store!Put(t, kindOf(call[t].op), Absent)
  BY DelSim, KindOfType DEF Remove
<1>3. Store!Return(t)
  BY ReturnSim DEF Remove, RInv
<1>4. UNCHANGED <<now, call, since, found, doomedOf, seenEmptyOf>>
  BY CollectorSeen DEF Remove
<1>5. Store!kindOf(call[t].op) = kindOf(call[t].op) /\ Store!Absent = Absent
  BY DEF kindOf, Store!kindOf, Store!Absent, Absent
<1> QED BY <1>1, <1>2, <1>3, <1>4, <1>5 DEF Store!Remove

LEMMA UnlistSim ==
    ASSUME RInv, NEW t \in Thread, Unlist(t) PROVE Store!Leave(t)
<1>1. phaseOf[t] = "leave"
  BY DEF Unlist, phaseOf, phaseAt
<1>2. Store!Put(t, "leechers", Absent)
  BY DelSim DEF Unlist, Kind
<1>3. phaseAt("check", call[t].op) = "enter"
  BY DEF phaseAt
<1>4. phaseOf' = [phaseOf EXCEPT ![t] = "enter"]
  BY <1>3, PhaseUpdate DEF Unlist, RInv
<1>5. UNCHANGED <<now, call, since, found, exposedOf, doomedOf, seenEmptyOf>>
  BY CollectorSeen, ExposedFrame DEF Unlist
<1> QED BY <1>1, <1>2, <1>4, <1>5 DEF Store!Leave, Store!Absent, Absent

LEMMA CheckSim ==
    ASSUME RInv, NEW t \in Thread, Check(t) PROVE Store!Look(t)
<1>1. phaseOf[t] = "enter"
  BY DEF Check, phaseOf, phaseAt
<1>2. phaseAt("set", call[t].op) = "write"
  BY DEF phaseAt
<1>3. phaseOf' = [phaseOf EXCEPT ![t] = "write"]
  BY <1>2, PhaseUpdate DEF Check, RInv
<1>4. UNCHANGED <<now, tableOf, call, found, exposedOf, doomedOf, seenEmptyOf>>
  BY CollectorSeen, ExposedFrame, TableFrame DEF Check
<1> QED BY <1>1, <1>3, <1>4 DEF Store!Look, Check

LEMMA SetSim ==
    ASSUME RInv, NEW t \in Thread, Set(t) PROVE Store!Write(t)
<1>1. phaseOf[t] = "write"
  BY DEF Set, phaseOf, phaseAt
<1>2. \E m \in since[t] .. now : Store!Put(t, kindOf(call[t].op), m)
  <2>1. PICK m \in since[t] .. now :
           peers' = WithCell(peers, obj[t], kindOf(call[t].op), call[t].p, m)
    BY DEF Set, WithCell
  <2>2. \A x \in SwarmObj, j \in Kind, q \in Peer :
           peers'[x][j][q] = IF x = obj[t] /\ j = kindOf(call[t].op) /\ q = call[t].p
                             THEN m ELSE peers[x][j][q]
    BY SMTT(60), <2>1, WithCellAt DEF RInv
  <2>3. UNCHANGED swarms /\ pc[t] = "set" /\ kindOf(call[t].op) \in Kind
    BY KindOfType DEF Set
  <2> QED BY <2>2, <2>3, WriteTable
<1>3. Store!Return(t)
  BY ReturnSim DEF Set, RInv
<1>4. UNCHANGED <<now, call, found, doomedOf, seenEmptyOf>>
  BY CollectorSeen DEF Set
<1>5. Store!kindOf(call[t].op) = kindOf(call[t].op)
  BY DEF kindOf, Store!kindOf
<1>6. since' = [since EXCEPT ![t] = 0]
  BY DEF Set
<1> QED BY <1>1, <1>2, <1>3, <1>4, <1>5, <1>6 DEF Store!Write

\* The peers of an info hash and a family are those of its swarm, if it has one.
LEMMA StoredHeld ==
    ASSUME RInv, NEW ih \in InfoHash, NEW v \in BOOLEAN, NEW k \in Kind
    PROVE  LET o == swarms[shardIndex(ih, v)][ih]
           IN  Store!Stored(ih, v, k) = IF o = NoSwarm THEN {} ELSE Held(o, k)
<1>1. \A p \in Peer : tableOf[ih][k][p] = cell(ih, k, p)
  BY DEF tableOf
<1>2. shardIndex(ih, v) \in Shard /\ isV6(shardIndex(ih, v)) = v
  BY ShardIndexType, ShardV6
<1>3. Store!Stored(ih, v, k) = {p \in Peer : Is6[p] = v /\ cell(ih, k, p) # Absent}
  BY <1>1 DEF Store!Stored, Store!Absent, Absent
<1>4. \A p \in Peer : (swarms[shardIndex(ih, v)][ih] # NoSwarm
                       /\ peers[swarms[shardIndex(ih, v)][ih]][k][p] # Absent) => Is6[p] = v
  BY <1>2 DEF RInv, Family
<1> QED BY <1>3, <1>4 DEF cell, Held

\* Both modules count alike.
LEMMA SameCount == ASSUME NEW S PROVE Store!Cardinality(S) = Cardinality(S)
BY DEF Store!Cardinality, Cardinality, Store!IsFiniteSet, IsFiniteSet

LEMMA KeysSim ==
    ASSUME RInv, NEW t \in Thread, Keys(t) PROVE Store!Read(t)
<1> DEFINE c == call[t]
           k == IF c.forSeeder \/ pc[t] = "keysLeechers" THEN "leechers" ELSE "seeders"
           S == Held(obj[t], k)
           want == c.numWant - Cardinality(found[t])
           most == IF want > 1 THEN want ELSE 1
<1>1. pc[t] \in {"keys", "keysLeechers"}
  BY DEF Keys
<1>2. /\ phaseOf[t] \in {"read", "readLeechers"}
      /\ phaseOf[t] = "readLeechers" <=> pc[t] = "keysLeechers"
  BY <1>1 DEF phaseOf, phaseAt
<1>3. k \in Kind /\ S \in SUBSET Peer
  BY DEF Kind, Held
<1>4. t \notin exposedOf => S = Store!Stored(c.ih, Store!family(c), k)
  <2>1. obj[t] # NoSwarm /\ TypeOK
    BY <1>1 DEF RInv, Holders, Holding
  <2>2. c.ih \in InfoHash /\ Store!family(c) \in BOOLEAN
        /\ shard(t) = shardIndex(c.ih, Store!family(c))
    BY <2>1, CallFamily, ThreadShard
  <2>3. t \notin exposedOf => swarms[shardIndex(c.ih, Store!family(c))][c.ih] = obj[t]
    BY <2>1, <2>2 DEF exposedOf
  <2> HIDE DEF k
  <2> QED BY SMTT(60), <1>3, <2>1, <2>2, <2>3, StoredHeld
<1>5. PICK T \in SUBSET S :
         /\ Cardinality(T) = most \/ (T = S /\ Cardinality(T) < most)
         /\ found' = [found EXCEPT ![t] = @ \cup ({k} \X T)]
         /\ IF k = "seeders" /\ (T = {} \/ Cardinality(T) < c.numWant)
            THEN pc' = [pc EXCEPT ![t] = "keysLeechers"] /\ UNCHANGED obj
            ELSE pc' = [pc EXCEPT ![t] = "idle"] /\ obj' = [obj EXCEPT ![t] = NoSwarm]
  BY DEF Keys, Taken
<1>6. UNCHANGED <<now, tableOf, call, since, doomedOf, seenEmptyOf, swarms>>
  BY CollectorSeen, TableFrame DEF Keys
<1>7. IF k = "seeders" /\ (T = {} \/ Cardinality(T) < c.numWant)
      THEN phaseOf' = [phaseOf EXCEPT ![t] = "readLeechers"] /\ UNCHANGED exposedOf
      ELSE Store!Return(t)
  <2>1. phaseAt("keysLeechers", c.op) = "readLeechers" /\ TypeOK
    BY DEF phaseAt, RInv
  <2> HIDE DEF k
  <2> QED BY <1>5, <1>6, <2>1, PhaseUpdate, ReturnSim, ExposedFrame
<1>8. Store!reading(t) = k
  BY <1>2 DEF Store!reading
<1> HIDE DEF k, S
<1>9. \E S1 \in SUBSET Peer : \E T1 \in SUBSET S1 :
         /\ t \notin exposedOf => S1 = Store!Stored(c.ih, Store!family(c), Store!reading(t))
         /\ Cardinality(T1) = most \/ (T1 = S1 /\ Cardinality(T1) < most)
         /\ found' = [found EXCEPT ![t] = @ \cup ({Store!reading(t)} \X T1)]
         /\ IF Store!reading(t) = "seeders" /\ (T1 = {} \/ Cardinality(T1) < c.numWant)
            THEN phaseOf' = [phaseOf EXCEPT ![t] = "readLeechers"] /\ UNCHANGED exposedOf
            ELSE Store!Return(t)
  <2> HIDE DEF most, c
  <2> QED BY <1>3, <1>4, <1>5, <1>7, <1>8
<1> QED BY <1>2, <1>6, <1>9, SameCount DEF Store!Read

LEMMA BeginSim ==
    ASSUME RInv, NEW t \in Thread, NEW c \in Call, Begin(t, c)
    PROVE  Store!Begin(t, c) \/ UNCHANGED Store!vars
<1>1. UNCHANGED <<tableOf, doomedOf, seenEmptyOf>>
  BY CollectorSeen, TableFrame DEF Begin
<1>2. CASE closed
  <2>1. UNCHANGED <<phaseOf, exposedOf>>
    BY <1>2, PhaseFrame, ExposedFrame DEF Begin
  <2> QED BY <1>1, <1>2, <2>1 DEF Begin, Store!vars
<1>3. CASE ~closed
  <2>1. phaseOf[t] = "idle" /\ phaseAt("lookup", c.op) = Store!First(c.op)
    BY DEF Begin, phaseOf, phaseAt, firstPhase, Store!First
  <2>2. phaseOf' = [phaseOf EXCEPT ![t] = phaseAt("lookup", c.op)]
    BY <1>3 DEF Begin, phaseOf, RInv, TypeOK
  <2>3. exposedOf' = exposedOf
    <3>1. obj[t] = NoSwarm /\ UNCHANGED <<obj, swarms>>
      BY <1>3 DEF Begin, RInv, Holders, Holding
    <3>2. \A u \in Thread : u # t => call'[u] = call[u]
      BY SMTT(60), <1>3 DEF Begin, RInv, TypeOK
    <3> QED BY <3>1, <3>2 DEF exposedOf, shard
  <2> QED BY <1>1, <1>3, <2>1, <2>2, <2>3 DEF Begin, Store!Begin
<1> QED BY <1>2, <1>3

\* Getting hold of a swarm changes nothing SwarmStore sees of the thread.
LEMMA FoundPhase ==
    ASSUME TypeOK, NEW t \in Thread, pc[t] \in {"lookup", "create"},
           UNCHANGED call, pc' = [pc EXCEPT ![t] = AfterLookup(call[t].op)]
    PROVE  phaseOf' = phaseOf
<1>1. call[t].op \in WriteOps \cup {"AnnouncePeers"}
  BY ThreadShard DEF CallType
<1>2. phaseAt(AfterLookup(call[t].op), call[t].op) = phaseAt(pc[t], call[t].op)
  BY <1>1 DEF WriteOps, AfterLookup, phaseAt, firstPhase
<1> QED BY SMTT(60), <1>2, PhaseUpdate DEF phaseOf

LEMMA LookupSim ==
    ASSUME RInv, NEW t \in Thread, Lookup(t)
    PROVE  Store!Nothing(t) \/ UNCHANGED Store!vars
<1> DEFINE o == swarms[shard(t)][call[t].ih]
<1>1. UNCHANGED <<now, tableOf, call, since, found, doomedOf, seenEmptyOf, swarms>>
  BY CollectorSeen, TableFrame DEF Lookup
<1>2. pc[t] = "lookup" /\ obj[t] = NoSwarm /\ TypeOK
  BY DEF Lookup, RInv, Holders, Holding
<1>3. call[t].op \in WriteOps \cup {"AnnouncePeers"}
  BY <1>2, ThreadShard DEF CallType
<1>4. CASE o # NoSwarm
  <2>1. phaseOf' = phaseOf
    BY <1>1, <1>2, <1>4, FoundPhase DEF Lookup
  <2>2. obj' = [obj EXCEPT ![t] = o]
    BY <1>4 DEF Lookup
  <2>3. exposedOf' = exposedOf
    BY <1>1, <1>2, <2>2 DEF exposedOf, shard, TypeOK
  <2> QED BY <1>1, <2>1, <2>3 DEF Store!vars
<1>5. CASE o = NoSwarm /\ call[t].op \in {"PutSeeder", "PutLeecher", "GraduateLeecher"}
  <2>1. pc' = [pc EXCEPT ![t] = "create"] /\ UNCHANGED obj
    BY <1>5 DEF Lookup
  <2>2. phaseAt("create", call[t].op) = phaseAt(pc[t], call[t].op)
    BY <1>2 DEF phaseAt
  <2>3. phaseOf' = phaseOf
    BY SMTT(60), <1>1, <1>2, <2>1, <2>2, PhaseUpdate DEF phaseOf
  <2> QED BY <1>1, <2>1, <2>3, ExposedFrame DEF Store!vars
<1>6. CASE o = NoSwarm /\ call[t].op \notin {"PutSeeder", "PutLeecher", "GraduateLeecher"}
  <2>1. pc' = [pc EXCEPT ![t] = "idle"] /\ UNCHANGED obj
    BY <1>6 DEF Lookup
  <2>2. phaseOf[t] \in {"remove", "read"}
    BY <1>2, <1>3, <1>6 DEF phaseOf, phaseAt, firstPhase, WriteOps
  <2>3. phaseAt("idle", call[t].op) = "idle"
    BY DEF phaseAt
  <2>4. phaseOf' = [phaseOf EXCEPT ![t] = "idle"]
    BY <1>1, <1>2, <2>1, <2>3, PhaseUpdate
  <2>5. t \notin exposedOf /\ exposedOf' = exposedOf
    BY <1>1, <1>2, <2>1, ExposedFrame DEF exposedOf
  <2>6. \A k \in Kind : Store!Stored(call[t].ih, Store!family(call[t]), k) = {}
    BY SMTT(60), <1>2, <1>6, CallFamily, ThreadShard, StoredHeld
  <2> QED BY <1>1, <2>2, <2>4, <2>5, <2>6 DEF Store!Nothing, Store!Kind, Kind
<1> QED BY <1>4, <1>5, <1>6

LEMMA CreateSim ==
    ASSUME RInv, NEW t \in Thread, Create(t) PROVE UNCHANGED Store!vars
<1> DEFINE s == shard(t)
           i == call[t].ih
<1>1. UNCHANGED <<now, call, since, found, doomedOf, seenEmptyOf>>
  BY CollectorSeen DEF Create
<1>2. pc[t] = "create" /\ obj[t] = NoSwarm /\ TypeOK
  BY DEF Create, RInv, Holders, Holding
<1>3. phaseOf' = phaseOf
  BY <1>1, <1>2, FoundPhase DEF Create
<1>4. s \in Shard /\ i \in InfoHash
  BY <1>2, ThreadShard
<1>5. CASE swarms[s][i] # NoSwarm
  <2>1. obj' = [obj EXCEPT ![t] = swarms[s][i]] /\ UNCHANGED <<swarms, peers>>
    BY <1>5 DEF Create
  <2>2. exposedOf' = exposedOf
    BY <1>1, <1>2, <2>1 DEF exposedOf, shard, TypeOK
  <2> QED BY <1>1, <1>3, <2>1, <2>2, TableFrame DEF Store!vars
<1>6. CASE swarms[s][i] = NoSwarm
  <2>1. PICK o \in SwarmObj :
           /\ Fresh(o)
           /\ swarms' = [swarms EXCEPT ![s][i] = o]
           /\ peers' = [peers EXCEPT ![o] = NoPeers]
           /\ obj' = [obj EXCEPT ![t] = o]
    BY <1>6 DEF Create
  <2>2. \A r \in Shard, ih \in InfoHash :
           swarms'[r][ih] = IF r = s /\ ih = i THEN o ELSE swarms[r][ih]
    BY SMTT(60), <1>2, <2>1 DEF TypeOK
  <2>3. \A ih \in InfoHash, k \in Kind, p \in Peer : cell(ih, k, p)' = cell(ih, k, p)
    <3>1. \A ih \in InfoHash, p \in Peer :
             /\ shardIndex(ih, Is6[p]) \in Shard
             /\ swarms[shardIndex(ih, Is6[p])][ih] \in SwarmObj \cup {NoSwarm}
      BY SMTT(60), <1>2, ShardIndexType, StoreAssumption DEF TypeOK
    <3>2. \A k \in Kind, p \in Peer : peers'[o][k][p] = Absent
      BY <1>2, <2>1 DEF NoPeers, TypeOK
    <3>3. \A x \in SwarmObj : x # o => peers'[x] = peers[x]
      BY <1>2, <2>1 DEF TypeOK
    <3>4. \A r \in Shard, ih \in InfoHash : swarms[r][ih] # o
      BY <2>1 DEF Fresh
    <3>5. o # NoSwarm
      BY StoreAssumption
    <3> QED BY SMTT(60), <1>6, <2>2, <3>1, <3>2, <3>3, <3>4, <3>5 DEF cell
  <2>4. exposedOf' = exposedOf
    <3>1. \A u \in Thread : shard(u) \in Shard /\ call[u].ih \in InfoHash /\ shard(u)' = shard(u)
      BY <1>1, <1>2, ThreadShard, ShardFrame
    <3>2. \A u \in Thread : obj[u] # o /\ obj'[u] = IF u = t THEN o ELSE obj[u]
      BY <1>2, <2>1 DEF Fresh, TypeOK
    <3> QED BY SMTT(60), <1>1, <1>2, <1>6, <2>2, <3>1, <3>2 DEF exposedOf
  <2> QED BY <1>1, <1>3, <2>3, <2>4, TableSame DEF Store!vars
<1> QED BY <1>5, <1>6

----------------------------------------------------------------------------
(* The steps of the collector.                                             *)

\* The swarm gc works on is that of its info hash and its shard's family.
LEMMA Collected ==
    ASSUME RInv, gcPc \in {"scan", "purge", "len", "drop"}
    PROVE  /\ gcShard \in Shard /\ gcIh \in InfoHash /\ gcKind \in Kind
           /\ gcObj \in SwarmObj /\ gcObj # NoSwarm
           /\ swarms[gcShard][gcIh] = gcObj
           /\ isV6(gcShard) \in BOOLEAN
           /\ gcShard = shardIndex(gcIh, isV6(gcShard))
           /\ \A k \in Kind : Store!Stored(gcIh, isV6(gcShard), k) = Held(gcObj, k)
<1>1. gcShard \in Shard /\ gcIh \in InfoHash /\ gcKind \in Kind
  BY DEF RInv, TypeOK, GCPCs
<1>2. swarms[gcShard][gcIh] = gcObj /\ gcObj # NoSwarm
  BY DEF RInv, Collector
<1>3. gcObj \in SwarmObj
  BY <1>1, <1>2 DEF RInv, TypeOK
<1>4. gcShard = shardIndex(gcIh, isV6(gcShard)) /\ isV6(gcShard) \in BOOLEAN
  BY <1>1, <1>2, IsV6Type DEF RInv, Placed
<1>5. \A k \in Kind : Store!Stored(gcIh, isV6(gcShard), k) = Held(gcObj, k)
  BY SMTT(60), <1>1, <1>2, <1>4, StoredHeld
<1> QED BY <1>1, <1>2, <1>3, <1>4, <1>5

\* The threads see nothing of a step that leaves the store and them alone.
LEMMA ThreadsSeen ==
    ASSUME UNCHANGED <<swarms, pc, call, obj>> PROVE UNCHANGED <<phaseOf, exposedOf>>
BY PhaseFrame, ExposedFrame

LEMMA ScanSim ==
    ASSUME RInv, GCScan PROVE Store!Doom(gcIh, isV6(gcShard), gcKind)
<1>1. gcPc = "scan" /\ gcPc' = "purge" /\ UNCHANGED <<gcIh, gcKind, gcShard>>
  BY DEF GCScan
<1>2. /\ gcIh \in InfoHash /\ gcKind \in Kind /\ gcObj # NoSwarm
      /\ swarms[gcShard][gcIh] = gcObj
      /\ gcShard = shardIndex(gcIh, isV6(gcShard))
      /\ Store!Stored(gcIh, isV6(gcShard), gcKind) = Held(gcObj, gcKind)
  BY <1>1, Collected
<1>3. gcCutoff \in -PeerLifeTime .. now - PeerLifeTime
  BY <1>1 DEF RInv, Cutoff
<1>4. \A q \in Held(gcObj, gcKind) : tableOf[gcIh][gcKind][q] = peers[gcObj][gcKind][q]
  <2> SUFFICES ASSUME NEW q \in Held(gcObj, gcKind)
               PROVE  tableOf[gcIh][gcKind][q] = peers[gcObj][gcKind][q]
    OBVIOUS
  <2>1. q \in Peer /\ Is6[q] = isV6(gcShard)
    BY <1>2 DEF Store!Stored
  <2>2. tableOf[gcIh][gcKind][q] = cell(gcIh, gcKind, q)
    BY <1>2, <2>1 DEF tableOf
  <2> QED BY <1>2, <2>1, <2>2 DEF cell
<1>5. gcDel' = {q \in Held(gcObj, gcKind) : tableOf[gcIh][gcKind][q] <= gcCutoff}
  BY <1>4 DEF GCScan
<1>6. doomedOf = {} /\ doomedOf' = {<<gcIh, gcKind, p>> : p \in gcDel'}
  BY <1>1 DEF doomedOf
<1>7. UNCHANGED <<now, tableOf, call, phaseOf, since, found, exposedOf>>
  BY TableFrame, ThreadsSeen DEF GCScan
<1>8. seenEmptyOf = {} /\ seenEmptyOf' = {}
  BY <1>1 DEF seenEmptyOf
<1> QED BY <1>2, <1>3, <1>5, <1>6, <1>7, <1>8 DEF Store!Doom

LEMMA PurgeSim ==
    ASSUME RInv, GCPurge PROVE \E x \in doomedOf : Store!Collect(x)
<1>1. PICK p \in gcDel : DelPeer(gcShard, gcObj, gcKind, p) /\ gcDel' = gcDel \ {p}
  BY DEF GCPurge
<1>2. gcPc = "purge" /\ UNCHANGED <<gcPc, gcIh, gcKind, gcShard, gcObj, swarms>>
  BY DEF GCPurge
<1>3. /\ gcShard \in Shard /\ gcIh \in InfoHash /\ gcKind \in Kind
      /\ gcObj \in SwarmObj /\ gcObj # NoSwarm
      /\ swarms[gcShard][gcIh] = gcObj
      /\ gcShard = shardIndex(gcIh, isV6(gcShard))
  BY <1>2, Collected
<1>4. p \in Peer /\ Is6[p] = isV6(gcShard)
  BY <1>1, <1>2 DEF RInv, TypeOK, Family
<1>5. \A x \in SwarmObj, j \in Kind, q \in Peer :
         peers'[x][j][q] = IF x = gcObj /\ j = gcKind /\ q = p THEN Absent ELSE peers[x][j][q]
  BY SMTT(60), <1>1, <1>3, <1>4, DelPeerOnly DEF RInv
<1>6. tableOf' = [tableOf EXCEPT ![gcIh][gcKind][p] = Absent]
  <2>1. \A ih \in InfoHash, q \in Peer :
           /\ shardIndex(ih, Is6[q]) \in Shard
           /\ swarms[shardIndex(ih, Is6[q])][ih] \in SwarmObj \cup {NoSwarm}
    BY SMTT(60), ShardIndexType, StoreAssumption DEF RInv, TypeOK
  <2>2. \A s \in Shard, ih \in InfoHash : swarms[s][ih] = gcObj => s = gcShard /\ ih = gcIh
    BY SMTT(60), <1>3 DEF RInv, Owned
  <2>3. \A ih \in InfoHash, k \in Kind, q \in Peer :
           cell(ih, k, q)' = IF ih = gcIh /\ k = gcKind /\ q = p THEN Absent ELSE cell(ih, k, q)
    BY SMTT(60), <1>2, <1>3, <1>4, <1>5, <2>1, <2>2 DEF cell
  <2> QED BY SMTT(60), <1>3, <1>4, <2>3, TableUpdate
<1>7. <<gcIh, gcKind, p>> \in doomedOf /\ doomedOf' = doomedOf \ {<<gcIh, gcKind, p>>}
  BY SMTT(60), <1>1, <1>2 DEF doomedOf
<1>8. UNCHANGED <<now, call, phaseOf, since, found, exposedOf, seenEmptyOf>>
  BY <1>2, ThreadsSeen DEF GCPurge, seenEmptyOf, isV6
<1>9. Store!Collect(<<gcIh, gcKind, p>>)
  BY <1>6, <1>7, <1>8 DEF Store!Collect, Store!Absent, Absent
<1> QED BY <1>7, <1>9

LEMMA LenSim ==
    ASSUME RInv, GCLen PROVE Store!Forget \/ Store!See(gcIh, isV6(gcShard), gcKind)
<1>1. gcPc = "len" /\ UNCHANGED <<gcIh, gcShard>>
  BY DEF GCLen
<1>2. gcKind \in Kind /\ Store!Stored(gcIh, isV6(gcShard), gcKind) = Held(gcObj, gcKind)
  BY <1>1, Collected
<1>3. UNCHANGED <<now, tableOf, call, phaseOf, since, found, exposedOf>>
  BY TableFrame, ThreadsSeen DEF GCLen
<1>4. doomedOf = {} /\ doomedOf' = {}
  BY <1>1 DEF GCLen, doomedOf
<1>5. CASE Held(gcObj, gcKind) # {}
  <2>1. seenEmptyOf' = {}
    BY <1>5 DEF GCLen, seenEmptyOf
  <2> QED BY <1>3, <1>4, <2>1 DEF Store!Forget
<1>6. CASE Held(gcObj, gcKind) = {}
  <2>1. seenEmptyOf' = seenEmptyOf \cup {<<gcIh, isV6(gcShard), gcKind>>}
    <3>1. isV6(gcShard)' = isV6(gcShard)
      BY <1>1 DEF isV6
    <3>2. CASE gcKind = "leechers"
      BY <1>1, <1>6, <3>1, <3>2 DEF GCLen, seenEmptyOf
    <3>3. CASE gcKind = "seeders"
      BY <1>1, <1>6, <3>1, <3>3 DEF GCLen, seenEmptyOf, Kind
    <3> QED BY <1>2, <3>2, <3>3 DEF Kind
  <2> QED BY <1>2, <1>3, <1>4, <1>6, <2>1 DEF Store!See
<1> QED BY <1>5, <1>6

LEMMA DropSim ==
    ASSUME RInv, GCDrop PROVE Store!Drop(gcIh, isV6(gcShard))
<1> DEFINE v == isV6(gcShard)
<1>1. gcPc = "drop" /\ gcPc' = "next" /\ UNCHANGED <<pc, call, obj, peers, gcIh>>
  BY DEF GCDrop
<1>2. /\ gcShard \in Shard /\ gcIh \in InfoHash /\ v \in BOOLEAN
      /\ gcObj # NoSwarm /\ swarms[gcShard][gcIh] = gcObj
      /\ gcShard = shardIndex(gcIh, v)
  BY <1>1, Collected
<1>3. \A s \in Shard, ih \in InfoHash :
         swarms'[s][ih] = IF s = gcShard /\ ih = gcIh THEN NoSwarm ELSE swarms[s][ih]
  BY <1>2 DEF GCDrop, RInv, TypeOK
<1>4. \A ih \in InfoHash, k \in Kind, p \in Peer :
         cell(ih, k, p)' = IF ih = gcIh /\ Is6[p] = v THEN Absent ELSE cell(ih, k, p)
  <2>1. \A ih \in InfoHash, p \in Peer : shardIndex(ih, Is6[p]) \in Shard
    BY ShardIndexType, StoreAssumption
  <2>2. \A p \in Peer : shardIndex(gcIh, Is6[p]) = gcShard <=> Is6[p] = v
    BY <1>2, ShardIndexFamily, StoreAssumption
  <2>3. \A ih \in InfoHash, p \in Peer :
           swarms'[shardIndex(ih, Is6[p])][ih] =
               IF ih = gcIh /\ Is6[p] = v THEN NoSwarm ELSE swarms[shardIndex(ih, Is6[p])][ih]
    <3> HIDE DEF v
    <3> QED BY <1>3, <2>1, <2>2
  <2> QED BY <1>1, <2>3 DEF cell
<1>5. tableOf' = [tableOf EXCEPT ![gcIh] =
                    [k \in Kind |-> [p \in Peer |-> IF Is6[p] = v THEN Absent ELSE @[k][p]]]]
  <2>1. \A ih \in InfoHash : ih # gcIh => tableOf'[ih] = tableOf[ih]
    BY <1>4 DEF tableOf
  <2>2. tableOf'[gcIh] =
           [k \in Kind |-> [p \in Peer |-> IF Is6[p] = v THEN Absent ELSE tableOf[gcIh][k][p]]]
    <3>1. \A k \in Kind, p \in Peer : tableOf[gcIh][k][p] = cell(gcIh, k, p)
      BY <1>2 DEF tableOf
    <3>2. tableOf'[gcIh] = [k \in Kind |-> [p \in Peer |-> cell(gcIh, k, p)']]
      BY <1>1, <1>2 DEF tableOf
    <3>3. \A k \in Kind, p \in Peer :
             cell(gcIh, k, p)' = IF Is6[p] = v THEN Absent ELSE tableOf[gcIh][k][p]
      BY <1>1, <1>2, <1>4, <3>1
    <3> HIDE DEF v
    <3>4. \A k \in Kind : [p \in Peer |-> cell(gcIh, k, p)'] =
                          [p \in Peer |-> IF Is6[p] = v THEN Absent ELSE tableOf[gcIh][k][p]]
      BY <3>3
    <3> QED BY <3>2, <3>4
  <2>3. tableOf = [ih \in InfoHash |-> tableOf[ih]] /\ tableOf' = [ih \in InfoHash |-> tableOf'[ih]]
    BY DEF tableOf
  <2> HIDE DEF v
  <2> QED BY <2>1, <2>2, <2>3
<1>6. \E E \in SUBSET {t \in Thread : /\ phaseOf[t] # "idle"
                                      /\ call[t].ih = gcIh /\ Store!family(call[t]) = v} :
         exposedOf' = exposedOf \cup E
  <2> DEFINE E == {t \in Thread : obj[t] = gcObj}
  <2>1. \A t \in Thread : shard(t) \in Shard /\ call[t].ih \in InfoHash /\ shard(t)' = shard(t)
    BY <1>1, ThreadShard, ShardFrame DEF RInv
  <2>2. \A t \in E : shard(t) = gcShard /\ call[t].ih = gcIh
    BY SMTT(60), <1>2 DEF RInv, Owned
  <2>3. \A t \in E : phaseOf[t] # "idle"
    <3>1. \A t \in E : pc[t] \in Holding
      BY <1>2 DEF RInv, Holders
    <3> QED BY <3>1 DEF Holding, phaseOf, phaseAt
  <2>4. \A t \in E : Store!family(call[t]) = v
    BY <2>2, CallFamily DEF RInv
  <2>5. exposedOf' = exposedOf \cup E
    BY SMTT(60), <1>1, <1>2, <1>3, <2>1, <2>2 DEF exposedOf
  <2> HIDE DEF v, E
  <2>6. E \in SUBSET {t \in Thread : /\ phaseOf[t] # "idle"
                                     /\ call[t].ih = gcIh /\ Store!family(call[t]) = v}
    <3>1. E \subseteq Thread
      BY DEF E
    <3> QED BY <2>2, <2>3, <2>4, <3>1
  <2> QED BY <2>5, <2>6
<1>7. /\ \A k \in Kind : <<gcIh, v, k>> \in seenEmptyOf
      /\ seenEmptyOf' = {}
  BY <1>1 DEF seenEmptyOf
<1>8. UNCHANGED <<now, call, phaseOf, since, found, doomedOf>>
  BY <1>1, PhaseFrame DEF GCDrop, doomedOf
<1> HIDE DEF v
<1>9. Store!Drop(gcIh, v)
  BY <1>5, <1>6, <1>7, <1>8 DEF Store!Drop, Store!Kind, Kind, Store!Absent, Absent
<1> QED BY <1>9 DEF v

\* The steps SwarmStore sees nothing of.
LEMMA QuietSim ==
    ASSUME RInv, \/ GCFire \/ GCExit \/ GCShard \/ GCNext \/ GCShardDone \/ GCPurged
                 \/ Close \/ CloseReturn \/ UNCHANGED vars
    PROVE  UNCHANGED Store!vars
<1>1. UNCHANGED <<now, swarms, peers, pc, call, obj, since, found>>
  BY DEF GCFire, GCExit, GCShard, GCNext, GCShardDone, GCPurged, Close, CloseReturn, vars
<1>2. UNCHANGED <<doomedOf, seenEmptyOf>>
  <2>1. CASE GCFire \/ GCExit \/ GCShard \/ GCNext \/ GCShardDone
    <3>1. gcPc \notin {"purge", "len", "drop"} /\ gcPc' \notin {"purge", "len", "drop"}
      BY <2>1 DEF GCFire, GCExit, GCShard, GCNext, GCShardDone
    <3> QED BY <3>1 DEF doomedOf, seenEmptyOf
  <2>2. CASE GCPurged
    BY <2>2 DEF GCPurged, doomedOf, seenEmptyOf
  <2>3. CASE Close \/ CloseReturn \/ UNCHANGED vars
    BY <2>3, CollectorSeen DEF Close, CloseReturn, vars
  <2> QED BY <2>1, <2>2, <2>3
<1> QED BY <1>1, <1>2, TableFrame, ThreadsSeen DEF Store!vars

LEMMA TickSim == ASSUME Tick PROVE Store!Tick
<1>1. UNCHANGED <<tableOf, phaseOf, exposedOf, doomedOf, seenEmptyOf>>
  BY CollectorSeen, TableFrame, ThreadsSeen DEF Tick
<1> QED BY <1>1 DEF Tick, Store!Tick

\* Every step of the store is a step of SwarmStore, or none.
LEMMA StepSim == ASSUME RInv, [Next]_vars PROVE [Store!Next]_(Store!vars)
<1> DEFINE P == [Store!Next]_(Store!vars)
<1>1. Tick => P
  BY TickSim DEF Store!Next
<1>2. \A t \in Thread, c \in Call : Begin(t, c) => P
  BY BeginSim DEF Store!Next
<1>3. \A t \in Thread : (Lookup(t) \/ Create(t)) => P
  BY LookupSim, CreateSim DEF Store!Next
<1>4. \A t \in Thread : (Remove(t) \/ Unlist(t) \/ Check(t) \/ Set(t) \/ Keys(t)) => P
  BY RemoveSim, UnlistSim, CheckSim, SetSim, KeysSim DEF Store!Next
<1>5. GCScan => P
  <2> SUFFICES ASSUME GCScan PROVE P
    OBVIOUS
  <2>1. gcIh \in InfoHash /\ isV6(gcShard) \in BOOLEAN /\ gcKind \in Kind
    BY Collected DEF GCScan
  <2> QED BY <2>1, ScanSim DEF Store!Next, Store!Kind, Kind
<1>6. GCPurge => P
  BY PurgeSim DEF Store!Next
<1>7. GCLen => P
  <2> SUFFICES ASSUME GCLen PROVE P
    OBVIOUS
  <2>1. gcIh \in InfoHash /\ isV6(gcShard) \in BOOLEAN /\ gcKind \in Kind
    BY Collected DEF GCLen
  <2> QED BY <2>1, LenSim DEF Store!Next, Store!Kind, Kind
<1>8. GCDrop => P
  <2> SUFFICES ASSUME GCDrop PROVE P
    OBVIOUS
  <2>1. gcIh \in InfoHash /\ isV6(gcShard) \in BOOLEAN
    BY Collected DEF GCDrop
  <2> QED BY <2>1, DropSim DEF Store!Next
<1>9. (\/ GCFire \/ GCExit \/ GCShard \/ GCNext \/ GCShardDone \/ GCPurged
       \/ Close \/ CloseReturn \/ UNCHANGED vars) => P
  BY QuietSim
<1> HIDE DEF P
<1>10. P
  BY <1>1, <1>2, <1>3, <1>4, <1>5, <1>6, <1>7, <1>8, <1>9
     DEF Next, ThreadStep, GCStep
<1> QED BY <1>10 DEF P

LEMMA InitSim == ASSUME Init PROVE Store!Init
<1>1. tableOf = [ih \in InfoHash |-> [k \in Kind |-> [p \in Peer |-> Absent]]]
  <2>1. \A ih \in InfoHash, k \in Kind, p \in Peer : cell(ih, k, p) = Absent
    BY ShardIndexType, StoreAssumption DEF Init, cell
  <2> QED BY <2>1 DEF tableOf
<1>2. phaseOf = [t \in Thread |-> "idle"] /\ exposedOf = {}
  BY DEF Init, phaseOf, phaseAt, exposedOf
<1>3. doomedOf = {} /\ seenEmptyOf = {}
  BY DEF Init, doomedOf, seenEmptyOf
<1>4. call \in [Thread -> Call]
  BY DEF Init
<1> QED BY <1>1, <1>2, <1>3, <1>4 DEF Init, Store!Init, Store!Kind, Kind, Store!Absent, Absent

\* The in-memory store implements SwarmStore, for any number of goroutines,
\* shards, info hashes and peers: however calls and the collector of ScheduleGC
\* interleave, a call that gc does not overtake takes effect on the table, once.
THEOREM Refinement == Spec => ImplementsSwarmStore
<1>1. Init => Store!Init
  BY InitSim
<1>2. RInv /\ [Next]_vars => [Store!Next]_(Store!vars)
  BY StepSim
<1> QED BY <1>1, <1>2, RefinementInvariant, PTL DEF Spec, ImplementsSwarmStore, Store!Spec

----------------------------------------------------------------------------
(* The answers of AnnouncePeers.                                           *)

\* A scan adds as many peers as it takes.
ScanLaw ==
    /\ Cardinality({}) = 0
    /\ \A F \in SUBSET (Kind \X Peer), k \in Kind, T \in SUBSET Peer :
          /\ Cardinality(F) \in Nat /\ Cardinality(T) \in Nat
          /\ Cardinality(F \cup ({k} \X T)) \in Nat
          /\ Cardinality(F \cup ({k} \X T)) <= Cardinality(F) + Cardinality(T)

\* Steps after which a thread has its swarm or none, and the peers in it are
\* those it had, or of its family.
LEMMA HeldFrame ==
    ASSUME HeldFamily, UNCHANGED call,
           \A u \in Thread : obj'[u] = obj[u] \/ obj'[u] = NoSwarm,
           \A u \in Thread, k \in Kind, p \in Peer :
               obj[u] # NoSwarm => \/ peers'[obj[u]][k][p] = peers[obj[u]][k][p]
                                   \/ peers'[obj[u]][k][p] = Absent
                                   \/ Is6[p] = isV6(shard(u))
    PROVE  HeldFamily'
<1>1. \A u \in Thread : shard(u)' = shard(u)
  BY ShardFrame
<1>2. ASSUME NEW u \in Thread, NEW k \in Kind, NEW p \in Peer,
             obj'[u] # NoSwarm, peers'[obj'[u]][k][p] # Absent
      PROVE  Is6[p] = isV6(shard(u))
  BY <1>2 DEF HeldFamily
<1> QED BY <1>1, <1>2 DEF HeldFamily, isV6

\* Steps that give thread t a swarm of the map.
LEMMA HeldLookup ==
    ASSUME RInv, HeldFamily, NEW t \in Thread, UNCHANGED <<call, peers>>,
           NEW o, o = swarms[shard(t)][call[t].ih], o # NoSwarm,
           obj' = [obj EXCEPT ![t] = o]
    PROVE  HeldFamily'
<1>1. \A u \in Thread : shard(u)' = shard(u)
  BY ShardFrame
<1>2. shard(t) \in Shard /\ call[t].ih \in InfoHash
  BY ThreadShard DEF RInv
<1>3. \A k \in Kind, p \in Peer : peers[o][k][p] # Absent => Is6[p] = isV6(shard(t))
  BY <1>2 DEF RInv, Family
<1>4. obj'[t] = o /\ \A u \in Thread : u # t => obj'[u] = obj[u]
  BY DEF RInv, TypeOK
<1>5. ASSUME NEW u \in Thread, NEW k \in Kind, NEW p \in Peer,
             obj'[u] # NoSwarm, peers'[obj'[u]][k][p] # Absent
      PROVE  Is6[p] = isV6(shard(u))
  <2>1. CASE u = t
    <3>1. peers[o][k][p] # Absent
      BY <1>4, <1>5, <2>1
    <3> QED BY <1>3, <2>1, <3>1
  <2>2. CASE u # t
    <3>1. obj'[u] = obj[u]
      BY <1>4, <2>2
    <3> QED BY <1>5, <3>1 DEF HeldFamily
  <2> QED BY <2>1, <2>2
<1> QED BY <1>1, <1>5 DEF HeldFamily, isV6

\* Steps in which thread t changes its peer's cells of the swarm it holds.
LEMMA HeldWrite ==
    ASSUME RInv, HeldFamily, NEW t \in Thread, obj[t] # NoSwarm, UNCHANGED call,
           pc[t] \in {"unlist", "check", "set", "remove"},
           \A u \in Thread : obj'[u] = obj[u] \/ obj'[u] = NoSwarm,
           \A x \in SwarmObj, j \in Kind, q \in Peer :
               peers'[x][j][q] # peers[x][j][q] => x = obj[t] /\ q = call[t].p
    PROVE  HeldFamily'
<1>1. Is6[call[t].p] = isV6(shard(t))
  BY CallFamily DEF RInv, Writers
<1>2. \A u \in Thread : obj[u] # NoSwarm => obj[u] \in SwarmObj
  BY DEF RInv, TypeOK
<1>3. \A u \in Thread : (obj[u] # NoSwarm /\ obj[u] = obj[t]) => shard(u) = shard(t)
  BY DEF RInv, Owned
<1>4. ASSUME NEW u \in Thread, NEW k \in Kind, NEW p \in Peer, obj[u] # NoSwarm
      PROVE  \/ peers'[obj[u]][k][p] = peers[obj[u]][k][p]
             \/ Is6[p] = isV6(shard(u))
  BY <1>1, <1>2, <1>3, <1>4
<1> QED BY <1>4, HeldFrame

\* The peers of the swarm a thread holds stay those of its family.
LEMMA HeldFamilyStep ==
    ASSUME RInv, HeldFamily, [Next]_vars
    PROVE  HeldFamily'
<1>1. ASSUME NEW t \in Thread, NEW c \in Call, Begin(t, c) PROVE HeldFamily'
  <2>1. CASE closed
    BY <1>1, <2>1, HeldFrame DEF Begin
  <2>2. CASE ~closed
    <3>1. UNCHANGED <<obj, peers>> /\ obj[t] = NoSwarm
      BY <1>1, <2>2 DEF Begin, RInv, Holders, Holding
    <3>2. \A u \in Thread : u # t => shard(u)' = shard(u)
      BY <1>1, <2>2 DEF Begin, RInv, TypeOK, shard, shardIndex
    <3>3. ASSUME NEW u \in Thread, NEW k \in Kind, NEW p \in Peer,
                 obj'[u] # NoSwarm, peers'[obj'[u]][k][p] # Absent
          PROVE  shard(u)' = shard(u) /\ Is6[p] = isV6(shard(u))
      BY <3>1, <3>2, <3>3 DEF HeldFamily
    <3> QED BY <3>3 DEF HeldFamily, isV6
  <2> QED BY <2>1, <2>2
<1>2. ASSUME NEW t \in Thread, Lookup(t) PROVE HeldFamily'
  <2>1. CASE swarms[shard(t)][call[t].ih] = NoSwarm
    BY <1>2, <2>1, HeldFrame DEF Lookup
  <2>2. CASE swarms[shard(t)][call[t].ih] # NoSwarm
    BY <1>2, <2>2, HeldLookup DEF Lookup
  <2> QED BY <2>1, <2>2
<1>3. ASSUME NEW t \in Thread, Create(t) PROVE HeldFamily'
  <2>1. CASE swarms[shard(t)][call[t].ih] # NoSwarm
    BY <1>3, <2>1, HeldLookup DEF Create
  <2>2. CASE swarms[shard(t)][call[t].ih] = NoSwarm
    <3>1. PICK o \in SwarmObj : /\ Fresh(o)
                                /\ peers' = [peers EXCEPT ![o] = NoPeers]
                                /\ obj' = [obj EXCEPT ![t] = o]
      BY <1>3, <2>2 DEF Create
    <3>2. \A k \in Kind, p \in Peer : peers'[o][k][p] = Absent
      BY <3>1 DEF RInv, TypeOK, NoPeers
    <3>3. \A x \in SwarmObj : x # o => peers'[x] = peers[x]
      BY <3>1 DEF RInv, TypeOK
    <3>4. obj'[t] = o /\ \A u \in Thread : u # t => obj'[u] = obj[u]
      BY <3>1 DEF RInv, TypeOK
    <3>5. \A u \in Thread : shard(u)' = shard(u)
      BY <1>3, ShardFrame DEF Create
    <3>6. ASSUME NEW u \in Thread, NEW k \in Kind, NEW p \in Peer,
                 obj'[u] # NoSwarm, peers'[obj'[u]][k][p] # Absent
          PROVE  Is6[p] = isV6(shard(u))
      <4>1. u # t
        BY <3>2, <3>4, <3>6
      <4>2. obj'[u] = obj[u] /\ obj[u] # o /\ obj[u] \in SwarmObj
        BY <3>1, <3>4, <3>6, <4>1 DEF Fresh, RInv, TypeOK
      <4>3. peers'[obj[u]] = peers[obj[u]]
        BY <3>3, <4>2
      <4> QED BY <3>6, <4>2, <4>3 DEF HeldFamily
    <3> QED BY <3>5, <3>6 DEF HeldFamily, isV6
  <2> QED BY <2>1, <2>2
<1>4. ASSUME NEW t \in Thread, Remove(t) \/ Unlist(t) PROVE HeldFamily'
  <2>1. pc[t] \in {"unlist", "remove"} /\ obj[t] # NoSwarm /\ obj[t] \in SwarmObj
    BY <1>4 DEF Remove, Unlist, RInv, Holders, Holding, TypeOK
  <2>2. PICK k \in Kind : DelPeer(shard(t), obj[t], k, call[t].p)
    BY <1>4, KindOfType DEF Remove, Unlist, Kind
  <2>3. call[t].p \in Peer /\ TypeOK
    BY ThreadShard DEF RInv
  <2>4. \A x \in SwarmObj, j \in Kind, q \in Peer :
           peers'[x][j][q] # peers[x][j][q] => x = obj[t] /\ q = call[t].p
    <3> DEFINE o == obj[t]
               p == call[t].p
    <3>1. o \in SwarmObj /\ p \in Peer /\ DelPeer(shard(t), o, k, p)
      BY <2>1, <2>2, <2>3
    <3> HIDE DEF o, p
    <3>2. \A x \in SwarmObj, j \in Kind, q \in Peer :
             peers'[x][j][q] = IF x = o /\ j = k /\ q = p THEN Absent ELSE peers[x][j][q]
      BY SMTT(60), <2>3, <3>1, DelPeerOnly
    <3>3. \A x \in SwarmObj, j \in Kind, q \in Peer :
             peers'[x][j][q] # peers[x][j][q] => x = o /\ q = p
      BY <3>2
    <3> QED BY <3>3 DEF o, p
  <2>5. UNCHANGED call /\ \A u \in Thread : obj'[u] = obj[u] \/ obj'[u] = NoSwarm
    BY <1>4, <2>3 DEF Remove, Unlist, TypeOK
  <2> QED BY <2>1, <2>4, <2>5, HeldWrite
<1>5. ASSUME NEW t \in Thread, Set(t) PROVE HeldFamily'
  <2>1. pc[t] = "set" /\ obj[t] # NoSwarm /\ TypeOK
    BY <1>5 DEF Set, RInv, Holders, Holding
  <2>2. PICK m \in since[t] .. now :
           peers' = WithCell(peers, obj[t], kindOf(call[t].op), call[t].p, m)
    BY <1>5 DEF Set, WithCell
  <2>3. \A x \in SwarmObj, j \in Kind, q \in Peer :
           peers'[x][j][q] # peers[x][j][q] => x = obj[t] /\ q = call[t].p
    BY SMTT(60), <2>1, <2>2, WithCellAt
  <2>4. UNCHANGED call /\ \A u \in Thread : obj'[u] = obj[u] \/ obj'[u] = NoSwarm
    BY <1>5, <2>1 DEF Set, TypeOK
  <2> QED BY <2>1, <2>3, <2>4, HeldWrite
<1>6. ASSUME GCPurge PROVE HeldFamily'
  <2>1. PICK p \in gcDel : DelPeer(gcShard, gcObj, gcKind, p)
    BY <1>6 DEF GCPurge
  <2>2. gcObj \in SwarmObj /\ gcKind \in Kind /\ p \in Peer /\ TypeOK
    BY <1>6, <2>1 DEF GCPurge, RInv, Collector, TypeOK
  <2>3. \A x \in SwarmObj, j \in Kind, q \in Peer :
           peers'[x][j][q] = IF x = gcObj /\ j = gcKind /\ q = p THEN Absent ELSE peers[x][j][q]
    BY SMTT(60), <2>1, <2>2, DelPeerOnly
  <2>4. \A u \in Thread : obj[u] # NoSwarm => obj[u] \in SwarmObj
    BY <2>2 DEF TypeOK
  <2>5. ASSUME NEW u \in Thread, NEW k \in Kind, NEW q \in Peer, obj[u] # NoSwarm
        PROVE  peers'[obj[u]][k][q] = peers[obj[u]][k][q] \/ peers'[obj[u]][k][q] = Absent
    BY <2>3, <2>4, <2>5
  <2>6. UNCHANGED <<call, obj>>
    BY <1>6 DEF GCPurge
  <2> QED BY <2>5, <2>6, HeldFrame
<1>7. ASSUME NEW t \in Thread, Keys(t) PROVE HeldFamily'
  BY <1>7, HeldFrame DEF Keys, RInv, TypeOK
<1>8. (\E t \in Thread : Check(t)) \/ Tick \/ GCFire \/ GCExit \/ GCShard \/ GCNext
      \/ GCShardDone \/ GCScan \/ GCPurged \/ GCLen \/ GCDrop \/ Close \/ CloseReturn
      \/ UNCHANGED vars
         => UNCHANGED <<obj, peers, call>>
  BY DEF Check, Tick, GCFire, GCExit, GCShard, GCNext, GCShardDone, GCScan, GCPurged, GCLen,
         GCDrop, Close, CloseReturn, vars
<1>9. ASSUME UNCHANGED <<obj, peers, call>> PROVE HeldFamily'
  BY <1>9, HeldFrame
<1> QED BY NextCases, <1>1, <1>2, <1>3, <1>4, <1>5, <1>6, <1>7, <1>8, <1>9

\* What Announcing and AnnounceResult say of a call c that is at w and has
\* found F.
Answer(w, c, F) ==
    c.op = "AnnouncePeers" =>
        /\ w \in {"lookup", "keys"} => F = {}
        /\ w = "keysLeechers" => ~c.forSeeder /\ (F = {} \/ Cardinality(F) < c.numWant)
        /\ \A x \in F : Is6[x[2]] = c.v6 /\ (c.forSeeder => x[1] = "leechers")
        /\ c.numWant > 0 => Cardinality(F) <= c.numWant

Answers == \A t \in Thread : Answer(pc[t], call[t], found[t])

LEMMA AnswersIff == Answers <=> Announcing /\ AnnounceResult
BY DEF Answers, Answer, Announcing, AnnounceResult

\* Steps of one thread that leave its call and its result alone.
LEMMA AnswerFrame ==
    ASSUME TypeOK, Answers, NEW t \in Thread, UNCHANGED <<call, found>>, NEW w,
           pc' = [pc EXCEPT ![t] = w],
           \/ w \notin {"lookup", "keys", "keysLeechers"}
           \/ w = "keys" /\ pc[t] = "lookup"
           \/ call[t].op # "AnnouncePeers"
    PROVE  Answers'
<1>1. pc'[t] = w /\ \A u \in Thread : u # t => pc'[u] = pc[u]
  BY DEF TypeOK
<1>2. Answer(w, call[t], found[t])
  BY DEF Answers, Answer
<1>3. ASSUME NEW u \in Thread PROVE Answer(pc'[u], call[u], found[u])
  BY <1>1, <1>2 DEF Answers
<1> QED BY <1>3 DEF Answers, Answer

\* A scan of the map of kind k takes T: what that makes of the answer.
LEMMA ScanAnswer ==
    ASSUME ScanLaw, NEW c \in CallType, NEW w, NEW F \in SUBSET (Kind \X Peer),
           c.op = "AnnouncePeers", w \in {"keys", "keysLeechers"}, Answer(w, c, F),
           NEW k, k = IF c.forSeeder \/ w = "keysLeechers" THEN "leechers" ELSE "seeders",
           NEW T \in SUBSET Peer, \A p \in T : Is6[p] = c.v6,
           LET want == c.numWant - Cardinality(F)
               most == IF want > 1 THEN want ELSE 1
           IN  Cardinality(T) <= most,
           NEW w2, w2 \in {"keysLeechers", "idle"},
           w2 = "keysLeechers" => k = "seeders" /\ (T = {} \/ Cardinality(T) < c.numWant)
    PROVE  Answer(w2, c, F \cup ({k} \X T))
<1> DEFINE G == F \cup ({k} \X T)
<1>1. k \in Kind /\ c.numWant \in Nat
  BY DEF Kind, CallType
<1>2. /\ Cardinality(F) \in Nat /\ Cardinality(T) \in Nat /\ Cardinality(G) \in Nat
      /\ Cardinality(G) <= Cardinality(F) + Cardinality(T)
  BY <1>1 DEF ScanLaw
<1>3. F = {} \/ Cardinality(F) < c.numWant
  BY DEF Answer
<1>4. F = {} => Cardinality(F) = 0
  BY DEF ScanLaw
<1>5. c.numWant > 0 => Cardinality(G) <= c.numWant
  <2> HIDE DEF G
  <2> QED BY SMTT(60), <1>1, <1>2, <1>3, <1>4
<1>6. \A x \in G : Is6[x[2]] = c.v6 /\ (c.forSeeder => x[1] = "leechers")
  <2>1. \A x \in F : Is6[x[2]] = c.v6 /\ (c.forSeeder => x[1] = "leechers")
    BY DEF Answer
  <2>2. \A x \in {k} \X T : x[1] = k /\ x[2] \in T
    OBVIOUS
  <2> QED BY <2>1, <2>2
<1>7. w2 = "keysLeechers" => ~c.forSeeder /\ (G = {} \/ Cardinality(G) < c.numWant)
  <2> SUFFICES ASSUME w2 = "keysLeechers" PROVE ~c.forSeeder /\ (G = {} \/ Cardinality(G) < c.numWant)
    OBVIOUS
  <2>1. k = "seeders" /\ (T = {} \/ Cardinality(T) < c.numWant)
    OBVIOUS
  <2>2. ~c.forSeeder /\ w = "keys"
    BY <2>1
  <2>3. F = {}
    BY <2>2 DEF Answer
  <2>4. CASE T = {}
    BY <2>2, <2>3, <2>4
  <2>5. CASE Cardinality(T) < c.numWant
    <3>1. Cardinality(G) < c.numWant
      <4> HIDE DEF G
      <4> QED BY SMTT(60), <1>1, <1>2, <1>4, <2>3, <2>5
    <3> QED BY <2>2, <3>1
  <2> QED BY <2>1, <2>4, <2>5
<1> QED BY <1>5, <1>6, <1>7 DEF Answer

\* Both scans of AnnouncePeers keep to the family and to the budget.
LEMMA KeysAnswer ==
    ASSUME ScanLaw, RInv, HeldFamily, Answers, NEW t \in Thread, Keys(t)
    PROVE  Answers'
<1> DEFINE c == call[t]
           F == found[t]
           k == IF c.forSeeder \/ pc[t] = "keysLeechers" THEN "leechers" ELSE "seeders"
           want == c.numWant - Cardinality(F)
           most == IF want > 1 THEN want ELSE 1
<1>1. PICK T \in SUBSET Held(obj[t], k) :
         /\ Cardinality(T) = most \/ Cardinality(T) < most
         /\ found' = [found EXCEPT ![t] = @ \cup ({k} \X T)]
         /\ IF k = "seeders" /\ (T = {} \/ Cardinality(T) < c.numWant)
            THEN pc' = [pc EXCEPT ![t] = "keysLeechers"]
            ELSE pc' = [pc EXCEPT ![t] = "idle"]
  BY DEF Keys, Taken
<1>2. PICK w2 \in {"keysLeechers", "idle"} :
         /\ pc' = [pc EXCEPT ![t] = w2]
         /\ w2 = "keysLeechers" => k = "seeders" /\ (T = {} \/ Cardinality(T) < c.numWant)
  BY <1>1
<1>3. TypeOK /\ obj[t] # NoSwarm /\ pc[t] \in {"keys", "keysLeechers"} /\ UNCHANGED call
  BY DEF Keys, RInv, Holders, Holding
<1>4. c \in CallType /\ F \in SUBSET (Kind \X Peer) /\ k \in Kind
  BY <1>3, ThreadShard DEF TypeOK, Kind
<1>5. T \in SUBSET Peer /\ \A p \in T : peers[obj[t]][k][p] # Absent
  BY DEF Held
<1>6. \A p \in T : Is6[p] = isV6(shard(t))
  <2> HIDE DEF k
  <2> QED BY <1>3, <1>4, <1>5 DEF HeldFamily
<1>7. Answer(pc[t], c, F)
  BY DEF Answers
<1>8. c.op = "AnnouncePeers" => \A p \in T : Is6[p] = c.v6
  <2>1. c.op = "AnnouncePeers" => Store!family(c) = c.v6
    BY DEF Store!family
  <2> QED BY <1>3, <1>6, <2>1, CallFamily
<1>9. Cardinality(T) <= most
  <2>1. Cardinality(T) \in Nat /\ Cardinality(F) \in Nat /\ c.numWant \in Nat
    BY <1>4, <1>5 DEF ScanLaw, CallType
  <2> QED BY SMTT(60), <1>1, <2>1
<1>10. Answer(w2, c, F \cup ({k} \X T))
  <2>1. CASE c.op # "AnnouncePeers"
    BY <2>1 DEF Answer
  <2>2. CASE c.op = "AnnouncePeers"
    <3>1. k = IF c.forSeeder \/ pc[t] = "keysLeechers" THEN "leechers" ELSE "seeders"
      OBVIOUS
    <3> HIDE DEF k, c, F
    <3> QED BY SMTT(60), <1>2, <1>3, <1>4, <1>5, <1>7, <1>8, <1>9, <2>2, <3>1, ScanAnswer
  <2> QED BY <2>1, <2>2
<1>11. /\ pc'[t] = w2 /\ found'[t] = F \cup ({k} \X T)
       /\ \A u \in Thread : u # t => pc'[u] = pc[u] /\ found'[u] = found[u]
  <2> HIDE DEF k
  <2> QED BY <1>1, <1>2, <1>3 DEF TypeOK
<1>12. ASSUME NEW u \in Thread PROVE Answer(pc'[u], call'[u], found'[u])
  <2>1. CASE u = t
    BY <1>3, <1>10, <1>11, <2>1
  <2>2. CASE u # t
    BY <1>3, <1>11, <2>2 DEF Answers
  <2> QED BY <2>1, <2>2
<1> QED BY <1>12 DEF Answers, Answer

LEMMA AnswersStep ==
    ASSUME ScanLaw, RInv, HeldFamily, Answers, [Next]_vars
    PROVE  Answers'
<1>1. ASSUME NEW t \in Thread, NEW c \in Call, Begin(t, c) PROVE Answers'
  <2>1. CASE closed
    BY <1>1, <2>1 DEF Begin, Answers, Answer
  <2>2. CASE ~closed
    <3>1. /\ pc'[t] = "lookup" /\ call'[t] = c /\ found'[t] = {}
          /\ \A u \in Thread : u # t => /\ pc'[u] = pc[u] /\ call'[u] = call[u]
                                        /\ found'[u] = found[u]
      BY <1>1, <2>2 DEF Begin, RInv, TypeOK
    <3>2. Answer("lookup", c, {})
      <4>1. c.numWant \in Nat /\ Cardinality({}) = 0
        BY StoreAssumption DEF CallType, ScanLaw
      <4>2. c.numWant > 0 => Cardinality({}) <= c.numWant
        BY SMTT(60), <4>1
      <4> QED BY <4>2 DEF Answer
    <3>3. ASSUME NEW u \in Thread PROVE Answer(pc'[u], call'[u], found'[u])
      BY <3>1, <3>2 DEF Answers
    <3> QED BY <3>3 DEF Answers, Answer
  <2> QED BY <2>1, <2>2
<1>2. ASSUME NEW t \in Thread, Lookup(t) PROVE Answers'
  <2>1. pc[t] = "lookup" /\ UNCHANGED <<call, found>> /\ TypeOK
    BY <1>2 DEF Lookup, RInv
  <2>2. call[t] \in CallType
    BY <2>1, ThreadShard
  <2>3. AfterLookup(call[t].op) \notin {"lookup", "keys", "keysLeechers"}
        \/ AfterLookup(call[t].op) = "keys"
    BY <2>2 DEF AfterLookup, CallType, WriteOps
  <2>4. CASE swarms[shard(t)][call[t].ih] # NoSwarm
    <3>1. pc' = [pc EXCEPT ![t] = AfterLookup(call[t].op)]
      BY <1>2, <2>4 DEF Lookup
    <3> QED BY <2>1, <2>3, <3>1, AnswerFrame
  <2>5. CASE swarms[shard(t)][call[t].ih] = NoSwarm
    <3>1. PICK w \in {"create", "idle"} : pc' = [pc EXCEPT ![t] = w]
      BY <1>2, <2>5 DEF Lookup
    <3> QED BY <2>1, <3>1, AnswerFrame
  <2> QED BY <2>4, <2>5
<1>3. ASSUME NEW t \in Thread, Create(t) PROVE Answers'
  <2>1. /\ pc' = [pc EXCEPT ![t] = AfterLookup(call[t].op)]
        /\ UNCHANGED <<call, found>> /\ TypeOK
    BY <1>3 DEF Create, RInv
  <2>2. call[t].op # "AnnouncePeers"
    BY <1>3 DEF Create, RInv, Writers, WriteOps
  <2> QED BY <2>1, <2>2, AnswerFrame
<1>4. ASSUME NEW t \in Thread, Remove(t) \/ Unlist(t) \/ Check(t) \/ Set(t) PROVE Answers'
  <2>1. PICK w \in {"idle", "check", "set"} : pc' = [pc EXCEPT ![t] = w]
    BY <1>4 DEF Remove, Unlist, Check, Set
  <2>2. UNCHANGED <<call, found>> /\ TypeOK
    BY <1>4 DEF Remove, Unlist, Check, Set, RInv
  <2> QED BY <2>1, <2>2, AnswerFrame
<1>5. ASSUME NEW t \in Thread, Keys(t) PROVE Answers'
  BY <1>5, KeysAnswer
<1>6. Tick \/ GCFire \/ GCExit \/ GCShard \/ GCNext \/ GCShardDone \/ GCScan \/ GCPurge
      \/ GCPurged \/ GCLen \/ GCDrop \/ Close \/ CloseReturn \/ UNCHANGED vars
         => UNCHANGED <<pc, call, found>>
  BY DEF Tick, GCFire, GCExit, GCShard, GCNext, GCShardDone, GCScan, GCPurge, GCPurged, GCLen,
         GCDrop, Close, CloseReturn, vars
<1>7. ASSUME UNCHANGED <<pc, call, found>> PROVE Answers'
  BY <1>7 DEF Answers, Answer
<1> QED BY NextCases, <1>1, <1>2, <1>3, <1>4, <1>5, <1>6, <1>7

INSTANCE FiniteSetTheorems

LEMMA Scanned == ScanLaw
<1>1. IsFiniteSet(Kind) /\ IsFiniteSet(Peer)
  <2>1. Kind = ({} \cup {"seeders"}) \cup {"leechers"}
    BY DEF Kind
  <2>2. IsFiniteSet({} \cup {"seeders"})
    BY FS_EmptySet, FS_AddElement
  <2> QED BY <2>1, <2>2, FS_AddElement, StoreAssumption
<1>2. IsFiniteSet(Kind \X Peer)
  BY <1>1, FS_Product
<1>3. ASSUME NEW F \in SUBSET (Kind \X Peer), NEW k \in Kind, NEW T \in SUBSET Peer
      PROVE  /\ Cardinality(F) \in Nat /\ Cardinality(T) \in Nat
             /\ Cardinality(F \cup ({k} \X T)) \in Nat
             /\ Cardinality(F \cup ({k} \X T)) <= Cardinality(F) + Cardinality(T)
  <2> DEFINE S == {k} \X T
  <2>1. IsFiniteSet(F) /\ IsFiniteSet(T)
    BY <1>1, <1>2, FS_Subset
  <2>2. IsFiniteSet({k}) /\ Cardinality({k}) = 1
    BY FS_Singleton
  <2>3. IsFiniteSet(S) /\ Cardinality(S) = 1 * Cardinality(T)
    BY <2>1, <2>2, FS_Product
  <2> HIDE DEF S
  <2>4. IsFiniteSet(F \cup S) /\ IsFiniteSet(F \cap S)
    BY <2>1, <2>3, FS_Union, FS_Intersection
  <2>5. Cardinality(F \cup S) = Cardinality(F) + Cardinality(S) - Cardinality(F \cap S)
    BY <2>1, <2>3, FS_Union
  <2>6. /\ Cardinality(F) \in Nat /\ Cardinality(T) \in Nat /\ Cardinality(S) \in Nat
        /\ Cardinality(F \cup S) \in Nat /\ Cardinality(F \cap S) \in Nat
    BY <2>1, <2>3, <2>4, FS_CardinalityType
  <2>7. Cardinality(F \cup S) <= Cardinality(F) + Cardinality(T)
    BY SMTT(60), <2>3, <2>5, <2>6
  <2> QED BY <2>6, <2>7 DEF S
<1> QED BY <1>3, FS_EmptySet DEF ScanLaw

\* The invariant behind AnnounceResult holds in every state.
LEMMA AnnounceInvariant == Spec => []AInv
<1>1. Init => HeldFamily /\ Answers
  <2> SUFFICES ASSUME Init PROVE HeldFamily /\ Answers
    OBVIOUS
  <2>1. HeldFamily
    BY DEF Init, HeldFamily
  <2>2. ASSUME NEW t \in Thread PROVE Answer(pc[t], call[t], found[t])
    <3>1. pc[t] = "idle" /\ found[t] = {} /\ call[t] \in CallType
      BY StoreAssumption DEF Init
    <3>2. call[t].numWant > 0 => Cardinality({}) <= call[t].numWant
      BY SMTT(60), <3>1, Scanned DEF ScanLaw, CallType
    <3> QED BY <3>1, <3>2 DEF Answer
  <2> QED BY <2>1, <2>2 DEF Answers
<1>2. RInv /\ HeldFamily /\ Answers /\ [Next]_vars => (HeldFamily /\ Answers)'
  BY HeldFamilyStep, AnswersStep, Scanned
<1>3. RInv /\ HeldFamily /\ Answers => AInv
  BY AnswersIff DEF AInv
<1> QED BY <1>1, <1>2, <1>3, RefinementInvariant, PTL DEF Spec

\* AnnouncePeers answers with peers of the family asked for, gives a seeder no
\* seeders and stays within numWant over both of its scans, for any number of
\* peers, goroutines and shards, and even when gc dropped the swarm it reads.
THEOREM AnnounceResultCorrect == Spec => []AnnounceResult
<1>1. AInv => AnnounceResult
  BY DEF AInv
<1> QED BY <1>1, AnnounceInvariant, PTL

----------------------------------------------------------------------------
(* Counters, swarms and the collector.                                     *)

LEMMA Counted == CountingLaws
<1>1. IsFiniteSet(InfoHash \X Peer)
  BY SMTT(60), StoreAssumption, FS_Product
<1>2. Cardinality({}) = 0
  BY SMTT(60), FS_EmptySet
<1>3. \A S : IsFiniteSet(S) => Cardinality(S) \in Nat
  BY SMTT(60), FS_CardinalityType
<1>4. \A S, T : IsFiniteSet(S) /\ T \subseteq S =>
                  IsFiniteSet(T) /\ Cardinality(T) <= Cardinality(S)
  BY SMTT(60), FS_Subset
<1>5. \A S, x : IsFiniteSet(S) /\ x \notin S =>
                  Cardinality(S \cup {x}) = Cardinality(S) + 1
  BY FS_AddElement
<1>6. \A S, x : IsFiniteSet(S) /\ x \in S =>
                  Cardinality(S \ {x}) = Cardinality(S) - 1
  BY FS_RemoveElement
<1> QED BY <1>1, <1>2, <1>3, <1>4, <1>5, <1>6 DEF CountingLaws

\* The inductive invariant holds in every reachable state.
THEOREM Inductive == Spec => []IInv
<1>1. Init => IInv
  BY SMTT(60), Counted, InitInductive
<1>2. IInv /\ [Next]_vars => IInv'
  BY SMTT(60), Counted, InductiveStep
<1> QED BY <1>1, <1>2, PTL DEF Spec

\* numSeeders and numLeechers are exact up to the goroutines between Add(1)
\* and set, in every shard no check-then-act window has touched: Put, Delete,
\* Graduate and gc pair every counter update with its map update.
THEOREM CountersCorrect == Spec => []CountersExact
<1>1. IInv => CountersExact
  BY SMTT(60) DEF IInv
<1> QED BY <1>1, Inductive, PTL

\* The second look of getOrCreate under the write lock keeps one swarm for an
\* info hash: a goroutine's swarm is the mapped one unless gc dropped the key.
THEOREM OneSwarmCorrect == Spec => []OneSwarm
<1>1. IInv => OneSwarm
  BY SMTT(60) DEF IInv
<1> QED BY <1>1, Inductive, PTL

\* The keys gc snapshots stay mapped until it visits them, so stillExists in
\* gc is always true: nobody else deletes a swarm.
THEOREM GCSnapshotCorrect == Spec => []GCSnapshotLive
<1>1. IInv => GCSnapshotLive
  BY SMTT(60) DEF IInv
<1> QED BY <1>1, Inductive, PTL
====
