-------------------------- MODULE MemoryRefinement --------------------------
(***************************************************************************)
(* The in-memory store, MemoryStore, implements SwarmStore: how the table  *)
(* and the progress of the calls are read off shards, swarms and program   *)
(* counters.                                                               *)
(***************************************************************************)
EXTENDS MemoryStore

\* A peer is looked for in the shard of its own family.
cell(ih, k, p) ==
    LET o == swarms[shardIndex(ih, Is6[p])][ih]
    IN  IF o = NoSwarm THEN Absent ELSE peers[o][k][p]

tableOf == [ih \in InfoHash |-> [k \in Kind |-> [p \in Peer |-> cell(ih, k, p)]]]

firstPhase(op) ==
    CASE op \in {"PutSeeder", "PutLeecher"} -> "enter"
      [] op \in {"DeleteSeeder", "DeleteLeecher"} -> "remove"
      [] op = "GraduateLeecher" -> "leave"
      [] op = "AnnouncePeers" -> "read"

phaseAt(w, op) ==
    CASE w = "idle" -> "idle"
      [] w \in {"lookup", "create"} -> firstPhase(op)
      [] w = "remove" -> "remove"
      [] w = "unlist" -> "leave"
      [] w = "check" -> "enter"
      [] w = "set" -> "write"
      [] w = "keys" -> "read"
      [] w = "keysLeechers" -> "readLeechers"

phaseOf == [t \in Thread |-> phaseAt(pc[t], call[t].op)]

\* The thread holds a swarm that is not in the map any more.
exposedOf == {t \in Thread : obj[t] # NoSwarm /\ swarms[shard(t)][call[t].ih] # obj[t]}

doomedOf == IF gcPc = "purge" THEN {<<gcIh, gcKind, p>> : p \in gcDel} ELSE {}

isV6(s) == s >= ShardCount

seenEmptyOf ==
    CASE gcPc = "drop" -> {<<gcIh, isV6(gcShard), k>> : k \in Kind}
      [] gcPc = "len" /\ gcKind = "seeders" -> {<<gcIh, isV6(gcShard), "leechers">>}
      [] OTHER -> {}

Store == INSTANCE SwarmStore WITH
             table <- tableOf, phase <- phaseOf, answer <- found, exposed <- exposedOf,
             doomed <- doomedOf, seenEmpty <- seenEmptyOf

\* Whatever overlaps, the store behaves as one table: a call changes it in one
\* step (GraduateLeecher in two), unless the collector dropped the info hash
\* during that call; the collector takes only peers it saw to be stale, and
\* drops only info hashes whose two sets of peers it saw to be empty.
ImplementsSwarmStore == Store!Spec

----------------------------------------------------------------------------
(* What the proof of it needs besides the types and the owners of swarms.  *)

\* Only writes get to the sections that write.
Writers ==
    \A t \in Thread :
        pc[t] \in {"create", "unlist", "check", "set", "remove"} => call[t].op \in WriteOps

\* A swarm is in the shard of its info hash and family ...
Placed ==
    \A s \in Shard, ih \in InfoHash :
        swarms[s][ih] # NoSwarm => s = shardIndex(ih, isV6(s))

\* ... and so are its peers, and those the collector is about to delete.
Family ==
    /\ \A s \in Shard, ih \in InfoHash, k \in Kind, p \in Peer :
          (swarms[s][ih] # NoSwarm /\ peers[swarms[s][ih]][k][p] # Absent) => Is6[p] = isV6(s)
    /\ gcPc = "purge" => \A p \in gcDel : Is6[p] = isV6(gcShard)

\* The collector's cutoff is a lifetime before some time that has been.
Cutoff ==
    gcPc \notin {"select", "exited"} => gcCutoff \in -PeerLifeTime .. now - PeerLifeTime

\* The conjunction that every step preserves.
RInv ==
    /\ TypeOK /\ Holders /\ Owned /\ OneSwarm /\ Collector /\ GCSnapshotLive
    /\ Writers /\ Placed /\ Family /\ Cutoff

----------------------------------------------------------------------------
(* What the proof of AnnounceResult needs on top of it.                    *)

\* The peers of the swarm a thread holds have the family of its call, be the
\* swarm still in the map or not.
HeldFamily ==
    \A t \in Thread, k \in Kind, p \in Peer :
        (obj[t] # NoSwarm /\ peers[obj[t]][k][p] # Absent) => Is6[p] = isV6(shard(t))

\* AnnouncePeers goes on to the leechers with budget left, or with no peers.
Announcing ==
    \A t \in Thread :
        call[t].op = "AnnouncePeers" =>
            /\ pc[t] \in {"lookup", "keys"} => found[t] = {}
            /\ pc[t] = "keysLeechers" =>
                  /\ ~call[t].forSeeder
                  /\ found[t] = {} \/ Cardinality(found[t]) < call[t].numWant

\* The conjunction that every step preserves.
AInv == RInv /\ HeldFamily /\ Announcing /\ AnnounceResult
====
