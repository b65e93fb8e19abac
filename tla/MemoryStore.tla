---------------------------- MODULE MemoryStore ----------------------------
(***************************************************************************)
(* The in-memory peer store (storage/memory/storage.go): sharded maps from *)
(* info hashes to swarms, a swarm being two maps from peers to the time of *)
(* their last announce.  Every map has its own RWMutex, so the unit of     *)
(* atomicity is one lock section; between two sections of a method any     *)
(* other goroutine may run.  An atomic counter update is folded into the   *)
(* lock section that precedes it: only the statistics goroutine reads the  *)
(* counters.  Goroutines that serve requests are Thread, the goroutine of  *)
(* ScheduleGC is the gc* variables, and Close runs in the main goroutine.  *)
(***************************************************************************)
EXTENDS Integers, FiniteSets

CONSTANTS
    InfoHash,      \* the info hashes
    Peer,          \* the peers
    Thread,        \* the goroutines that call the store
    SwarmObj,      \* identities of swarm values on the heap
    NoSwarm,       \* "not in the map", "no swarm held"
    ShardCount,    \* shards of one address family
    Prefix,        \* the first four bytes of an info hash, as a number
    Is6,           \* Is6[p]: the peer's address is IPv6
    Word,          \* the counters are unsigned words: 2^64
    PeerLifeTime,  \* peer_lifetime
    GCInterval,    \* gc_interval
    MaxTime,       \* bound: the clock stops here
    MaxCalls,      \* bound: this many calls begin
    Call           \* the calls the threads may make

Kind == {"seeders", "leechers"}

WriteOps == {"PutSeeder", "DeleteSeeder", "PutLeecher", "DeleteLeecher",
             "GraduateLeecher"}

\* p is the peer of a write; v6, forSeeder and numWant are AnnouncePeers'.
CallType == [op : WriteOps \cup {"AnnouncePeers"}, ih : InfoHash, p : Peer,
             v6 : BOOLEAN, forSeeder : BOOLEAN, numWant : Nat]

ASSUME StoreAssumption ==
    /\ IsFiniteSet(InfoHash) /\ IsFiniteSet(Peer) /\ IsFiniteSet(Thread)
    /\ NoSwarm \notin SwarmObj
    /\ ShardCount \in Nat \ {0}
    /\ Prefix \in [InfoHash -> Nat]
    /\ Is6 \in [Peer -> BOOLEAN]
    /\ PeerLifeTime \in Nat /\ GCInterval \in Nat /\ MaxTime \in Nat
    /\ MaxCalls \in Nat
    /\ Call \subseteq CallType

\* Fewer peers and goroutines than a counter can count.
ASSUME WordAssumption ==
    /\ Word \in Nat \ {0}
    /\ Word > Cardinality(InfoHash \X Peer) + Cardinality(Thread)

VARIABLES
    now,        \* the clock
    begun,      \* the calls begun so far
    swarms,     \* shards[i].swarms.m
    peers,      \* peers[o].seeders.m and peers[o].leechers.m: peer to mtime
    numPeers,   \* shards[i].numSeeders, shards[i].numLeechers
    pc, call, obj, existed, since, found, ret,    \* the threads' locals
    gcPc, gcArmed, gcCutoff, gcShard, gcTodo, gcIh, gcObj, gcKind, gcDel,
    closed, closeReturned, panicked,
    raced,      \* history: counters a check-then-act window has touched
    dropped     \* history: swarms gc has deleted

storeVars == <<swarms, peers, numPeers>>
threadVars == <<pc, call, obj, existed, since, found, ret>>
gcVars == <<gcPc, gcArmed, gcCutoff, gcShard, gcTodo, gcIh, gcObj, gcKind, gcDel>>
lifeVars == <<closed, closeReturned, panicked>>
historyVars == <<raced, dropped>>
vars == <<now, begun, storeVars, threadVars, gcVars, lifeVars, historyVars>>

Absent == -1                       \* mtime of a peer that is not in the map
Shard == 0 .. 2 * ShardCount - 1
NoPeers == [k \in Kind |-> [p \in Peer |-> Absent]]

\* Mutant: one shard for both families.
shardIndexNoFamily(ih, v6) == Prefix[ih] % ShardCount

shardIndex(ih, v6) ==
    (Prefix[ih] % ShardCount) + (IF v6 THEN ShardCount ELSE 0)

\* The shard a thread's call works on: by the peer's family for a write.
shard(t) == shardIndex(call[t].ih, IF call[t].op \in WriteOps
                                   THEN Is6[call[t].p] ELSE call[t].v6)

\* The peer map a write ends in.
kindOf(op) == IF op \in {"PutLeecher", "DeleteLeecher"} THEN "leechers"
                                                        ELSE "seeders"

Increment(n) == (n + 1) % Word
Decrement(n) == (n + Word - 1) % Word        \* Add(decrUint64)

Held(o, k) == {p \in Peer : peers[o][k][p] # Absent}

----------------------------------------------------------------------------
Init ==
    /\ now = 0 /\ begun = 0
    /\ swarms = [s \in Shard |-> [ih \in InfoHash |-> NoSwarm]]
    /\ peers = [o \in SwarmObj |-> NoPeers]
    /\ numPeers = [s \in Shard |-> [k \in Kind |-> 0]]
    /\ pc = [t \in Thread |-> "idle"]
    /\ \E c \in Call : call = [t \in Thread |-> c]
    /\ obj = [t \in Thread |-> NoSwarm]
    /\ existed = [t \in Thread |-> FALSE]
    /\ since = [t \in Thread |-> 0]
    /\ found = [t \in Thread |-> {}]
    /\ ret = [t \in Thread |-> "nil"]
    /\ gcPc = "select" /\ gcArmed = TRUE /\ gcCutoff = 0 /\ gcShard = 0
    /\ gcTodo = {} /\ gcIh \in InfoHash /\ gcObj = NoSwarm
    /\ gcKind = "leechers" /\ gcDel = {}
    /\ closed = FALSE /\ closeReturned = FALSE /\ panicked = FALSE
    /\ raced = {} /\ dropped = {}

Tick ==
    /\ now < MaxTime
    /\ now' = now + 1
    /\ UNCHANGED <<begun, storeVars, threadVars, gcVars, lifeVars, historyVars>>

----------------------------------------------------------------------------
(* The methods.  Every one starts with a look at the closed channel.       *)

Begin(t, c) ==
    /\ pc[t] = "idle" /\ begun < MaxCalls
    /\ begun' = begun + 1
    /\ IF closed
       THEN /\ panicked' = TRUE
            /\ UNCHANGED <<threadVars, closed, closeReturned>>
       ELSE /\ pc' = [pc EXCEPT ![t] = "lookup"]
            /\ call' = [call EXCEPT ![t] = c]
            /\ found' = [found EXCEPT ![t] = {}]
            /\ ret' = [ret EXCEPT ![t] = "nil"]
            /\ UNCHANGED <<obj, existed, since, lifeVars>>
    /\ UNCHANGED <<now, storeVars, gcVars, historyVars>>

\* Where a method goes on once it holds a swarm.
AfterLookup(op) ==
    CASE op \in {"PutSeeder", "PutLeecher"} -> "check"
      [] op \in {"DeleteSeeder", "DeleteLeecher"} -> "remove"
      [] op = "GraduateLeecher" -> "unlist"
      [] op = "AnnouncePeers" -> "keys"

\* swarms.get: a miss sends getOrCreate to its write-locked section, makes a
\* deletion fail and leaves AnnouncePeers with an empty result.
Lookup(t) ==
    LET c == call[t]
        o == swarms[shard(t)][c.ih]
    IN  /\ pc[t] = "lookup"
        /\ IF o # NoSwarm
           THEN /\ pc' = [pc EXCEPT ![t] = AfterLookup(c.op)]
                /\ obj' = [obj EXCEPT ![t] = o]
                /\ UNCHANGED ret
           ELSE /\ pc' = [pc EXCEPT ![t] =
                     IF c.op \in {"PutSeeder", "PutLeecher", "GraduateLeecher"}
                     THEN "create" ELSE "idle"]
                /\ ret' = [ret EXCEPT ![t] =
                     IF c.op \in {"DeleteSeeder", "DeleteLeecher"}
                     THEN "ErrResourceDoesNotExist" ELSE @]
                /\ UNCHANGED obj
        /\ UNCHANGED <<now, begun, storeVars, call, existed, since, found, gcVars,
                       lifeVars, historyVars>>

\* A swarm value nothing refers to any more, or never did.
Fresh(o) ==
    /\ \A s \in Shard, ih \in InfoHash : swarms[s][ih] # o
    /\ \A t \in Thread : obj[t] # o
    /\ gcObj # o

\* Mutant: no second look under the write lock.
CreateBlindly(t) ==
    /\ pc[t] = "create"
    /\ \E o \in SwarmObj :
          /\ Fresh(o)
          /\ swarms' = [swarms EXCEPT ![shard(t)][call[t].ih] = o]
          /\ peers' = [peers EXCEPT ![o] = NoPeers]
          /\ obj' = [obj EXCEPT ![t] = o]
    /\ pc' = [pc EXCEPT ![t] = AfterLookup(call[t].op)]
    /\ UNCHANGED <<now, begun, numPeers, call, existed, since, found, ret, gcVars,
                   lifeVars, historyVars>>

\* The write-locked section of getOrCreate, which looks again.
Create(t) ==
    LET s == shard(t)
        ih == call[t].ih
    IN  /\ pc[t] = "create"
        /\ IF swarms[s][ih] # NoSwarm
           THEN /\ obj' = [obj EXCEPT ![t] = swarms[s][ih]]
                /\ UNCHANGED <<swarms, peers>>
           ELSE \E o \in SwarmObj :
                   /\ Fresh(o)
                   /\ swarms' = [swarms EXCEPT ![s][ih] = o]
                   /\ peers' = [peers EXCEPT ![o] = NoPeers]
                   /\ obj' = [obj EXCEPT ![t] = o]
        /\ pc' = [pc EXCEPT ![t] = AfterLookup(call[t].op)]
        /\ UNCHANGED <<now, begun, numPeers, call, existed, since, found, ret, gcVars,
                       lifeVars, historyVars>>

\* Mutant: the result of peers.del is ignored.
DelPeerAnyway(s, o, k, p) ==
    /\ peers' = [peers EXCEPT ![o][k][p] = Absent]
    /\ numPeers' = [numPeers EXCEPT ![s][k] = Decrement(@)]

\* peers.del on the map of kind k, and the counter update it triggers.
DelPeer(s, o, k, p) ==
    IF peers[o][k][p] # Absent
    THEN /\ peers' = [peers EXCEPT ![o][k][p] = Absent]
         /\ numPeers' = [numPeers EXCEPT ![s][k] = Decrement(@)]
    ELSE UNCHANGED <<peers, numPeers>>

\* Mutant: the last peer takes the swarm with it.
RemoveSwarm(t) ==
    /\ pc[t] = "remove"
    /\ DelPeer(shard(t), obj[t], kindOf(call[t].op), call[t].p)
    /\ swarms' = IF \A k \in Kind : Held(obj[t], k) \subseteq {call[t].p}
                 THEN [swarms EXCEPT ![shard(t)][call[t].ih] = NoSwarm] ELSE swarms
    /\ pc' = [pc EXCEPT ![t] = "idle"]
    /\ obj' = [obj EXCEPT ![t] = NoSwarm]
    /\ UNCHANGED <<now, begun, call, existed, since, found, ret, gcVars, lifeVars,
                   historyVars>>

\* DeleteSeeder and DeleteLeecher: the swarm exists, the peer need not.
Remove(t) ==
    /\ pc[t] = "remove"
    /\ DelPeer(shard(t), obj[t], kindOf(call[t].op), call[t].p)
    /\ pc' = [pc EXCEPT ![t] = "idle"]
    /\ obj' = [obj EXCEPT ![t] = NoSwarm]
    /\ UNCHANGED <<now, begun, swarms, call, existed, since, found, ret, gcVars,
                   lifeVars, historyVars>>

\* GraduateLeecher's first half.
Unlist(t) ==
    /\ pc[t] = "unlist"
    /\ DelPeer(shard(t), obj[t], "leechers", call[t].p)
    /\ pc' = [pc EXCEPT ![t] = "check"]
    /\ UNCHANGED <<now, begun, swarms, call, obj, existed, since, found, ret, gcVars,
                   lifeVars, historyVars>>

\* peers.get, and the counter update when the peer is new.
Check(t) ==
    LET k == kindOf(call[t].op)
        exists == peers[obj[t]][k][call[t].p] # Absent
    IN  /\ pc[t] = "check"
        /\ existed' = [existed EXCEPT ![t] = exists]
        /\ numPeers' = IF exists THEN numPeers
                       ELSE [numPeers EXCEPT ![shard(t)][k] = Increment(@)]
        /\ since' = [since EXCEPT ![t] = now]
        /\ pc' = [pc EXCEPT ![t] = "set"]
        /\ UNCHANGED <<now, begun, swarms, peers, call, obj, found, ret, gcVars,
                       lifeVars, historyVars>>

\* peers.set.  The time was read from the clock some time after Check.
Set(t) ==
    LET k == kindOf(call[t].op)
        o == obj[t]
        member == call[t].p
        s == shard(t)
    IN  /\ pc[t] = "set"
        /\ \E m \in since[t] .. now : peers' = [peers EXCEPT ![o][k][member] = m]
        /\ raced' = IF \/ existed[t] # (peers[o][k][member] # Absent)
                       \/ swarms[s][call[t].ih] # o
                    THEN raced \cup {<<s, k>>} ELSE raced
        /\ pc' = [pc EXCEPT ![t] = "idle"]
        /\ obj' = [obj EXCEPT ![t] = NoSwarm]
        /\ existed' = [existed EXCEPT ![t] = FALSE]
        /\ since' = [since EXCEPT ![t] = 0]
        /\ UNCHANGED <<now, begun, swarms, numPeers, call, found, ret, gcVars, lifeVars,
                       dropped>>

\* keys(rangeFn) over the map of kind k, with want peers still wanted: the
\* function takes a peer before it looks at the budget.
Taken(o, k, want) ==
    LET most == IF want > 1 THEN want ELSE 1
    IN  {T \in SUBSET Held(o, k) : \/ Cardinality(T) = most
                                   \/ T = Held(o, k) /\ Cardinality(T) < most}

\* AnnouncePeers: leechers only for a seeder; else seeders, and leechers when
\* keys got to the end of the seeders with budget left.
Keys(t) ==
    LET c == call[t]
        k == IF c.forSeeder \/ pc[t] = "keysLeechers" THEN "leechers"
                                                      ELSE "seeders"
    IN  /\ pc[t] \in {"keys", "keysLeechers"}
        /\ \E T \in Taken(obj[t], k, c.numWant - Cardinality(found[t])) :
              /\ found' = [found EXCEPT ![t] = @ \cup ({k} \X T)]
              /\ IF k = "seeders" /\ (T = {} \/ Cardinality(T) < c.numWant)
                 THEN /\ pc' = [pc EXCEPT ![t] = "keysLeechers"]
                      /\ UNCHANGED obj
                 ELSE /\ pc' = [pc EXCEPT ![t] = "idle"]
                      /\ obj' = [obj EXCEPT ![t] = NoSwarm]
        /\ UNCHANGED <<now, begun, storeVars, call, existed, since, ret, gcVars,
                       lifeVars, historyVars>>
----------------------------------------------------------------------------
(* The goroutine of ScheduleGC.  Its timer is made once and never reset.   *)

GCFire ==
    /\ gcPc = "select" /\ gcArmed /\ now >= GCInterval
    /\ gcArmed' = FALSE
    /\ IF closed
       THEN UNCHANGED <<gcPc, gcCutoff, gcShard>>
       ELSE /\ gcPc' = "shard"
            /\ gcCutoff' = now - PeerLifeTime
            /\ gcShard' = 0
    /\ UNCHANGED <<now, begun, storeVars, threadVars, gcTodo, gcIh, gcObj, gcKind, gcDel,
                   lifeVars, historyVars>>

GCExit ==
    /\ gcPc = "select" /\ closed
    /\ gcPc' = "exited"
    /\ UNCHANGED <<now, begun, storeVars, threadVars, gcArmed, gcCutoff, gcShard, gcTodo,
                   gcIh, gcObj, gcKind, gcDel, lifeVars, historyVars>>

\* The outer loop of gc: the info hashes of the next shard, or the end.
GCShard ==
    /\ gcPc = "shard"
    /\ IF gcShard \in Shard
       THEN /\ gcTodo' = {ih \in InfoHash : swarms[gcShard][ih] # NoSwarm}
            /\ gcPc' = "next"
       ELSE /\ gcPc' = "select"
            /\ UNCHANGED gcTodo
    /\ UNCHANGED <<now, begun, storeVars, threadVars, gcArmed, gcCutoff, gcShard, gcIh,
                   gcObj, gcKind, gcDel, lifeVars, historyVars>>

\* The inner loop: map order is random, and a swarm may be gone.
GCNext ==
    /\ gcPc = "next"
    /\ \E ih \in gcTodo :
          /\ gcTodo' = gcTodo \ {ih}
          /\ IF swarms[gcShard][ih] = NoSwarm
             THEN UNCHANGED <<gcPc, gcIh, gcObj, gcKind>>
             ELSE /\ gcPc' = "scan"
                  /\ gcIh' = ih
                  /\ gcObj' = swarms[gcShard][ih]
                  /\ gcKind' = "leechers"
    /\ UNCHANGED <<now, begun, storeVars, threadVars, gcArmed, gcCutoff, gcShard, gcDel,
                   lifeVars, historyVars>>

GCShardDone ==
    /\ gcPc = "next" /\ gcTodo = {}
    /\ gcPc' = "shard"
    /\ gcShard' = gcShard + 1
    /\ UNCHANGED <<now, begun, storeVars, threadVars, gcArmed, gcCutoff, gcTodo, gcIh,
                   gcObj, gcKind, gcDel, lifeVars, historyVars>>

\* forEach under the read lock ...
GCScan ==
    /\ gcPc = "scan"
    /\ gcDel' = {p \in Held(gcObj, gcKind) : peers[gcObj][gcKind][p] <= gcCutoff}
    /\ gcPc' = "purge"
    /\ UNCHANGED <<now, begun, storeVars, threadVars, gcArmed, gcCutoff, gcShard, gcTodo,
                   gcIh, gcObj, gcKind, lifeVars, historyVars>>

\* ... and one write-locked deletion for every peer it collected.
GCPurge ==
    /\ gcPc = "purge"
    /\ \E p \in gcDel : /\ DelPeer(gcShard, gcObj, gcKind, p)
                        /\ gcDel' = gcDel \ {p}
    /\ UNCHANGED <<now, begun, swarms, threadVars, gcPc, gcArmed, gcCutoff, gcShard,
                   gcTodo, gcIh, gcObj, gcKind, lifeVars, historyVars>>

GCPurged ==
    /\ gcPc = "purge" /\ gcDel = {}
    /\ IF gcKind = "leechers"
       THEN gcKind' = "seeders" /\ gcPc' = "scan"
       ELSE gcKind' = "leechers" /\ gcPc' = "len"
    /\ UNCHANGED <<now, begun, storeVars, threadVars, gcArmed, gcCutoff, gcShard, gcTodo,
                   gcIh, gcObj, gcDel, lifeVars, historyVars>>

\* Mutant: only the leechers are looked at.
GCLenLeechers ==
    /\ gcPc = "len"
    /\ IF Held(gcObj, gcKind) # {}
       THEN gcPc' = "next" /\ gcObj' = NoSwarm /\ UNCHANGED gcKind
       ELSE gcPc' = "drop" /\ gcKind' = "seeders" /\ UNCHANGED gcObj
    /\ UNCHANGED <<now, begun, storeVars, threadVars, gcArmed, gcCutoff, gcShard, gcTodo,
                   gcIh, gcDel, lifeVars, historyVars>>

\* leechers.len(), then seeders.len(), neither of them under a lock; nothing
\* holds the swarm until GCDrop.
GCLen ==
    /\ gcPc = "len"
    /\ IF Held(gcObj, gcKind) # {}
       THEN gcPc' = "next" /\ gcObj' = NoSwarm /\ UNCHANGED gcKind
       ELSE /\ gcPc' = IF gcKind = "leechers" THEN "len" ELSE "drop"
            /\ gcKind' = "seeders"
            /\ UNCHANGED gcObj
    /\ UNCHANGED <<now, begun, storeVars, threadVars, gcArmed, gcCutoff, gcShard, gcTodo,
                   gcIh, gcDel, lifeVars, historyVars>>

GCDrop ==
    /\ gcPc = "drop"
    /\ swarms' = [swarms EXCEPT ![gcShard][gcIh] = NoSwarm]
    /\ dropped' = dropped \cup {<<gcShard, gcIh>>}
    /\ raced' = raced \cup {<<gcShard, k>> : k \in {j \in Kind : Held(gcObj, j) # {}}}
    /\ gcPc' = "next"
    /\ gcObj' = NoSwarm
    /\ UNCHANGED <<now, begun, peers, numPeers, threadVars, gcArmed, gcCutoff, gcShard,
                   gcTodo, gcIh, gcKind, gcDel, lifeVars>>

----------------------------------------------------------------------------
(* Close: the channel is closed once, then the goroutines are waited for.  *)

Close ==
    /\ ~closed
    /\ closed' = TRUE
    /\ UNCHANGED <<now, begun, storeVars, threadVars, gcVars, closeReturned, panicked,
                   historyVars>>

CloseReturn ==
    /\ closed /\ ~closeReturned /\ gcPc = "exited"
    /\ closeReturned' = TRUE
    /\ UNCHANGED <<now, begun, storeVars, threadVars, gcVars, closed, panicked, historyVars>>

----------------------------------------------------------------------------
ThreadStep(t) ==
    \/ Lookup(t) \/ Create(t) \/ Remove(t) \/ Unlist(t) \/ Check(t) \/ Set(t)
    \/ Keys(t)

GCStep ==
    \/ GCFire \/ GCExit \/ GCShard \/ GCNext \/ GCShardDone \/ GCScan
    \/ GCPurge \/ GCPurged \/ GCLen \/ GCDrop

\* A panic in any goroutine ends the process.
Next ==
    /\ ~panicked
    /\ \/ Tick
       \/ \E t \in Thread : ThreadStep(t) \/ \E c \in Call : Begin(t, c)
       \/ GCStep
       \/ Close
       \/ CloseReturn

Spec == Init /\ [][Next]_vars

\* Goroutines are scheduled fairly and the clock goes on; calls and Close are
\* the environment's.
Fairness ==
    /\ WF_vars(~panicked /\ Tick)
    /\ \A t \in Thread : WF_vars(~panicked /\ ThreadStep(t))
    /\ WF_vars(~panicked /\ GCStep)
    /\ WF_vars(~panicked /\ CloseReturn)

FairSpec == Spec /\ Fairness

----------------------------------------------------------------------------
(* Properties.                                                             *)

PCs == {"idle", "lookup", "create", "unlist", "check", "set", "remove", "keys",
        "keysLeechers"}
GCPCs == {"select", "shard", "next", "scan", "purge", "len", "drop", "exited"}

\* Every variable has the type the code gives it.
TypeOK ==
    /\ now \in Nat /\ begun \in Nat
    /\ swarms \in [Shard -> [InfoHash -> SwarmObj \cup {NoSwarm}]]
    /\ peers \in [SwarmObj -> [Kind -> [Peer -> Int]]]
    /\ numPeers \in [Shard -> [Kind -> Nat]]
    /\ pc \in [Thread -> PCs]
    /\ call \in [Thread -> Call]
    /\ obj \in [Thread -> SwarmObj \cup {NoSwarm}]
    /\ existed \in [Thread -> BOOLEAN]
    /\ since \in [Thread -> Nat]
    /\ found \in [Thread -> SUBSET (Kind \X Peer)]
    /\ ret \in [Thread -> {"nil", "ErrResourceDoesNotExist"}]
    /\ gcPc \in GCPCs /\ gcArmed \in BOOLEAN /\ gcCutoff \in Int
    /\ gcShard \in 0 .. 2 * ShardCount
    /\ gcPc \in GCPCs \ {"select", "shard", "exited"} => gcShard \in Shard
    /\ gcTodo \in SUBSET InfoHash /\ gcIh \in InfoHash
    /\ gcObj \in SwarmObj \cup {NoSwarm}
    /\ gcKind \in Kind /\ gcDel \in SUBSET Peer
    /\ closed \in BOOLEAN /\ closeReturned \in BOOLEAN /\ panicked \in BOOLEAN
    /\ raced \in SUBSET (Shard \X Kind)
    /\ dropped \in SUBSET (Shard \X InfoHash)

\* The peers that a lookup through the shard's map can reach.
Tracked(s, k) ==
    {x \in InfoHash \X Peer :
        /\ swarms[s][x[1]] # NoSwarm
        /\ peers[swarms[s][x[1]]][k][x[2]] # Absent}

\* The threads that have counted a peer they have not stored yet.
Counting(s, k) ==
    {t \in Thread : /\ pc[t] = "set" /\ ~existed[t]
                    /\ shard(t) = s /\ kindOf(call[t].op) = k}

\* numSeeders and numLeechers are the number of reachable peers, give or take
\* the goroutines between Add(1) and set, as long as no peers.set acted on an
\* outdated peers.get and gc dropped no swarm that was in use: those windows
\* are the only way the counters can drift.
CountersExact ==
    \A s \in Shard, k \in Kind :
        <<s, k>> \notin raced =>
            numPeers[s][k] = Cardinality(Tracked(s, k)) + Cardinality(Counting(s, k))

\* The double-checked getOrCreate never makes two swarms for one info hash: a
\* goroutine holds the swarm that is in the map, unless gc deleted that key.
OneSwarm ==
    \A t \in Thread :
        \/ obj[t] = NoSwarm
        \/ swarms[shard(t)][call[t].ih] = obj[t]
        \/ <<shard(t), call[t].ih>> \in dropped

\* The info hashes gc still has to visit are all still in the map, whatever
\* the other goroutines do: its stillExists check never fails.
GCSnapshotLive ==
    gcPc \in GCPCs \ {"select", "shard", "exited"} =>
        \A ih \in gcTodo : swarms[gcShard][ih] # NoSwarm

\* AnnouncePeers answers with peers of the family it was asked for (the two
\* families never meet in a shard), gives a seeder no seeders, and over both
\* of its scans stays within the number of peers wanted.
AnnounceResult ==
    \A t \in Thread :
        LET c == call[t]
        IN  c.op = "AnnouncePeers" =>
               /\ \A x \in found[t] : /\ Is6[x[2]] = c.v6
                                      /\ c.forSeeder => x[1] = "leechers"
               /\ c.numWant > 0 => Cardinality(found[t]) <= c.numWant

----------------------------------------------------------------------------
(* The inductive invariant behind CountersExact, OneSwarm and              *)
(* GCSnapshotLive.                                                         *)

Holding == {"unlist", "check", "set", "remove", "keys", "keysLeechers"}

\* A thread refers to a swarm exactly between its lookup and its return.
Holders ==
    \A t \in Thread : obj[t] # NoSwarm <=> pc[t] \in Holding

\* A swarm value belongs to one shard and one info hash, in the maps and in
\* the hands of the threads, be it dropped or not.
Owned ==
    /\ \A s1, s2 \in Shard, ih1, ih2 \in InfoHash :
          (swarms[s1][ih1] # NoSwarm /\ swarms[s1][ih1] = swarms[s2][ih2]) =>
              s1 = s2 /\ ih1 = ih2
    /\ \A t \in Thread, s \in Shard, ih \in InfoHash :
          (obj[t] # NoSwarm /\ swarms[s][ih] = obj[t]) =>
              s = shard(t) /\ ih = call[t].ih
    /\ \A t, u \in Thread :
          (obj[t] # NoSwarm /\ obj[t] = obj[u]) =>
              shard(t) = shard(u) /\ call[t].ih = call[u].ih

\* The swarm gc works on is in the map: only gc removes swarms.
Collector ==
    IF gcPc \in {"scan", "purge", "len", "drop"}
    THEN gcObj # NoSwarm /\ swarms[gcShard][gcIh] = gcObj /\ gcIh \notin gcTodo
    ELSE gcObj = NoSwarm

\* A peer in a swarm that gc dropped from under a thread is a peer the
\* counters have lost track of.
Orphans ==
    \A t \in Thread, k \in Kind :
        \/ obj[t] = NoSwarm
        \/ swarms[shard(t)][call[t].ih] = obj[t]
        \/ <<shard(t), k>> \in raced
        \/ Held(obj[t], k) = {}

\* The conjunction that every step preserves.
IInv ==
    /\ TypeOK /\ Holders /\ Owned /\ Collector /\ GCSnapshotLive /\ OneSwarm
    /\ Orphans /\ CountersExact

----------------------------------------------------------------------------
(* What the repository says of the store and the code does not do.         *)

\* The collector removes stale peers periodically.
StaleCollected ==
    \A s \in Shard, ih \in InfoHash, k \in Kind, p \in Peer :
        LET stale == /\ <<ih, p>> \in Tracked(s, k)
                     /\ peers[swarms[s][ih]][k][p] + PeerLifeTime <= now
        IN  stale ~> (~stale \/ closed \/ panicked)
====
