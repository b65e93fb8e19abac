----------------------------- MODULE RedisStore -----------------------------
(***************************************************************************)
(* The Redis peer store (storage/redis/storage.go): the calls of the       *)
(* request goroutines and the garbage collectors of all tracker instances  *)
(* that share a Redis.  A step is one command, or one MULTI/EXEC block; a  *)
(* command may fail, before or after it took effect, and an instance may   *)
(* stop between two commands.                                              *)
(***************************************************************************)
EXTENDS RedisConnection

CONSTANTS
    Is6,           \* Is6[p]: the peer's address is IPv6
    Thread,        \* goroutines that call the store, of any instance
    Instance,      \* tracker instances: one collector each
    Call,          \* the calls the threads may make
    Stored,        \* the peers Redis may hold already, which outlives its trackers
    PeerLifetime,
    MaxTime,       \* bound: the clock stops here
    MaxCalls,      \* bound: this many calls begin
    MaxFails,      \* bound: this many commands fail or goroutines die
    Variadic       \* the server takes several fields in one HDEL

Absent == -1
NoKey == CHOOSE key \in Key : TRUE

WriteOps == {"PutSeeder", "PutLeecher", "DeleteSeeder", "DeleteLeecher", "GraduateLeecher"}
CallType == [op : WriteOps \cup {"ScrapeSwarm"}, ih : InfoHash, p : Peer]

ASSUME RedisAssumption ==
    /\ IsFiniteSet(InfoHash) /\ IsFiniteSet(Peer) /\ IsFiniteSet(Thread)
    /\ IsFiniteSet(Instance)
    /\ Is6 \in [Peer -> BOOLEAN]
    /\ Call \subseteq CallType /\ Call # {}
    /\ \A S \in Stored : \A x \in S : x \in Key \X Peer /\ x[1].v6 = Is6[x[2]]
    /\ PeerLifetime \in Nat /\ MaxTime \in Nat /\ MaxCalls \in Nat /\ MaxFails \in Nat
    /\ Variadic \in BOOLEAN

NoCall == CHOOSE c \in Call : TRUE

VARIABLES
    now, begun, fails,
    hash,       \* CHI_{L,S}{4,6}_<HASH>: peer to time of its last announce
    ihSet,      \* CHI_I: the keys gc visits
    count,      \* CHI_C_S, CHI_C_L
    downloads,  \* CHI_D
    pc, call, since,
    counts,     \* ScrapeIH: the replies so far
    steady,     \* history: peers in the swarm since a scrape began
    gcPc, gcCutoff, gcTodo, gcKey, gcDel,
    gcGone,     \* the peers whose removal gc has yet to count
    closed,     \* instances whose Close has been called
    slipped     \* history: keys written to between HLEN and SREM of a collector

redisVars == <<hash, ihSet, count, downloads, slipped>>
threadVars == <<pc, call, since, counts, steady>>
gcVars == <<gcPc, gcCutoff, gcTodo, gcKey, gcDel, gcGone>>
vars == <<now, begun, fails, redisVars, threadVars, gcVars, closed>>

kindOf(op) == IF op \in {"PutLeecher", "DeleteLeecher"} THEN "leechers" ELSE "seeders"
keyOf(c, kind) == InfoHashKey(c.ih, kind, Is6[c.p])
Fields(key) == {p \in Peer : hash[key][p] # Absent}
Swarm(ih) == {p \in Peer : \E key \in Key : key.ih = ih /\ p \in Fields(key)}

Init ==
    /\ now = 0 /\ begun = 0 /\ fails = 0
    /\ \E S \in Stored :
          /\ hash = [key \in Key |-> [p \in Peer |-> IF <<key, p>> \in S THEN 0 ELSE Absent]]
          /\ ihSet = {x[1] : x \in S}
          /\ count = [k \in Kind |-> Cardinality({x \in S : x[1].kind = k})]
    /\ downloads = [ih \in InfoHash |-> 0]
    /\ pc = [t \in Thread |-> "idle"]
    /\ call = [t \in Thread |-> NoCall]
    /\ since = [t \in Thread |-> 0]
    /\ counts = [t \in Thread |-> <<>>]
    /\ steady = [t \in Thread |-> {}]
    /\ gcPc = [n \in Instance |-> "select"]
    /\ gcCutoff = [n \in Instance |-> 0]
    /\ gcTodo = [n \in Instance |-> {}]
    /\ gcKey = [n \in Instance |-> NoKey]
    /\ gcDel = [n \in Instance |-> {}]
    /\ gcGone = [n \in Instance |-> {}]
    /\ closed = {}
    /\ slipped = {}

Tick ==
    /\ now < MaxTime
    /\ now' = now + 1
    /\ UNCHANGED <<begun, fails, redisVars, threadVars, gcVars, closed>>

Fail == fails < MaxFails /\ fails' = fails + 1

----------------------------------------------------------------------------
(* The calls.                                                              *)

Begin(t, c) ==
    /\ pc[t] = "idle" /\ begun < MaxCalls
    /\ begun' = begun + 1
    /\ pc' = [pc EXCEPT ![t] =
          CASE c.op \in {"PutSeeder", "PutLeecher"} -> "put"
            [] c.op \in {"DeleteSeeder", "DeleteLeecher"} -> "hdel"
            [] c.op = "GraduateLeecher" -> "graduate"
            [] c.op = "ScrapeSwarm" -> "scrape"]
    /\ call' = [call EXCEPT ![t] = c]
    /\ since' = [since EXCEPT ![t] = now]
    /\ counts' = [counts EXCEPT ![t] = <<>>]
    /\ steady' = [steady EXCEPT ![t] = IF c.op = "ScrapeSwarm" THEN Swarm(c.ih) ELSE {}]
    /\ UNCHANGED <<now, fails, redisVars, gcVars, closed>>

\* The call of thread t returns.
Return(t) ==
    /\ pc' = [pc EXCEPT ![t] = "idle"]
    /\ call' = [call EXCEPT ![t] = NoCall]
    /\ since' = [since EXCEPT ![t] = 0]

\* A command or block of thread t fails, and its call returns at once.
Error(t) == Fail /\ Return(t)

Success(t, next) ==
    /\ IF next = "idle" THEN Return(t)
       ELSE pc' = [pc EXCEPT ![t] = next] /\ UNCHANGED <<call, since>>
    /\ UNCHANGED fails

\* A key is listed when it is written to; a collector that found it empty
\* before may still take it off the list.
List(key) ==
    /\ ihSet' = ihSet \cup {key}
    /\ slipped' = IF \E n \in Instance : gcPc[n] = "srem" /\ gcKey[n] = key
                  THEN slipped \cup {key} ELSE slipped \ {key}

\* putPeer: HSET, INCR and SADD in one block, which is one transaction (a
\* cluster, where it is one for each slot, is not modelled).
PutBlock(c, m) ==
    LET key == keyOf(c, kindOf(c.op))
    IN  /\ hash' = [hash EXCEPT ![key][c.p] = m]
        /\ count' = [count EXCEPT ![key.kind] = @ + 1]
        /\ List(key)
        /\ UNCHANGED downloads

Put(t) ==
    /\ pc[t] = "put"
    /\ \/ (\E m \in since[t] .. now : PutBlock(call[t], m)) /\ (Success(t, "idle") \/ Error(t))
       \/ Error(t) /\ UNCHANGED redisVars
    /\ UNCHANGED <<now, begun, counts, steady, gcVars, closed>>

\* GraduateLeecher in one block: the HDEL is only queued when its reply is
\* looked at, so the DECR of the leechers never happens.
GraduateBlock(c, m) ==
    LET from == keyOf(c, "leechers")
        to == keyOf(c, "seeders")
    IN  /\ hash' = [hash EXCEPT ![from][c.p] = Absent, ![to][c.p] = m]
        /\ count' = [count EXCEPT !["seeders"] = @ + 1]
        /\ List(to)
        /\ downloads' = [downloads EXCEPT ![c.ih] = @ + 1]

Graduate(t) ==
    /\ pc[t] = "graduate"
    /\ \/ /\ \E m \in since[t] .. now : GraduateBlock(call[t], m)
          /\ Success(t, "idle") \/ Error(t)
       \/ Error(t) /\ UNCHANGED redisVars
    /\ UNCHANGED <<now, begun, counts, steady, gcVars, closed>>

\* A deletion ends the steady presence of its peers in the swarm.
Unsteady(key, D) ==
    steady' = [t \in Thread |-> IF call[t].ih = key.ih THEN steady[t] \ D ELSE steady[t]]

AfterHDel(deleted) == IF deleted THEN "decr" ELSE "idle"

\* delPeer: HDEL, whose reply of zero is ErrResourceDoesNotExist ...
HDel(t) ==
    LET c == call[t]
        key == keyOf(c, kindOf(c.op))
        deleted == hash[key][c.p] # Absent
    IN  /\ pc[t] = "hdel"
        /\ \/ /\ hash' = [hash EXCEPT ![key][c.p] = Absent]
              /\ Unsteady(key, {c.p})
              /\ Success(t, AfterHDel(deleted)) \/ Error(t)
           \/ Error(t) /\ UNCHANGED <<hash, steady>>
        /\ UNCHANGED <<now, begun, ihSet, count, downloads, slipped, counts, gcVars, closed>>

\* ... and DECR.
Decr(t) ==
    /\ pc[t] = "decr"
    /\ \/ /\ count' = [count EXCEPT ![kindOf(call[t].op)] = @ - 1]
          /\ Success(t, "idle") \/ Error(t)
       \/ Error(t) /\ UNCHANGED count
    /\ UNCHANGED <<now, begun, hash, ihSet, downloads, slipped, counts, steady, gcVars, closed>>

\* The instance of a goroutine stops; another one takes its place.
Die(t) ==
    /\ pc[t] # "idle"
    /\ Error(t)
    /\ UNCHANGED <<now, begun, redisVars, counts, steady, gcVars, closed>>

\* ScrapeIH: four HLENs, and HGET of the downloads.
Scrape(t) ==
    LET i == Len(counts[t]) + 1
        ih == call[t].ih
    IN  /\ pc[t] = "scrape"
        /\ \/ /\ counts' = [counts EXCEPT ![t] = Append(@,
                    IF i <= 4 THEN Cardinality(Fields(ScrapeKeys(ih)[i])) ELSE downloads[ih])]
              /\ Success(t, IF i <= 4 THEN "scrape" ELSE "idle")
           \/ Error(t) /\ UNCHANGED counts
        /\ UNCHANGED <<now, begun, redisVars, steady, gcVars, closed>>

----------------------------------------------------------------------------
(* The collector of an instance.                                           *)

\* The timer fires.
GCFire(n) ==
    /\ gcPc[n] = "select"
    /\ gcPc' = [gcPc EXCEPT ![n] = "smembers"]
    /\ gcCutoff' = [gcCutoff EXCEPT ![n] = now - PeerLifetime]
    /\ UNCHANGED <<now, begun, fails, redisVars, threadVars, gcTodo, gcKey, gcDel, gcGone,
                   closed>>

GCMembers(n) ==
    /\ gcPc[n] = "smembers"
    /\ \/ /\ gcTodo' = [gcTodo EXCEPT ![n] = ihSet]
          /\ gcPc' = [gcPc EXCEPT ![n] = "next"]
          /\ UNCHANGED fails
          /\ UNCHANGED gcCutoff
       \/ /\ Fail
          /\ gcPc' = [gcPc EXCEPT ![n] = "select"]
          /\ gcCutoff' = [gcCutoff EXCEPT ![n] = 0]
          /\ UNCHANGED gcTodo
    /\ UNCHANGED <<now, begun, redisVars, threadVars, gcKey, gcDel, gcGone, closed>>

\* HGETALL of the next key: the peers that are too old.
GCGetAll(n) ==
    /\ gcPc[n] = "next"
    /\ \E key \in gcTodo[n] :
          /\ gcTodo' = [gcTodo EXCEPT ![n] = @ \ {key}]
          /\ \/ /\ gcKey' = [gcKey EXCEPT ![n] = key]
                /\ gcDel' = [gcDel EXCEPT ![n] =
                      {p \in Fields(key) : hash[key][p] <= gcCutoff[n]}]
                /\ gcPc' = [gcPc EXCEPT ![n] = IF gcDel'[n] = {} THEN "hlen" ELSE "hdel"]
                /\ UNCHANGED fails
             \/ Fail /\ UNCHANGED <<gcPc, gcKey, gcDel>>
    /\ UNCHANGED <<now, begun, redisVars, threadVars, gcCutoff, gcGone, closed>>

\* Mutant: the timer is not reset.
GCDoneOnce(n) ==
    /\ gcPc[n] = "next" /\ gcTodo[n] = {}
    /\ gcPc' = [gcPc EXCEPT ![n] = "exited"]
    /\ UNCHANGED <<now, begun, fails, redisVars, threadVars, gcCutoff, gcTodo, gcKey, gcDel,
                   gcGone, closed>>

\* The end of a collection, after which the timer is reset.
GCDone(n) ==
    /\ gcPc[n] = "next" /\ gcTodo[n] = {}
    /\ gcPc' = [gcPc EXCEPT ![n] = "select"]
    /\ gcCutoff' = [gcCutoff EXCEPT ![n] = 0]
    /\ gcKey' = [gcKey EXCEPT ![n] = NoKey]
    /\ UNCHANGED <<now, begun, fails, redisVars, threadVars, gcTodo, gcDel, gcGone, closed>>

\* Mutant: the peers asked for are counted, not the peers deleted.
RemovedAsked(key, D) == D

Removed(key, D) == D \cap Fields(key)

\* HDEL of all of them, or one by one on a server that takes only one field.
GCHDel(n) ==
    LET key == gcKey[n]
    IN  /\ gcPc[n] = "hdel"
        /\ \E D \in IF Variadic THEN {gcDel[n]} ELSE {{p} : p \in gcDel[n]} :
              /\ \/ /\ hash' = [hash EXCEPT ![key] =
                              [p \in Peer |-> IF p \in D THEN Absent ELSE @[p]]]
                    /\ Unsteady(key, D)
                    /\ \/ gcGone' = [gcGone EXCEPT ![n] = @ \cup Removed(key, D)] /\ UNCHANGED fails
                       \/ Fail /\ UNCHANGED gcGone
                 \/ Fail /\ UNCHANGED <<hash, steady, gcGone>>
              /\ gcDel' = [gcDel EXCEPT ![n] = @ \ D]
        /\ gcPc' = [gcPc EXCEPT ![n] = IF gcDel'[n] # {} THEN "hdel"
                                      ELSE IF gcGone'[n] # {} THEN "decrby" ELSE "hlen"]
        /\ UNCHANGED <<now, begun, ihSet, count, downloads, slipped, pc, call, since, counts,
                       gcCutoff, gcTodo, gcKey, closed>>

GCDecrBy(n) ==
    /\ gcPc[n] = "decrby"
    /\ \/ /\ count' = [count EXCEPT ![gcKey[n].kind] = @ - Cardinality(gcGone[n])]
          /\ UNCHANGED fails \/ Fail
       \/ Fail /\ UNCHANGED count
    /\ gcGone' = [gcGone EXCEPT ![n] = {}]
    /\ gcPc' = [gcPc EXCEPT ![n] = "hlen"]
    /\ UNCHANGED <<now, begun, hash, ihSet, downloads, slipped, threadVars, gcCutoff, gcTodo, gcKey,
                   gcDel, closed>>

\* Mutant: the key is looked at by what HGETALL returned.
GCHLenOld(n) ==
    /\ gcPc[n] = "hlen"
    /\ gcPc' = [gcPc EXCEPT ![n] = "srem"]
    /\ UNCHANGED <<now, begun, fails, redisVars, threadVars, gcCutoff, gcTodo, gcKey, gcDel,
                   gcGone, closed>>

\* WATCH and HLEN ...
GCHLen(n) ==
    /\ gcPc[n] = "hlen"
    /\ \/ /\ gcPc' = [gcPc EXCEPT ![n] = IF Fields(gcKey[n]) = {} THEN "srem" ELSE "next"]
          /\ UNCHANGED fails
       \/ Fail /\ gcPc' = [gcPc EXCEPT ![n] = "next"]
    /\ UNCHANGED <<now, begun, redisVars, threadVars, gcCutoff, gcTodo, gcKey, gcDel, gcGone,
                   closed>>

\* ... and SREM, which is sent outside of the transaction and so never fails
\* for the watched key's sake.
GCSRem(n) ==
    /\ gcPc[n] = "srem"
    /\ \/ ihSet' = ihSet \ {gcKey[n]} /\ (UNCHANGED fails \/ Fail)
       \/ Fail /\ UNCHANGED ihSet
    /\ gcPc' = [gcPc EXCEPT ![n] = "next"]
    /\ UNCHANGED <<now, begun, hash, count, downloads, slipped, threadVars, gcCutoff, gcTodo, gcKey,
                   gcDel, gcGone, closed>>

\* The instance stops in the middle of a collection, and starts again.
GCDie(n) ==
    /\ gcPc[n] \notin {"select", "exited"} /\ Fail
    /\ gcPc' = [gcPc EXCEPT ![n] = "select"]
    /\ gcCutoff' = [gcCutoff EXCEPT ![n] = 0]
    /\ gcTodo' = [gcTodo EXCEPT ![n] = {}]
    /\ gcKey' = [gcKey EXCEPT ![n] = NoKey]
    /\ gcDel' = [gcDel EXCEPT ![n] = {}]
    /\ gcGone' = [gcGone EXCEPT ![n] = {}]
    /\ UNCHANGED <<now, begun, redisVars, threadVars, closed>>

\* Close, which waits for the collector.
Close(n) ==
    /\ n \notin closed
    /\ closed' = closed \cup {n}
    /\ UNCHANGED <<now, begun, fails, redisVars, threadVars, gcVars>>

\* Mutant: the channel is looked at only when there are peers to delete.
GCExitBusy(n) ==
    /\ gcPc[n] = "hdel" /\ n \in closed
    /\ gcPc' = [gcPc EXCEPT ![n] = "exited"]
    /\ UNCHANGED <<now, begun, fails, redisVars, threadVars, gcCutoff, gcTodo, gcKey, gcDel,
                   gcGone, closed>>

GCExit(n) ==
    /\ gcPc[n] = "select" /\ n \in closed
    /\ gcPc' = [gcPc EXCEPT ![n] = "exited"]
    /\ UNCHANGED <<now, begun, fails, redisVars, threadVars, gcCutoff, gcTodo, gcKey, gcDel,
                   gcGone, closed>>

----------------------------------------------------------------------------
ThreadStep(t) == Put(t) \/ Graduate(t) \/ HDel(t) \/ Decr(t) \/ Scrape(t)

GCStep(n) ==
    \/ GCMembers(n) \/ GCGetAll(n) \/ GCDone(n) \/ GCHDel(n) \/ GCDecrBy(n) \/ GCHLen(n)
    \/ GCSRem(n)

Next ==
    \/ Tick
    \/ \E t \in Thread : ThreadStep(t) \/ Die(t) \/ \E c \in Call : Begin(t, c)
    \/ \E n \in Instance : GCFire(n) \/ GCStep(n) \/ GCDie(n) \/ Close(n) \/ GCExit(n)

Spec == Init /\ [][Next]_vars

\* Goroutines are scheduled, timers fire, the clock goes on.  A select with
\* both channels ready takes either, and the closed one again and again.
FairSpec ==
    /\ Spec
    /\ WF_vars(Tick)
    /\ \A t \in Thread : WF_vars(ThreadStep(t))
    /\ \A n \in Instance : WF_vars(GCFire(n)) /\ WF_vars(GCStep(n)) /\ SF_vars(GCExit(n))

----------------------------------------------------------------------------
(* Properties.                                                             *)

\* The variables have their types; the counters are whole numbers, the times
\* of peers are past.
TypeOK ==
    /\ now \in Nat /\ begun \in Nat /\ fails \in Nat
    /\ hash \in [Key -> [Peer -> Int]]
    /\ ihSet \subseteq Key
    /\ count \in [Kind -> Int]
    /\ downloads \in [InfoHash -> Nat]
    /\ pc \in [Thread -> {"idle", "put", "graduate", "hdel", "decr", "scrape"}]
    /\ call \in [Thread -> Call]
    /\ since \in [Thread -> Nat]
    /\ counts \in [Thread -> Seq(Nat)]
    /\ steady \in [Thread -> SUBSET Peer]
    /\ gcPc \in [Instance -> {"select", "smembers", "next", "hdel", "decrby", "hlen", "srem",
                             "exited"}]
    /\ gcCutoff \in [Instance -> Int]
    /\ gcTodo \in [Instance -> SUBSET Key]
    /\ gcKey \in [Instance -> Key]
    /\ gcDel \in [Instance -> SUBSET Peer]
    /\ gcGone \in [Instance -> SUBSET Peer]
    /\ closed \subseteq Instance
    /\ slipped \subseteq Key

\* The peers of one kind in all hashes, and the deletions not counted yet.
Held(k) == {x \in Key \X Peer : x[1].kind = k /\ hash[x[1]][x[2]] # Absent}
Deleting(k) == {t \in Thread : pc[t] = "decr" /\ kindOf(call[t].op) = k}
Collecting(k) == {x \in Instance \X Peer : gcKey[x[1]].kind = k /\ x[2] \in gcGone[x[1]]}

\* The counters are never below the number of peers stored: nothing counts a
\* deletion twice or one that did not happen, whoever deletes and whichever
\* command fails.  So they are never negative, and count() can read them.
CountersCover ==
    \A k \in Kind :
        count[k] >= Cardinality(Held(k)) + Cardinality(Deleting(k))
                       + Cardinality(Collecting(k))

\* A scrape counts every peer that stays in the swarm while it runs, although
\* it is four commands: leechers are counted before seeders, so a peer that
\* graduates meanwhile is counted, once or twice.
ScrapeCounts ==
    \A t \in Thread :
        Len(counts[t]) >= 4 =>
            counts[t][1] + counts[t][2] + counts[t][3] + counts[t][4]
                >= Cardinality(steady[t])

\* A key that holds peers is on the list gc goes through, unless it was written
\* to after a collector found it empty: that is the only way for peers to get
\* out of reach of the collectors, whoever deletes, fails or stops meanwhile.
\* That window should not be there: see StaysListed.
PeersListed == \A key \in Key : Fields(key) # {} => key \in ihSet \cup slipped

\* "If the change happens after the HLEN, we will attempt a transaction and it
\* will fail.  This is okay, the swarm is not empty, we will try cleaning it up
\* next time gc runs" (storage/redis/storage.go:696-698): gc takes no key that
\* holds peers off the list.
StaysListed == \A key \in Key : Fields(key) # {} => key \in ihSet

\* A peer of a listed key that is too old is collected, again and again,
\* unless the key is taken off the list or no collector is left.
StaleCollected ==
    \A key \in Key, p \in Peer :
        LET stale == /\ hash[key][p] # Absent /\ hash[key][p] + PeerLifetime <= now
                     /\ key \in ihSet
        IN  stale ~> (~stale \/ closed = Instance)

\* Close returns: the collector sees the closed channel.
CloseReturns == \A n \in Instance : n \in closed ~> gcPc[n] = "exited"

----------------------------------------------------------------------------
(* What the proofs need besides.                                           *)

\* A key that a collector is about to take off the list was empty when it
\* looked: if it holds peers now, they came afterwards.
Overtaken ==
    \A n \in Instance :
        (gcPc[n] = "srem" /\ Fields(gcKey[n]) # {}) => gcKey[n] \in slipped

\* The deletions a collector has to count are those of the key it is at.
Uncounted == \A n \in Instance : gcGone[n] # {} => gcPc[n] \in {"hdel", "decrby"}

\* The conjunction that every step preserves.
IInv == TypeOK /\ PeersListed /\ Overtaken /\ Uncounted /\ CountersCover

\* The peers under the keys that a scrape has yet to count, and its replies.
Ahead(t) ==
    {p \in Peer : \E j \in Len(counts[t]) + 1 .. 4 : p \in Fields(ScrapeKeys(call[t].ih)[j])}
Reply(s, j) == IF j <= Len(s) THEN s[j] ELSE 0
Replies(s) == Reply(s, 1) + Reply(s, 2) + Reply(s, 3) + Reply(s, 4)

\* A scrape has counted the steady peers that are not ahead of it: a peer may
\* only leave a key that is for one that is, unless it leaves the swarm.
Scraping ==
    \A t \in Thread :
        (pc[t] = "scrape" \/ Len(counts[t]) >= 4) =>
            Replies(counts[t]) >= Cardinality(steady[t] \ Ahead(t))

\* The conjunction that every step preserves.
ScrapeInv == TypeOK /\ Scraping
====
