-------------------------- MODULE RedisStoreProofs --------------------------
(***************************************************************************)
(* Theorems about RedisStore: its types, the list of keys, the counters of *)
(* seeders and leechers, and scrapes, for any number of tracker instances, *)
(* goroutines, info hashes and peers, and whatever fails or stops.         *)
(***************************************************************************)
EXTENDS RedisStore, TLAPS

USE ZenonT(60) DEF redisVars, threadVars, gcVars

\* The laws of finite sets and their cardinalities that the lemmas use. They
\* are proved before the theorems (LEMMA Counting).
CountingLaws ==
    /\ IsFiniteSet(Key \X Peer) /\ IsFiniteSet(Instance \X Peer)
    /\ IsFiniteSet({}) /\ Cardinality({}) = 0
    /\ \A x : IsFiniteSet({x}) /\ Cardinality({x}) = 1
    /\ \A S : IsFiniteSet(S) => Cardinality(S) \in Nat
    /\ \A S, T : IsFiniteSet(S) /\ T \subseteq S =>
                   IsFiniteSet(T) /\ Cardinality(T) <= Cardinality(S)
    /\ \A S, T, X : IsFiniteSet(S) /\ X \subseteq S /\ T \subseteq S \ X =>
                      Cardinality(T) <= Cardinality(S) - Cardinality(X)
    /\ \A S, T, X : IsFiniteSet(S) /\ IsFiniteSet(X) /\ T \subseteq S \cup X =>
                      Cardinality(T) <= Cardinality(S) + Cardinality(X)
    /\ \A x, S : IsFiniteSet(S) =>
                   IsFiniteSet({x} \X S) /\ Cardinality({x} \X S) = Cardinality(S)

LEMMA CountEmpty == ASSUME CountingLaws PROVE IsFiniteSet({}) /\ Cardinality({}) = 0
BY DEF CountingLaws

LEMMA CountSingleton ==
    ASSUME CountingLaws, NEW x PROVE IsFiniteSet({x}) /\ Cardinality({x}) = 1
BY DEF CountingLaws

LEMMA CountType ==
    ASSUME CountingLaws, NEW S, IsFiniteSet(S) PROVE Cardinality(S) \in Nat
BY DEF CountingLaws

LEMMA CountSubset ==
    ASSUME CountingLaws, NEW S, NEW T \in SUBSET S, IsFiniteSet(S)
    PROVE  IsFiniteSet(T) /\ Cardinality(T) <= Cardinality(S)
BY DEF CountingLaws

LEMMA CallFields ==
    ASSUME NEW c \in Call
    PROVE  /\ c.op \in WriteOps \cup {"ScrapeSwarm"} /\ c.ih \in InfoHash /\ c.p \in Peer
           /\ \A k \in Kind : keyOf(c, k) \in Key /\ keyOf(c, k).kind = k
<1>1. c \in CallType
  BY RedisAssumption
<1>2. c.op \in WriteOps \cup {"ScrapeSwarm"} /\ c.ih \in InfoHash /\ c.p \in Peer
  BY <1>1 DEF CallType
<1>3. Is6[c.p] \in BOOLEAN
  BY <1>2, RedisAssumption
<1> QED BY <1>2, <1>3 DEF keyOf, InfoHashKey, Key

LEMMA KindOfType == ASSUME NEW op PROVE kindOf(op) \in Kind
BY DEF kindOf, Kind

LEMMA NoCallType == NoCall \in Call
BY RedisAssumption DEF NoCall

LEMMA NoKeyType == NoKey \in Key
<1>1. \E c : c \in Call
  BY RedisAssumption
<1>2. \E key : key \in Key
  BY <1>1, CallFields DEF Kind
<1> QED BY <1>2 DEF NoKey

LEMMA FieldsType ==
    ASSUME CountingLaws, NEW key
    PROVE  IsFiniteSet(Fields(key)) /\ Cardinality(Fields(key)) \in Nat
BY RedisAssumption, CountSubset, CountType DEF Fields

\* Functions changed at one place.
LEMMA Except1 ==
    ASSUME NEW A, NEW D, NEW f \in [A -> D], NEW a, NEW d \in D
    PROVE  [f EXCEPT ![a] = d] \in [A -> D]
OBVIOUS

LEMMA Except2 ==
    ASSUME NEW A, NEW B, NEW D, NEW f \in [A -> [B -> D]], NEW a, NEW b, NEW d \in D
    PROVE  [f EXCEPT ![a][b] = d] \in [A -> [B -> D]]
OBVIOUS

\* The frames of the steps: what a thread's step and a collector's leave alone.
LEMMA ReturnType ==
    ASSUME TypeOK, NEW t \in Thread, Return(t)
    PROVE  /\ pc' \in [Thread -> {"idle", "put", "graduate", "hdel", "decr", "scrape"}]
           /\ call' \in [Thread -> Call] /\ since' \in [Thread -> Nat]
BY NoCallType DEF TypeOK, Return

LEMMA OutcomeType ==
    ASSUME TypeOK, NEW t \in Thread,
           NEW w \in {"idle", "put", "graduate", "hdel", "decr", "scrape"},
           Success(t, w) \/ Error(t)
    PROVE  /\ pc' \in [Thread -> {"idle", "put", "graduate", "hdel", "decr", "scrape"}]
           /\ call' \in [Thread -> Call] /\ since' \in [Thread -> Nat]
           /\ fails' \in Nat
<1>1. CASE Return(t)
  <2>1. fails' \in Nat
    BY SMTT(60) DEF Success, Error, Fail, TypeOK
  <2> QED BY <1>1, <2>1, ReturnType
<1>2. CASE ~Return(t)
  BY <1>2 DEF Success, Error, TypeOK
<1> QED BY <1>1, <1>2

LEMMA ListType ==
    ASSUME TypeOK, NEW key \in Key, List(key)
    PROVE  ihSet' \subseteq Key /\ slipped' \subseteq Key
BY DEF TypeOK, List

LEMMA PutType ==
    ASSUME TypeOK, NEW c \in Call, NEW m \in Int, PutBlock(c, m)
    PROVE  /\ hash' \in [Key -> [Peer -> Int]] /\ count' \in [Kind -> Int]
           /\ ihSet' \subseteq Key /\ slipped' \subseteq Key
           /\ downloads' \in [InfoHash -> Nat]
           /\ \A x \in Key, p \in Peer :
                 hash'[x][p] = IF x = keyOf(c, kindOf(c.op)) /\ p = c.p THEN m ELSE hash[x][p]
<1> DEFINE key == keyOf(c, kindOf(c.op))
<1>1. key \in Key
  BY CallFields, KindOfType
<1>2. /\ hash' \in [Key -> [Peer -> Int]]
      /\ \A x \in Key, p \in Peer :
            hash'[x][p] = IF x = key /\ p = c.p THEN m ELSE hash[x][p]
  <2>1. hash' = [hash EXCEPT ![key][c.p] = m] /\ hash \in [Key -> [Peer -> Int]]
    BY DEF PutBlock, TypeOK
  <2> HIDE DEF key
  <2>2. hash' \in [Key -> [Peer -> Int]]
    BY <2>1, Except2
  <2>3. \A x \in Key, p \in Peer :
           hash'[x][p] = IF x = key /\ p = c.p THEN m ELSE hash[x][p]
    BY <2>1
  <2> QED BY <2>2, <2>3
<1>3. ihSet' \subseteq Key /\ slipped' \subseteq Key
  BY <1>1, ListType DEF PutBlock
<1>4. count' = [count EXCEPT ![key.kind] = @ + 1] /\ UNCHANGED downloads
  BY DEF PutBlock
<1>5. count' \in [Kind -> Int] /\ downloads' \in [InfoHash -> Nat]
  <2>1. key.kind \in Kind
    BY CallFields, KindOfType
  <2>2. count[key.kind] + 1 \in Int
    BY SMTT(60), <2>1 DEF TypeOK
  <2> HIDE DEF key
  <2> QED BY <1>4, <2>2, Except1 DEF TypeOK
<1> QED BY <1>2, <1>3, <1>5

LEMMA GraduateType ==
    ASSUME TypeOK, NEW c \in Call, NEW m \in Int, GraduateBlock(c, m)
    PROVE  /\ hash' \in [Key -> [Peer -> Int]] /\ count' \in [Kind -> Int]
           /\ ihSet' \subseteq Key /\ slipped' \subseteq Key
           /\ downloads' \in [InfoHash -> Nat]
           /\ \A key \in Key, p \in Peer :
                 hash'[key][p] = IF key = keyOf(c, "seeders") /\ p = c.p THEN m
                                 ELSE IF key = keyOf(c, "leechers") /\ p = c.p THEN Absent
                                 ELSE hash[key][p]
<1> DEFINE from == keyOf(c, "leechers")
           to == keyOf(c, "seeders")
           h == [hash EXCEPT ![from][c.p] = Absent]
<1>1. from \in Key /\ to \in Key
  BY CallFields DEF Kind
<1>2. /\ h \in [Key -> [Peer -> Int]]
      /\ \A key \in Key, p \in Peer :
            h[key][p] = IF key = from /\ p = c.p THEN Absent ELSE hash[key][p]
  <2>1. Absent \in Int /\ hash \in [Key -> [Peer -> Int]]
    BY SMTT(60) DEF Absent, TypeOK
  <2> HIDE DEF from
  <2>2. h \in [Key -> [Peer -> Int]]
    BY <2>1, Except2
  <2>3. \A x \in Key, p \in Peer :
           h[x][p] = IF x = from /\ p = c.p THEN Absent ELSE hash[x][p]
    BY <2>1
  <2> QED BY <2>2, <2>3
<1>3. hash' = [h EXCEPT ![to][c.p] = m]
  BY DEF GraduateBlock
<1> HIDE DEF h
<1>4. /\ hash' \in [Key -> [Peer -> Int]]
      /\ \A key \in Key, p \in Peer :
            hash'[key][p] = IF key = to /\ p = c.p THEN m ELSE h[key][p]
  <2> HIDE DEF to
  <2>2. hash' \in [Key -> [Peer -> Int]]
    BY <1>2, <1>3, Except2
  <2>3. \A x \in Key, p \in Peer :
           hash'[x][p] = IF x = to /\ p = c.p THEN m ELSE h[x][p]
    BY SMTT(60), <1>2, <1>3
  <2> QED BY <2>2, <2>3
<1>5. \A key \in Key, p \in Peer :
         hash'[key][p] = IF key = to /\ p = c.p THEN m
                         ELSE IF key = from /\ p = c.p THEN Absent ELSE hash[key][p]
  BY SMTT(60), <1>2, <1>4
<1>6. ihSet' \subseteq Key /\ slipped' \subseteq Key
  BY <1>1, ListType DEF GraduateBlock
<1>7. /\ count' = [count EXCEPT !["seeders"] = @ + 1]
      /\ downloads' = [downloads EXCEPT ![c.ih] = @ + 1]
  BY DEF GraduateBlock
<1>8. count' \in [Kind -> Int] /\ downloads' \in [InfoHash -> Nat]
  <2>1. count["seeders"] + 1 \in Int /\ downloads[c.ih] + 1 \in Nat
    BY SMTT(60), CallFields DEF TypeOK, Kind
  <2> QED BY <1>7, <2>1, Except1 DEF TypeOK
<1> QED BY <1>4, <1>5, <1>6, <1>8

\* HDEL of one field.
LEMMA HDelType ==
    ASSUME TypeOK, NEW c \in Call, NEW k \in Kind,
           hash' = [hash EXCEPT ![keyOf(c, k)][c.p] = Absent]
    PROVE  /\ hash' \in [Key -> [Peer -> Int]]
           /\ \A x \in Key, p \in Peer :
                 hash'[x][p] = IF x = keyOf(c, k) /\ p = c.p THEN Absent ELSE hash[x][p]
<1>1. hash \in [Key -> [Peer -> Int]] /\ Absent \in Int
  BY SMTT(60) DEF TypeOK, Absent
<1>2. hash' \in [Key -> [Peer -> Int]]
  BY <1>1, Except2
<1>3. \A x \in Key, p \in Peer :
         hash'[x][p] = IF x = keyOf(c, k) /\ p = c.p THEN Absent ELSE hash[x][p]
  BY <1>1
<1> QED BY <1>2, <1>3

\* HDEL of the fields a collector asked for.
LEMMA GCHDelType ==
    ASSUME TypeOK, NEW key \in Key, NEW D,
           hash' = [hash EXCEPT ![key] = [p \in Peer |-> IF p \in D THEN Absent ELSE @[p]]]
    PROVE  /\ hash' \in [Key -> [Peer -> Int]]
           /\ \A x \in Key, p \in Peer :
                 hash'[x][p] = IF x = key /\ p \in D THEN Absent ELSE hash[x][p]
<1> DEFINE g == [p \in Peer |-> IF p \in D THEN Absent ELSE hash[key][p]]
<1>1. hash \in [Key -> [Peer -> Int]] /\ Absent \in Int
  BY SMTT(60) DEF TypeOK, Absent
<1>2. g \in [Peer -> Int] /\ \A p \in Peer : g[p] = IF p \in D THEN Absent ELSE hash[key][p]
  BY <1>1
<1>3. hash' = [hash EXCEPT ![key] = g]
  OBVIOUS
<1> HIDE DEF g
<1>4. hash' \in [Key -> [Peer -> Int]]
  BY <1>1, <1>2, <1>3
<1>5. \A x \in Key, p \in Peer :
         hash'[x][p] = IF x = key /\ p \in D THEN Absent ELSE hash[x][p]
  BY <1>1, <1>2, <1>3
<1> QED BY <1>4, <1>5

LEMMA UnsteadyType ==
    ASSUME TypeOK, NEW key, NEW D, Unsteady(key, D) PROVE steady' \in [Thread -> SUBSET Peer]
BY DEF TypeOK, Unsteady

\* The variables of the collectors, and the rest of the types.
ThreadTypes ==
    /\ now \in Nat /\ begun \in Nat /\ fails \in Nat
    /\ hash \in [Key -> [Peer -> Int]] /\ ihSet \subseteq Key /\ slipped \subseteq Key
    /\ count \in [Kind -> Int] /\ downloads \in [InfoHash -> Nat]
    /\ pc \in [Thread -> {"idle", "put", "graduate", "hdel", "decr", "scrape"}]
    /\ call \in [Thread -> Call]
    /\ since \in [Thread -> Nat]
    /\ counts \in [Thread -> Seq(Nat)]
    /\ steady \in [Thread -> SUBSET Peer]

CollectorTypes ==
    /\ gcPc \in [Instance -> {"select", "smembers", "next", "hdel", "decrby", "hlen", "srem",
                             "exited"}]
    /\ gcCutoff \in [Instance -> Int]
    /\ gcTodo \in [Instance -> SUBSET Key]
    /\ gcKey \in [Instance -> Key]
    /\ gcDel \in [Instance -> SUBSET Peer]
    /\ gcGone \in [Instance -> SUBSET Peer]
    /\ closed \subseteq Instance

LEMMA TypeParts == TypeOK <=> ThreadTypes /\ CollectorTypes
BY DEF TypeOK, ThreadTypes, CollectorTypes

\* The threads' steps.
LEMMA ThreadTypeStep ==
    ASSUME CountingLaws, TypeOK, NEW t \in Thread,
           ThreadStep(t) \/ Die(t) \/ \E c \in Call : Begin(t, c)
    PROVE  ThreadTypes'
<1> USE DEF ThreadTypes
<1>1. call[t] \in Call /\ since[t] \in Nat /\ now \in Nat
  BY DEF TypeOK
<1>2. since[t] .. now \subseteq Int
  BY SMTT(60), <1>1
<1>3. CASE Put(t)
  <2>1. CASE UNCHANGED redisVars /\ Error(t)
    <3>1. UNCHANGED <<now, begun, counts, steady>>
      BY <1>3 DEF Put
    <3> QED BY <2>1, <3>1, OutcomeType DEF TypeOK
  <2>2. CASE (\E m \in since[t] .. now : PutBlock(call[t], m)) /\ (Success(t, "idle") \/ Error(t))
    <3>1. UNCHANGED <<now, begun, counts, steady>>
      BY <1>3 DEF Put
    <3> QED BY <1>1, <1>2, <2>2, <3>1, OutcomeType, PutType DEF TypeOK
  <2> QED BY <1>3, <2>1, <2>2 DEF Put
<1>4. CASE Graduate(t)
  <2>1. CASE UNCHANGED redisVars /\ Error(t)
    <3>1. UNCHANGED <<now, begun, counts, steady>>
      BY <1>4 DEF Graduate
    <3> QED BY <2>1, <3>1, OutcomeType DEF TypeOK
  <2>2. CASE /\ \E m \in since[t] .. now : GraduateBlock(call[t], m)
             /\ Success(t, "idle") \/ Error(t)
    <3>1. UNCHANGED <<now, begun, counts, steady>>
      BY <1>4 DEF Graduate
    <3> QED BY <1>1, <1>2, <2>2, <3>1, OutcomeType, GraduateType DEF TypeOK
  <2> QED BY <1>4, <2>1, <2>2 DEF Graduate
<1>5. CASE HDel(t)
  <2> DEFINE key == keyOf(call[t], kindOf(call[t].op))
             deleted == hash[key][call[t].p] # Absent
  <2>1. UNCHANGED <<now, begun, ihSet, count, downloads, slipped, counts>>
    BY <1>5 DEF HDel
  <2>2. AfterHDel(deleted) \in {"idle", "put", "graduate", "hdel", "decr", "scrape"}
    BY DEF AfterHDel
  <2>3. CASE Error(t) /\ UNCHANGED <<hash, steady>>
    BY <2>1, <2>3, OutcomeType DEF TypeOK
  <2>4. CASE /\ hash' = [hash EXCEPT ![key][call[t].p] = Absent]
             /\ Unsteady(key, {call[t].p})
             /\ Success(t, AfterHDel(deleted)) \/ Error(t)
    <3>1. hash' \in [Key -> [Peer -> Int]]
      BY <1>1, <2>4, HDelType, KindOfType
    <3>2. steady' \in [Thread -> SUBSET Peer]
      BY <2>4, UnsteadyType
    <3> HIDE DEF deleted, key
    <3> QED BY SMTT(60), <2>1, <2>2, <2>4, <3>1, <3>2, OutcomeType DEF TypeOK
  <2> QED BY <1>5, <2>3, <2>4 DEF HDel
<1>6. CASE Decr(t)
  <2>1. count' \in [Kind -> Int]
    <3>1. count[kindOf(call[t].op)] - 1 \in Int /\ count \in [Kind -> Int]
      BY SMTT(60), KindOfType DEF TypeOK
    <3> QED BY <1>6, <3>1, Except1 DEF Decr
  <2>2. UNCHANGED <<now, begun, hash, ihSet, downloads, slipped, counts, steady>>
    BY <1>6 DEF Decr
  <2>3. Success(t, "idle") \/ Error(t)
    BY <1>6 DEF Decr
  <2> QED BY <2>1, <2>2, <2>3, OutcomeType DEF TypeOK
<1>7. CASE Scrape(t)
  <2> DEFINE i == Len(counts[t]) + 1
             reply == IF i <= 4 THEN Cardinality(Fields(ScrapeKeys(call[t].ih)[i]))
                      ELSE downloads[call[t].ih]
             w == IF i <= 4 THEN "scrape" ELSE "idle"
  <2>1. w \in {"idle", "put", "graduate", "hdel", "decr", "scrape"}
    OBVIOUS
  <2>2. reply \in Nat
    BY <1>1, FieldsType, CallFields DEF TypeOK
  <2>3. UNCHANGED <<now, begun, hash, ihSet, count, downloads, slipped, steady>>
    BY <1>7 DEF Scrape
  <2>4. \/ counts' = [counts EXCEPT ![t] = Append(@, reply)] /\ Success(t, w)
        \/ Error(t) /\ UNCHANGED counts
    BY <1>7 DEF Scrape
  <2> HIDE DEF reply, w
  <2>5. counts' \in [Thread -> Seq(Nat)]
    <3>1. counts \in [Thread -> Seq(Nat)] /\ Append(counts[t], reply) \in Seq(Nat)
      BY SMTT(60), <2>2 DEF TypeOK
    <3> QED BY <2>4, <3>1, Except1
  <2> QED BY <2>1, <2>3, <2>4, <2>5, OutcomeType DEF TypeOK
<1>8. CASE Die(t)
  BY <1>8, OutcomeType DEF Die, TypeOK
<1>9. CASE \E c \in Call : Begin(t, c)
  <2>1. PICK c \in Call : Begin(t, c)
    BY <1>9
  <2>2. PICK w \in {"put", "graduate", "hdel", "scrape"} : pc' = [pc EXCEPT ![t] = w]
    BY <2>1, CallFields DEF Begin, WriteOps
  <2>3. /\ call' \in [Thread -> Call] /\ since' \in [Thread -> Nat]
        /\ counts' \in [Thread -> Seq(Nat)]
    BY SMTT(60), <1>1, <2>1 DEF Begin, TypeOK
  <2>4. steady' \in [Thread -> SUBSET Peer]
    BY <2>1 DEF Begin, TypeOK, Swarm
  <2>5. UNCHANGED <<now, fails, redisVars>> /\ begun' = begun + 1
    BY <2>1 DEF Begin
  <2>6. pc' \in [Thread -> {"idle", "put", "graduate", "hdel", "decr", "scrape"}]
    BY <2>2 DEF TypeOK
  <2>7. /\ now' \in Nat /\ begun' \in Nat /\ fails' \in Nat
        /\ hash' \in [Key -> [Peer -> Int]] /\ ihSet' \subseteq Key /\ slipped' \subseteq Key
        /\ count' \in [Kind -> Int] /\ downloads' \in [InfoHash -> Nat]
    BY SMTT(60), <2>5 DEF TypeOK
  <2> QED BY <2>3, <2>4, <2>6, <2>7
<1> QED BY <1>3, <1>4, <1>5, <1>6, <1>7, <1>8, <1>9 DEF ThreadStep

\* The collectors' steps, and those of the clock and of Close.
LEMMA CollectorTypeStep ==
    ASSUME CountingLaws, TypeOK, NEW n \in Instance,
           GCFire(n) \/ GCStep(n) \/ GCDie(n) \/ Close(n) \/ GCExit(n)
    PROVE  TypeOK'
<1>1. CASE GCFire(n)
  <2>1. now - PeerLifetime \in Int
    BY SMTT(60), RedisAssumption DEF TypeOK
  <2>2. CollectorTypes'
    BY <1>1, <2>1 DEF GCFire, TypeOK, CollectorTypes
  <2>3. ThreadTypes'
    BY <1>1 DEF GCFire, TypeOK, ThreadTypes
  <2> QED BY <2>2, <2>3, TypeParts, PTL
<1>2. CASE GCMembers(n)
  <2>1. PICK w \in {"next", "select"} : gcPc' = [gcPc EXCEPT ![n] = w]
    BY <1>2 DEF GCMembers
  <2>2. gcTodo' \in [Instance -> SUBSET Key]
    <3>1. gcTodo \in [Instance -> SUBSET Key] /\ ihSet \in SUBSET Key
      BY DEF TypeOK
    <3>2. UNCHANGED gcTodo \/ gcTodo' = [gcTodo EXCEPT ![n] = ihSet]
      BY <1>2 DEF GCMembers
    <3> QED BY <3>1, <3>2
  <2>3. gcCutoff' \in [Instance -> Int] /\ fails' \in Nat
    BY SMTT(60), <1>2 DEF GCMembers, Fail, TypeOK
  <2>4. UNCHANGED <<now, begun, redisVars, threadVars, gcKey, gcDel, gcGone, closed>>
    BY <1>2 DEF GCMembers
  <2> QED BY <2>1, <2>2, <2>3, <2>4 DEF TypeOK
<1>3. CASE GCGetAll(n)
  <2>1. PICK key \in gcTodo[n] :
          /\ gcTodo' = [gcTodo EXCEPT ![n] = @ \ {key}]
          /\ \/ /\ gcKey' = [gcKey EXCEPT ![n] = key]
                /\ gcDel' = [gcDel EXCEPT ![n] =
                      {p \in Fields(key) : hash[key][p] <= gcCutoff[n]}]
                /\ gcPc' = [gcPc EXCEPT ![n] = IF gcDel'[n] = {} THEN "hlen" ELSE "hdel"]
                /\ UNCHANGED fails
             \/ Fail /\ UNCHANGED <<gcPc, gcKey, gcDel>>
    BY <1>3 DEF GCGetAll
  <2> DEFINE old == {p \in Fields(key) : hash[key][p] <= gcCutoff[n]}
  <2>2. key \in Key /\ gcTodo[n] \ {key} \in SUBSET Key /\ old \in SUBSET Peer
    BY DEF TypeOK, Fields
  <2>3. gcTodo' \in [Instance -> SUBSET Key]
    <3>1. gcTodo \in [Instance -> SUBSET Key]
      BY DEF TypeOK
    <3> QED BY <2>1, <2>2, <3>1, Except1
  <2>4. gcDel' \in [Instance -> SUBSET Peer] /\ gcKey' \in [Instance -> Key] /\ fails' \in Nat
    <3>1. /\ gcDel \in [Instance -> SUBSET Peer] /\ gcKey \in [Instance -> Key]
          /\ fails \in Nat
      BY DEF TypeOK
    <3>2. /\ UNCHANGED gcDel \/ gcDel' = [gcDel EXCEPT ![n] = old]
          /\ UNCHANGED gcKey \/ gcKey' = [gcKey EXCEPT ![n] = key]
          /\ fails' \in {fails, fails + 1}
      BY <2>1 DEF Fail
    <3> HIDE DEF old
    <3> QED BY SMTT(60), <2>2, <3>1, <3>2
  <2>5. gcPc' = gcPc \/ \E w \in {"hlen", "hdel"} : gcPc' = [gcPc EXCEPT ![n] = w]
    BY <2>1
  <2>6. UNCHANGED <<now, begun, redisVars, threadVars, gcCutoff, gcGone, closed>>
    BY <1>3 DEF GCGetAll
  <2> QED BY <2>3, <2>4, <2>5, <2>6 DEF TypeOK
<1>4. CASE GCDone(n)
  BY SMTT(60), <1>4, NoKeyType DEF GCDone, TypeOK
<1>5. CASE GCHDel(n)
  <2>1. PICK D : /\ \/ /\ hash' = [hash EXCEPT ![gcKey[n]] =
                              [p \in Peer |-> IF p \in D THEN Absent ELSE @[p]]]
                       /\ Unsteady(gcKey[n], D)
                       /\ \/ /\ gcGone' = [gcGone EXCEPT ![n] = @ \cup Removed(gcKey[n], D)]
                             /\ UNCHANGED fails
                          \/ Fail /\ UNCHANGED gcGone
                    \/ Fail /\ UNCHANGED <<hash, steady, gcGone>>
                 /\ gcDel' = [gcDel EXCEPT ![n] = @ \ D]
    BY <1>5 DEF GCHDel
  <2>2. hash' \in [Key -> [Peer -> Int]]
    <3>1. gcKey[n] \in Key
      BY DEF TypeOK
    <3>2. CASE UNCHANGED hash
      BY <3>2 DEF TypeOK
    <3>3. CASE hash' = [hash EXCEPT ![gcKey[n]] =
                              [p \in Peer |-> IF p \in D THEN Absent ELSE @[p]]]
      BY <3>1, <3>3, GCHDelType
    <3> QED BY <2>1, <3>2, <3>3
  <2>3. steady' \in [Thread -> SUBSET Peer]
    BY <2>1, UnsteadyType DEF TypeOK
  <2>4. gcDel' \in [Instance -> SUBSET Peer] /\ gcGone' \in [Instance -> SUBSET Peer]
    BY SMTT(60), <2>1 DEF TypeOK, Removed, Fields
  <2>5. fails' \in Nat
    BY SMTT(60), <2>1 DEF Fail, TypeOK
  <2>6. PICK w \in {"hdel", "decrby", "hlen"} : gcPc' = [gcPc EXCEPT ![n] = w]
    BY <1>5 DEF GCHDel
  <2>7. UNCHANGED <<now, begun, ihSet, count, downloads, slipped, pc, call, since, counts,
                    gcCutoff, gcTodo, gcKey, closed>>
    BY <1>5 DEF GCHDel
  <2> QED BY <2>2, <2>3, <2>4, <2>5, <2>6, <2>7 DEF TypeOK
<1>6. CASE GCDecrBy(n)
  <2>1. Cardinality(gcGone[n]) \in Nat
    BY RedisAssumption, CountSubset, CountType DEF TypeOK
  <2>2. count' \in [Kind -> Int]
    <3>1. gcKey[n].kind \in Kind /\ count \in [Kind -> Int]
      BY DEF TypeOK, Key
    <3>2. count[gcKey[n].kind] - Cardinality(gcGone[n]) \in Int
      BY SMTT(60), <2>1, <3>1
    <3> QED BY <1>6, <3>1, <3>2, Except1 DEF GCDecrBy
  <2> QED BY SMTT(60), <1>6, <2>2 DEF GCDecrBy, Fail, TypeOK
<1>7. CASE GCHLen(n)
  <2>1. PICK w \in {"next", "srem"} : gcPc' = [gcPc EXCEPT ![n] = w]
    BY <1>7 DEF GCHLen
  <2>2. fails' \in Nat
    BY SMTT(60), <1>7 DEF GCHLen, Fail, TypeOK
  <2>3. UNCHANGED <<now, begun, redisVars, threadVars, gcCutoff, gcTodo, gcKey, gcDel, gcGone,
                   closed>>
    BY <1>7 DEF GCHLen
  <2> QED BY <2>1, <2>2, <2>3 DEF TypeOK
<1>8. CASE GCSRem(n)
  BY SMTT(60), <1>8 DEF GCSRem, Fail, TypeOK
<1>9. CASE GCDie(n)
  BY SMTT(60), <1>9, NoKeyType DEF GCDie, Fail, TypeOK
<1>10. CASE Close(n) \/ GCExit(n)
  BY <1>10 DEF Close, GCExit, TypeOK
<1> QED BY <1>1, <1>2, <1>3, <1>4, <1>5, <1>6, <1>7, <1>8, <1>9, <1>10 DEF GCStep

LEMMA TypeStep == ASSUME CountingLaws, TypeOK, [Next]_vars PROVE TypeOK'
<1>1. CASE \E t \in Thread : ThreadStep(t) \/ Die(t) \/ \E c \in Call : Begin(t, c)
  <2>1. ThreadTypes'
    BY <1>1, ThreadTypeStep
  <2>2. UNCHANGED <<gcVars, closed>>
    BY <1>1 DEF ThreadStep, Put, Graduate, HDel, Decr, Scrape, Die, Begin
  <2>3. CollectorTypes'
    BY <2>2 DEF TypeOK, CollectorTypes
  <2> QED BY <2>1, <2>3, TypeParts, PTL
<1>2. CASE Tick \/ UNCHANGED vars
  BY SMTT(60), <1>2 DEF Tick, vars, TypeOK
<1> QED BY <1>1, <1>2, CollectorTypeStep DEF Next

LEMMA InitType == ASSUME CountingLaws, Init PROVE TypeOK
<1>1. PICK S \in Stored :
         /\ hash = [key \in Key |-> [p \in Peer |-> IF <<key, p>> \in S THEN 0 ELSE Absent]]
         /\ ihSet = {x[1] : x \in S}
         /\ count = [k \in Kind |-> Cardinality({x \in S : x[1].kind = k})]
  BY DEF Init
<1>2. hash \in [Key -> [Peer -> Int]]
  BY SMTT(60), <1>1 DEF Absent
<1>3. ihSet \subseteq Key
  BY <1>1, RedisAssumption
<1>4. \A k \in Kind : Cardinality({x \in S : x[1].kind = k}) \in Nat
  <2>1. S \subseteq Key \X Peer
    BY RedisAssumption
  <2>2. \A k : {x \in S : x[1].kind = k} \subseteq Key \X Peer
    BY <2>1
  <2>3. IsFiniteSet(Key \X Peer)
    BY DEF CountingLaws
  <2> QED BY <2>2, <2>3, CountSubset, CountType
<1>5. count \in [Kind -> Int]
  BY SMTT(60), <1>1, <1>4
<1>6. ThreadTypes
  BY SMTT(60), <1>2, <1>3, <1>5, NoCallType DEF Init, ThreadTypes
<1>7. CollectorTypes
  BY SMTT(60), NoKeyType DEF Init, CollectorTypes
<1> QED BY <1>6, <1>7, TypeParts

----------------------------------------------------------------------------
(* The list of keys.                                                       *)

\* Steps that store no peer and take no key off the list.
LEMMA ListedFrame ==
    ASSUME TypeOK, PeersListed, Overtaken, UNCHANGED <<ihSet, slipped>>,
           \A key \in Key, p \in Peer : hash'[key][p] # hash[key][p] => hash'[key][p] = Absent,
           \A n \in Instance : gcPc'[n] = "srem" =>
               /\ gcKey'[n] = gcKey[n]
               /\ gcPc[n] = "srem" \/ Fields(gcKey[n]) = {}
    PROVE  PeersListed' /\ Overtaken'
<1>1. \A key \in Key : Fields(key)' \subseteq Fields(key)
  BY DEF Fields
<1>2. \A n \in Instance : gcKey[n] \in Key
  BY DEF TypeOK
<1>3. PeersListed'
  BY <1>1 DEF PeersListed
<1>4. Overtaken'
  <2> SUFFICES ASSUME NEW n \in Instance, gcPc'[n] = "srem", Fields(gcKey[n])' # {}
               PROVE  gcKey'[n] \in slipped'
    BY DEF Overtaken
  <2>1. gcKey'[n] = gcKey[n] /\ gcKey[n] \in Key
    BY <1>2
  <2>2. Fields(gcKey[n])' \subseteq Fields(gcKey[n])
    BY SMTT(60), <2>1 DEF Fields
  <2> QED BY <2>1, <2>2 DEF Overtaken
<1> QED BY <1>3, <1>4

\* Writing to a key lists it.
LEMMA ListStep ==
    ASSUME TypeOK, PeersListed, Overtaken, NEW key \in Key, List(key), UNCHANGED <<gcPc, gcKey>>,
           \A x \in Key, p \in Peer :
               (x # key /\ hash'[x][p] # hash[x][p]) => hash'[x][p] = Absent
    PROVE  PeersListed' /\ Overtaken'
<1>1. \A x \in Key : x # key => Fields(x)' \subseteq Fields(x)
  BY DEF Fields
<1>2. PeersListed'
  BY <1>1 DEF PeersListed, List
<1>3. Overtaken'
  <2> SUFFICES ASSUME NEW n \in Instance, gcPc'[n] = "srem", Fields(gcKey[n])' # {}
               PROVE  gcKey'[n] \in slipped'
    BY DEF Overtaken
  <2>1. gcKey'[n] = gcKey[n] /\ gcKey[n] \in Key /\ gcPc[n] = "srem"
    BY DEF TypeOK
  <2>2. CASE gcKey[n] = key
    BY <2>1, <2>2 DEF List
  <2>3. CASE gcKey[n] # key
    <3>1. Fields(gcKey[n])' \subseteq Fields(gcKey[n])
      BY <2>1, <2>3 DEF Fields
    <3> QED BY <2>1, <2>3, <3>1 DEF List, Overtaken
  <2> QED BY <2>2, <2>3
<1> QED BY <1>2, <1>3

LEMMA ListedThreadStep ==
    ASSUME TypeOK, PeersListed, Overtaken, NEW t \in Thread,
           ThreadStep(t) \/ Die(t) \/ \E c \in Call : Begin(t, c)
    PROVE  PeersListed' /\ Overtaken'
<1> DEFINE c == call[t]
<1>1. c \in Call /\ since[t] .. now \subseteq Int
  BY SMTT(60) DEF TypeOK
<1>2. ASSUME UNCHANGED <<hash, ihSet, slipped, gcPc, gcKey>>
      PROVE  PeersListed' /\ Overtaken'
  BY <1>2, ListedFrame
<1>3. CASE Put(t)
  <2>1. CASE UNCHANGED redisVars
    BY <1>2, <1>3, <2>1 DEF Put
  <2>2. CASE \E m \in since[t] .. now : PutBlock(c, m)
    <3>1. PICK m \in since[t] .. now : PutBlock(c, m)
      BY <2>2
    <3>2. \A x \in Key, p \in Peer :
             hash'[x][p] = IF x = keyOf(c, kindOf(c.op)) /\ p = c.p THEN m ELSE hash[x][p]
      BY <1>1, <3>1, PutType
    <3>3. keyOf(c, kindOf(c.op)) \in Key
      BY <1>1, CallFields, KindOfType
    <3>4. List(keyOf(c, kindOf(c.op)))
      BY <3>1 DEF PutBlock
    <3>5. UNCHANGED <<gcPc, gcKey>>
      BY <1>3 DEF Put
    <3> HIDE DEF c
    <3> QED BY <3>2, <3>3, <3>4, <3>5, ListStep
  <2> QED BY <1>3, <2>1, <2>2 DEF Put
<1>4. CASE Graduate(t)
  <2>1. CASE UNCHANGED redisVars
    BY <1>2, <1>4, <2>1 DEF Graduate
  <2>2. CASE \E m \in since[t] .. now : GraduateBlock(c, m)
    <3>1. PICK m \in since[t] .. now : GraduateBlock(c, m)
      BY <2>2
    <3>2. \A x \in Key, p \in Peer :
             hash'[x][p] = IF x = keyOf(c, "seeders") /\ p = c.p THEN m
                           ELSE IF x = keyOf(c, "leechers") /\ p = c.p THEN Absent
                           ELSE hash[x][p]
      BY SMTT(60), <1>1, <3>1, GraduateType
    <3>3. keyOf(c, "seeders") \in Key
      BY <1>1, CallFields DEF Kind
    <3>4. List(keyOf(c, "seeders"))
      BY <3>1 DEF GraduateBlock
    <3>5. UNCHANGED <<gcPc, gcKey>>
      BY <1>4 DEF Graduate
    <3> HIDE DEF c
    <3> QED BY SMTT(60), <3>2, <3>3, <3>4, <3>5, ListStep
  <2> QED BY <1>4, <2>1, <2>2 DEF Graduate
<1>5. CASE HDel(t)
  <2>1. UNCHANGED <<ihSet, slipped, gcPc, gcKey>>
    BY <1>5 DEF HDel
  <2>2. \A key \in Key, p \in Peer : hash'[key][p] # hash[key][p] => hash'[key][p] = Absent
    <3>1. CASE UNCHANGED hash
      BY <3>1
    <3>2. CASE hash' = [hash EXCEPT ![keyOf(c, kindOf(c.op))][c.p] = Absent]
      BY SMTT(60), <1>1, <3>2, HDelType, KindOfType
    <3> QED BY <1>5, <3>1, <3>2 DEF HDel
  <2> QED BY <2>1, <2>2, ListedFrame
<1>6. CASE Decr(t) \/ Scrape(t) \/ Die(t)
  BY <1>2, <1>6 DEF Decr, Scrape, Die
<1>7. CASE \E d \in Call : Begin(t, d)
  BY <1>2, <1>7 DEF Begin
<1> QED BY <1>3, <1>4, <1>5, <1>6, <1>7 DEF ThreadStep

LEMMA ListedCollectorStep ==
    ASSUME TypeOK, PeersListed, Overtaken, NEW n \in Instance,
           GCFire(n) \/ GCStep(n) \/ GCDie(n) \/ Close(n) \/ GCExit(n)
    PROVE  PeersListed' /\ Overtaken'
<1>1. ASSUME UNCHANGED <<hash, ihSet, slipped>>,
             NEW w \in {"select", "smembers", "next", "hlen", "exited"},
             gcPc' = [gcPc EXCEPT ![n] = w], \A i \in Instance : i # n => gcKey'[i] = gcKey[i]
      PROVE  PeersListed' /\ Overtaken'
  <2>1. \A i \in Instance : gcPc'[i] = "srem" => gcPc[i] = "srem" /\ i # n
    BY <1>1 DEF TypeOK
  <2> QED BY <1>1, <2>1, ListedFrame
<1>2. CASE GCFire(n) \/ GCDone(n) \/ GCDecrBy(n) \/ GCDie(n) \/ GCExit(n) \/ GCMembers(n)
  <2>1. UNCHANGED <<hash, ihSet, slipped>> /\ \A i \in Instance : i # n => gcKey'[i] = gcKey[i]
    BY <1>2 DEF GCFire, GCDone, GCDecrBy, GCDie, GCExit, GCMembers, TypeOK
  <2>2. \E w \in {"select", "smembers", "next", "hlen", "exited"} : gcPc' = [gcPc EXCEPT ![n] = w]
    BY <1>2 DEF GCFire, GCDone, GCDecrBy, GCDie, GCExit, GCMembers
  <2> QED BY <1>1, <2>1, <2>2
<1>3. CASE GCGetAll(n)
  <2>1. UNCHANGED <<hash, ihSet, slipped>> /\ gcPc[n] = "next"
    BY <1>3 DEF GCGetAll
  <2>2. /\ \A i \in Instance : i # n => gcKey'[i] = gcKey[i]
        /\ UNCHANGED gcPc \/ \E w \in {"hlen", "hdel"} : gcPc' = [gcPc EXCEPT ![n] = w]
    BY <1>3 DEF GCGetAll, TypeOK
  <2>3. \A i \in Instance : gcPc'[i] = "srem" => gcPc[i] = "srem" /\ i # n
    BY <2>1, <2>2 DEF TypeOK
  <2> QED BY <2>1, <2>2, <2>3, ListedFrame
<1>4. CASE GCHDel(n)
  <2>1. UNCHANGED <<ihSet, slipped, gcKey>>
    BY <1>4 DEF GCHDel
  <2>2. \A i \in Instance : gcPc'[i] = "srem" => gcPc[i] = "srem"
    BY <1>4 DEF GCHDel, TypeOK
  <2>3. \A key \in Key, p \in Peer : hash'[key][p] # hash[key][p] => hash'[key][p] = Absent
    <3>1. CASE UNCHANGED hash
      BY <3>1
    <3>2. CASE \E D : hash' = [hash EXCEPT ![gcKey[n]] =
                                  [p \in Peer |-> IF p \in D THEN Absent ELSE @[p]]]
      <4>1. gcKey[n] \in Key
        BY DEF TypeOK
      <4> QED BY SMTT(60), <3>2, <4>1, GCHDelType
    <3> QED BY <1>4, <3>1, <3>2 DEF GCHDel
  <2> QED BY <2>1, <2>2, <2>3, ListedFrame
<1>5. CASE GCHLen(n)
  <2>1. UNCHANGED <<hash, ihSet, slipped, gcKey>>
    BY <1>5 DEF GCHLen
  <2>2. \A i \in Instance : gcPc'[i] = "srem" => gcPc[i] = "srem" \/ Fields(gcKey[i]) = {}
    BY <1>5 DEF GCHLen, TypeOK
  <2> QED BY <2>1, <2>2, ListedFrame
<1>6. CASE GCSRem(n)
  <2>1. /\ UNCHANGED <<hash, slipped, gcKey>> /\ gcPc[n] = "srem"
        /\ gcPc' = [gcPc EXCEPT ![n] = "next"]
        /\ ihSet \ {gcKey[n]} \subseteq ihSet'
    BY <1>6 DEF GCSRem
  <2>2. \A key : Fields(key)' = Fields(key)
    BY <2>1 DEF Fields
  <2>3. PeersListed'
    BY <2>1, <2>2 DEF PeersListed, Overtaken
  <2>4. Overtaken'
    BY <2>1, <2>2 DEF Overtaken, TypeOK, Fields
  <2> QED BY <2>3, <2>4
<1>7. CASE Close(n)
  BY <1>7, ListedFrame DEF Close
<1> QED BY <1>2, <1>3, <1>4, <1>5, <1>6, <1>7 DEF GCStep

LEMMA InitListed == ASSUME Init PROVE PeersListed /\ Overtaken
<1>1. PICK S \in Stored :
         /\ hash = [key \in Key |-> [p \in Peer |-> IF <<key, p>> \in S THEN 0 ELSE Absent]]
         /\ ihSet = {x[1] : x \in S}
  BY DEF Init
<1>2. ASSUME NEW key \in Key, Fields(key) # {} PROVE key \in ihSet
  <2>1. PICK p \in Peer : hash[key][p] # Absent
    BY <1>2 DEF Fields
  <2>2. <<key, p>> \in S
    BY <1>1, <2>1
  <2>3. <<key, p>>[1] \in ihSet
    BY SMTT(60), <1>1, <2>2
  <2> QED BY <2>3
<1> QED BY <1>2 DEF PeersListed, Init, Overtaken

LEMMA ListedStep ==
    ASSUME TypeOK, PeersListed, Overtaken, [Next]_vars PROVE PeersListed' /\ Overtaken'
<1>1. CASE Tick \/ UNCHANGED vars
  BY <1>1, ListedFrame DEF Tick, vars
<1> QED BY <1>1, ListedThreadStep, ListedCollectorStep DEF Next

----------------------------------------------------------------------------
(* The counters.                                                           *)

LEMMA UncountedStep ==
    ASSUME TypeOK, Uncounted, [Next]_vars PROVE Uncounted'
<1>1. ASSUME UNCHANGED <<gcPc, gcGone>> PROVE Uncounted'
  BY <1>1 DEF Uncounted
<1>2. ASSUME NEW n \in Instance, gcPc[n] \notin {"hdel", "decrby"}, UNCHANGED gcGone,
             NEW w, gcPc' = [gcPc EXCEPT ![n] = w]
      PROVE  Uncounted'
  BY <1>2 DEF Uncounted, TypeOK
<1>3. CASE \E t \in Thread : ThreadStep(t) \/ Die(t) \/ \E c \in Call : Begin(t, c)
  <2>1. UNCHANGED gcVars
    BY <1>3 DEF ThreadStep, Put, Graduate, HDel, Decr, Scrape, Die, Begin
  <2> QED BY <1>1, <2>1
<1>4. CASE Tick \/ UNCHANGED vars \/ \E n \in Instance : Close(n)
  BY <1>1, <1>4 DEF Tick, vars, Close
<1>5. ASSUME NEW n \in Instance,
             GCFire(n) \/ GCMembers(n) \/ GCDone(n) \/ GCHLen(n) \/ GCSRem(n) \/ GCExit(n)
      PROVE  Uncounted'
  BY <1>2, <1>5 DEF GCFire, GCMembers, GCDone, GCHLen, GCSRem, GCExit
<1>6. ASSUME NEW n \in Instance, GCGetAll(n) PROVE Uncounted'
  BY <1>1, <1>2, <1>6 DEF GCGetAll
<1>7. ASSUME NEW n \in Instance, GCDecrBy(n) \/ GCDie(n) PROVE Uncounted'
  <2>1. /\ gcGone' = [gcGone EXCEPT ![n] = {}]
        /\ \E w : gcPc' = [gcPc EXCEPT ![n] = w]
    BY <1>7 DEF GCDecrBy, GCDie
  <2> QED BY <2>1 DEF Uncounted, TypeOK
<1>8. ASSUME NEW n \in Instance, GCHDel(n) PROVE Uncounted'
  <2>1. /\ \A i \in Instance : i # n => gcGone'[i] = gcGone[i]
        /\ gcPc' = [gcPc EXCEPT ![n] = IF gcDel'[n] # {} THEN "hdel"
                                       ELSE IF gcGone'[n] # {} THEN "decrby" ELSE "hlen"]
    BY <1>8 DEF GCHDel, TypeOK
  <2> QED BY <2>1 DEF Uncounted, TypeOK
<1> QED BY <1>3, <1>4, <1>5, <1>6, <1>7, <1>8 DEF Next, GCStep

LEMMA CountMinus ==
    ASSUME CountingLaws, NEW S, NEW T, NEW X, IsFiniteSet(S), X \subseteq S, T \subseteq S \ X
    PROVE  Cardinality(T) <= Cardinality(S) - Cardinality(X)
BY DEF CountingLaws

LEMMA CountPlus ==
    ASSUME CountingLaws, NEW S, NEW T, NEW X, IsFiniteSet(S), IsFiniteSet(X),
           T \subseteq S \cup X
    PROVE  Cardinality(T) <= Cardinality(S) + Cardinality(X)
BY DEF CountingLaws

LEMMA CountRow ==
    ASSUME CountingLaws, NEW x, NEW S, IsFiniteSet(S)
    PROVE  IsFiniteSet({x} \X S) /\ Cardinality({x} \X S) = Cardinality(S)
BY DEF CountingLaws

\* The sets that CountersCover counts are finite.
LEMMA CountFinite ==
    ASSUME CountingLaws, NEW k
    PROVE  /\ IsFiniteSet(Held(k)) /\ Cardinality(Held(k)) \in Nat
           /\ IsFiniteSet(Deleting(k)) /\ Cardinality(Deleting(k)) \in Nat
           /\ IsFiniteSet(Collecting(k)) /\ Cardinality(Collecting(k)) \in Nat
<1>1. /\ Held(k) \subseteq Key \X Peer /\ Deleting(k) \subseteq Thread
      /\ Collecting(k) \subseteq Instance \X Peer
  BY DEF Held, Deleting, Collecting
<1>2. IsFiniteSet(Key \X Peer) /\ IsFiniteSet(Instance \X Peer)
  BY DEF CountingLaws
<1> QED BY <1>1, <1>2, RedisAssumption, CountSubset, CountType

LEMMA CountFiniteNext ==
    ASSUME CountingLaws, NEW k
    PROVE  /\ Cardinality(Held(k)') \in Nat /\ Cardinality(Deleting(k)') \in Nat
           /\ Cardinality(Collecting(k)') \in Nat
<1>1. /\ Held(k)' \subseteq Key \X Peer /\ Deleting(k)' \subseteq Thread
      /\ Collecting(k)' \subseteq Instance \X Peer
  BY DEF Held, Deleting, Collecting
<1>2. IsFiniteSet(Key \X Peer) /\ IsFiniteSet(Instance \X Peer)
  BY DEF CountingLaws
<1> QED BY <1>1, <1>2, RedisAssumption, CountSubset, CountType

\* Kinds whose sets gain nothing and whose counter does not go down.
LEMMA CoverFrameAt ==
    ASSUME CountingLaws, TypeOK, CountersCover, NEW k \in Kind, count'[k] \in Int,
           Held(k)' \subseteq Held(k), Deleting(k)' \subseteq Deleting(k),
           Collecting(k)' \subseteq Collecting(k), count'[k] >= count[k]
    PROVE  count'[k] >= Cardinality(Held(k)') + Cardinality(Deleting(k)')
                           + Cardinality(Collecting(k)')
<1>1. /\ Cardinality(Held(k)') <= Cardinality(Held(k))
      /\ Cardinality(Deleting(k)') <= Cardinality(Deleting(k))
      /\ Cardinality(Collecting(k)') <= Cardinality(Collecting(k))
  BY CountFinite, CountSubset
<1>2. count[k] \in Int
  BY DEF TypeOK
<1>3. count[k] >= Cardinality(Held(k)) + Cardinality(Deleting(k)) + Cardinality(Collecting(k))
  BY DEF CountersCover
<1> QED BY SMTT(60), <1>1, <1>2, <1>3, CountFinite, CountFiniteNext

LEMMA CollectingFrame ==
    ASSUME UNCHANGED <<gcKey, gcGone>>, NEW k PROVE Collecting(k)' = Collecting(k)
BY DEF Collecting

LEMMA DeletingFrame ==
    ASSUME UNCHANGED <<pc, call>>, NEW k PROVE Deleting(k)' = Deleting(k)
BY DEF Deleting

\* A thread that does not go on to its DECR.
LEMMA DeletingLess ==
    ASSUME TypeOK, NEW t \in Thread, NEW k,
           \A u \in Thread : u # t => pc'[u] = pc[u] /\ call'[u] = call[u],
           pc'[t] # "decr" \/ (pc'[t] = pc[t] /\ call'[t] = call[t])
    PROVE  Deleting(k)' \subseteq Deleting(k)
BY DEF Deleting

LEMMA OutcomeDeleting ==
    ASSUME TypeOK, NEW t \in Thread, NEW w, w # "decr", Success(t, w) \/ Error(t)
    PROVE  /\ pc'[t] # "decr"
           /\ \A u \in Thread : u # t => pc'[u] = pc[u] /\ call'[u] = call[u]
<1>1. \A v : pc' = [pc EXCEPT ![t] = v] =>
              pc'[t] = v /\ \A u \in Thread : u # t => pc'[u] = pc[u]
  BY DEF TypeOK
<1>2. CASE Return(t)
  BY <1>1, <1>2 DEF Return, TypeOK
<1>3. CASE ~Return(t)
  BY <1>1, <1>3 DEF Success, Error
<1> QED BY <1>2, <1>3

LEMMA ReturnDeleting ==
    ASSUME TypeOK, NEW t \in Thread, Success(t, "idle") \/ Error(t)
    PROVE  \A k : Deleting(k)' \subseteq Deleting(k)
<1>1. /\ pc'[t] # "decr"
      /\ \A u \in Thread : u # t => pc'[u] = pc[u] /\ call'[u] = call[u]
  BY SMTT(60), OutcomeDeleting
<1> QED BY <1>1, DeletingLess

\* Writes to at most one cell, and deletions.
LEMMA HeldGain ==
    ASSUME NEW k, NEW key \in Key, NEW q \in Peer,
           \A x \in Key, p \in Peer :
               hash'[x][p] # Absent => hash[x][p] # Absent \/ (x = key /\ p = q)
    PROVE  /\ Held(k)' \subseteq Held(k) \cup {<<key, q>>}
           /\ key.kind # k => Held(k)' \subseteq Held(k)
<1>1. ASSUME NEW z \in Held(k)', z \notin Held(k) PROVE z = <<key, q>> /\ key.kind = k
  <2>1. PICK x \in Key, p \in Peer : z = <<x, p>>
    BY SMTT(60), <1>1 DEF Held
  <2>2. x.kind = k /\ hash'[x][p] # Absent
    BY <1>1, <2>1 DEF Held
  <2>3. hash[x][p] = Absent
    BY <1>1, <2>1, <2>2 DEF Held
  <2> QED BY <2>1, <2>2, <2>3
<1> QED BY <1>1

\* Kinds that gain a peer and one count.
LEMMA CoverGainAt ==
    ASSUME CountingLaws, TypeOK, CountersCover, NEW k \in Kind, count'[k] = count[k] + 1, NEW y,
           Held(k)' \subseteq Held(k) \cup {y}, Deleting(k)' \subseteq Deleting(k),
           Collecting(k)' \subseteq Collecting(k)
    PROVE  count'[k] >= Cardinality(Held(k)') + Cardinality(Deleting(k)')
                           + Cardinality(Collecting(k)')
<1>1. IsFiniteSet({y}) /\ Cardinality({y}) = 1
  BY CountSingleton
<1>2. /\ Cardinality(Held(k)') <= Cardinality(Held(k)) + 1
      /\ Cardinality(Deleting(k)') <= Cardinality(Deleting(k))
      /\ Cardinality(Collecting(k)') <= Cardinality(Collecting(k))
  BY <1>1, CountFinite, CountSubset, CountPlus
<1>3. count[k] \in Int
  BY DEF TypeOK
<1>4. count[k] >= Cardinality(Held(k)) + Cardinality(Deleting(k)) + Cardinality(Collecting(k))
  BY DEF CountersCover
<1> QED BY SMTT(60), <1>2, <1>3, <1>4, CountFinite, CountFiniteNext

LEMMA CoverPut ==
    ASSUME CountingLaws, TypeOK, CountersCover, NEW t \in Thread, Put(t), TypeOK'
    PROVE  CountersCover'
<1> DEFINE c == call[t]
           kind == kindOf(c.op)
           key == keyOf(c, kind)
<1>1. c \in Call /\ since[t] .. now \subseteq Int /\ \A k \in Kind : count'[k] \in Int
  BY SMTT(60) DEF TypeOK
<1>2. key \in Key /\ key.kind = kind /\ kind \in Kind /\ c.p \in Peer
  BY <1>1, CallFields, KindOfType
<1>3. \A k \in Kind : Deleting(k)' \subseteq Deleting(k) /\ Collecting(k)' = Collecting(k)
  BY ReturnDeleting, CollectingFrame DEF Put
<1>4. CASE UNCHANGED redisVars
  <2>1. \A k \in Kind : Held(k)' = Held(k)
    BY <1>4 DEF Held
  <2>2. \A k \in Kind : count'[k] >= count[k]
    BY SMTT(60), <1>1, <1>4
  <2> QED BY <1>1, <1>3, <2>1, <2>2, CoverFrameAt DEF CountersCover
<1>5. CASE \E m \in since[t] .. now : PutBlock(c, m)
  <2>1. PICK m \in since[t] .. now : PutBlock(c, m)
    BY <1>5
  <2>2. \A x \in Key, p \in Peer : hash'[x][p] = IF x = key /\ p = c.p THEN m ELSE hash[x][p]
    BY SMTT(60), <1>1, <2>1, PutType
  <2>3. count' = [count EXCEPT ![kind] = @ + 1]
    BY <1>2, <2>1 DEF PutBlock
  <2> HIDE DEF c, kind, key
  <2>4. \A k \in Kind : /\ Held(k)' \subseteq Held(k) \cup {<<key, c.p>>}
                        /\ key.kind # k => Held(k)' \subseteq Held(k)
    BY SMTT(60), <1>2, <2>2, HeldGain
  <2>5. /\ count'[kind] = count[kind] + 1
        /\ \A k \in Kind : k # kind => count'[k] = count[k] /\ count'[k] >= count[k]
    BY SMTT(60), <1>1, <1>2, <2>3 DEF TypeOK
  <2>6. ASSUME NEW k \in Kind
        PROVE  count'[k] >= Cardinality(Held(k)') + Cardinality(Deleting(k)')
                               + Cardinality(Collecting(k)')
    <3>1. CASE k # kind
      BY <1>1, <1>2, <1>3, <2>4, <2>5, <3>1, CoverFrameAt
    <3>2. CASE k = kind
      BY <1>3, <2>4, <2>5, <3>2, CoverGainAt
    <3> QED BY <3>1, <3>2
  <2> QED BY <2>6 DEF CountersCover
<1> QED BY <1>4, <1>5 DEF Put

LEMMA CoverGraduate ==
    ASSUME CountingLaws, TypeOK, CountersCover, NEW t \in Thread, Graduate(t), TypeOK'
    PROVE  CountersCover'
<1> DEFINE c == call[t]
           to == keyOf(c, "seeders")
<1>1. c \in Call /\ since[t] .. now \subseteq Int /\ \A k \in Kind : count'[k] \in Int
  BY SMTT(60) DEF TypeOK
<1>2. to \in Key /\ to.kind = "seeders" /\ c.p \in Peer
  BY <1>1, CallFields DEF Kind
<1>3. \A k \in Kind : Deleting(k)' \subseteq Deleting(k) /\ Collecting(k)' = Collecting(k)
  BY ReturnDeleting, CollectingFrame DEF Graduate
<1>4. CASE UNCHANGED redisVars
  <2>1. \A k \in Kind : Held(k)' = Held(k)
    BY <1>4 DEF Held
  <2>2. \A k \in Kind : count'[k] >= count[k]
    BY SMTT(60), <1>1, <1>4
  <2> QED BY <1>1, <1>3, <2>1, <2>2, CoverFrameAt DEF CountersCover
<1>5. CASE \E m \in since[t] .. now : GraduateBlock(c, m)
  <2>1. PICK m \in since[t] .. now : GraduateBlock(c, m)
    BY <1>5
  <2>2. \A x \in Key, p \in Peer :
           hash'[x][p] # Absent => hash[x][p] # Absent \/ (x = to /\ p = c.p)
    BY SMTT(60), <1>1, <2>1, GraduateType
  <2>3. count' = [count EXCEPT !["seeders"] = @ + 1]
    BY <2>1 DEF GraduateBlock
  <2> HIDE DEF c, to
  <2>4. \A k \in Kind : /\ Held(k)' \subseteq Held(k) \cup {<<to, c.p>>}
                        /\ to.kind # k => Held(k)' \subseteq Held(k)
    BY <1>2, <2>2, HeldGain
  <2>5. /\ count'["seeders"] = count["seeders"] + 1
        /\ \A k \in Kind : k # "seeders" => count'[k] = count[k] /\ count'[k] >= count[k]
    BY SMTT(60), <1>1, <2>3 DEF TypeOK, Kind
  <2>6. ASSUME NEW k \in Kind
        PROVE  count'[k] >= Cardinality(Held(k)') + Cardinality(Deleting(k)')
                               + Cardinality(Collecting(k)')
    <3>1. CASE k # "seeders"
      BY <1>1, <1>2, <1>3, <2>4, <2>5, <3>1, CoverFrameAt
    <3>2. CASE k = "seeders"
      BY <1>3, <2>4, <2>5, <3>2, CoverGainAt
    <3> QED BY <3>1, <3>2
  <2> QED BY <2>6 DEF CountersCover
<1> QED BY <1>4, <1>5 DEF Graduate

\* Kinds whose peers become deletions to be counted.
LEMMA CoverMoveAt ==
    ASSUME CountingLaws, TypeOK, CountersCover, NEW k \in Kind, count'[k] = count[k],
           NEW X, NEW Y, NEW Z, IsFiniteSet(Y), IsFiniteSet(Z),
           Cardinality(Y) + Cardinality(Z) <= Cardinality(X), X \subseteq Held(k),
           Held(k)' \subseteq Held(k) \ X, Deleting(k)' \subseteq Deleting(k) \cup Y,
           Collecting(k)' \subseteq Collecting(k) \cup Z
    PROVE  count'[k] >= Cardinality(Held(k)') + Cardinality(Deleting(k)')
                           + Cardinality(Collecting(k)')
<1>1. /\ Cardinality(Held(k)') <= Cardinality(Held(k)) - Cardinality(X)
      /\ Cardinality(Deleting(k)') <= Cardinality(Deleting(k)) + Cardinality(Y)
      /\ Cardinality(Collecting(k)') <= Cardinality(Collecting(k)) + Cardinality(Z)
  BY CountFinite, CountMinus, CountPlus
<1>2. Cardinality(X) \in Nat /\ Cardinality(Y) \in Nat /\ Cardinality(Z) \in Nat
  BY CountFinite, CountSubset, CountType
<1>3. count[k] \in Int
  BY DEF TypeOK
<1>4. count[k] >= Cardinality(Held(k)) + Cardinality(Deleting(k)) + Cardinality(Collecting(k))
  BY DEF CountersCover
<1> QED BY SMTT(60), <1>1, <1>2, <1>3, <1>4, CountFinite, CountFiniteNext

\* Kinds whose deletions have been counted.
LEMMA CoverDropAt ==
    ASSUME CountingLaws, TypeOK, CountersCover, NEW k \in Kind, NEW Y, NEW Z,
           count'[k] = count[k] - Cardinality(Y) - Cardinality(Z),
           Y \subseteq Deleting(k), Z \subseteq Collecting(k),
           Held(k)' \subseteq Held(k), Deleting(k)' \subseteq Deleting(k) \ Y,
           Collecting(k)' \subseteq Collecting(k) \ Z
    PROVE  count'[k] >= Cardinality(Held(k)') + Cardinality(Deleting(k)')
                           + Cardinality(Collecting(k)')
<1>1. /\ Cardinality(Held(k)') <= Cardinality(Held(k))
      /\ Cardinality(Deleting(k)') <= Cardinality(Deleting(k)) - Cardinality(Y)
      /\ Cardinality(Collecting(k)') <= Cardinality(Collecting(k)) - Cardinality(Z)
  BY CountFinite, CountMinus, CountSubset
<1>2. Cardinality(Y) \in Nat /\ Cardinality(Z) \in Nat
  BY CountFinite, CountSubset, CountType
<1>3. count[k] \in Int
  BY DEF TypeOK
<1>4. count[k] >= Cardinality(Held(k)) + Cardinality(Deleting(k)) + Cardinality(Collecting(k))
  BY DEF CountersCover
<1> QED BY SMTT(60), <1>1, <1>2, <1>3, <1>4, CountFinite, CountFiniteNext

LEMMA CoverHDel ==
    ASSUME CountingLaws, TypeOK, CountersCover, NEW t \in Thread, HDel(t), TypeOK'
    PROVE  CountersCover'
<1> DEFINE c == call[t]
           kind == kindOf(c.op)
           key == keyOf(c, kind)
           x == <<key, c.p>>
<1>1. c \in Call /\ (\A k \in Kind : count'[k] \in Int /\ count[k] \in Int) /\ UNCHANGED count
  BY DEF TypeOK, HDel
<1>2. key \in Key /\ key.kind = kind /\ kind \in Kind /\ c.p \in Peer
  BY <1>1, CallFields, KindOfType
<1>3. \A k \in Kind : Collecting(k)' = Collecting(k)
  BY CollectingFrame DEF HDel
<1>4. \A y \in Key, p \in Peer : hash'[y][p] # Absent => hash[y][p] # Absent
  <2>1. CASE UNCHANGED hash
    BY <2>1
  <2>2. CASE hash' = [hash EXCEPT ![key][c.p] = Absent]
    BY <1>1, <1>2, <2>2, HDelType
  <2> QED BY <2>1, <2>2 DEF HDel
<1>5. \A k \in Kind : Held(k)' \subseteq Held(k)
  BY <1>4 DEF Held
<1>6. CASE Success(t, "idle") \/ Error(t)
  <2>1. \A k \in Kind : Deleting(k)' \subseteq Deleting(k)
    BY <1>6, ReturnDeleting
  <2>2. \A k \in Kind : count'[k] >= count[k]
    BY SMTT(60), <1>1
  <2> QED BY <1>1, <1>3, <1>5, <2>1, <2>2, CoverFrameAt DEF CountersCover
<1>7. CASE /\ hash[key][c.p] # Absent /\ hash' = [hash EXCEPT ![key][c.p] = Absent]
           /\ Success(t, "decr")
  <2>1. pc' = [pc EXCEPT ![t] = "decr"] /\ UNCHANGED call
    BY <1>7 DEF Success
  <2>2. \A k \in Kind : /\ Deleting(k)' \subseteq Deleting(k) \cup {t}
                        /\ k # kind => Deleting(k)' \subseteq Deleting(k)
    BY <2>1 DEF Deleting, TypeOK
  <2>3. hash'[key][c.p] = Absent
    BY <1>1, <1>2, <1>7, HDelType
  <2> HIDE DEF c, kind, key
  <2>4. \A k \in Kind : k = kind => x \in Held(k) /\ x \notin Held(k)'
    BY <1>2, <1>7, <2>3 DEF Held
  <2> HIDE DEF x
  <2>5. /\ Cardinality({x}) = 1 /\ Cardinality({t}) = 1 /\ Cardinality({}) = 0
        /\ IsFiniteSet({t}) /\ IsFiniteSet({})
    BY CountSingleton, CountEmpty
  <2>6. ASSUME NEW k \in Kind
        PROVE  count'[k] >= Cardinality(Held(k)') + Cardinality(Deleting(k)')
                               + Cardinality(Collecting(k)')
    <3>1. CASE k # kind
      <4>1. count'[k] >= count[k]
        BY SMTT(60), <1>1
      <4> QED BY <1>1, <1>3, <1>5, <2>2, <3>1, <4>1, CoverFrameAt
    <3>2. CASE k = kind
      <4>1. /\ {x} \subseteq Held(k) /\ Held(k)' \subseteq Held(k) \ {x}
            /\ Collecting(k)' \subseteq Collecting(k) \cup {}
            /\ Deleting(k)' \subseteq Deleting(k) \cup {t}
        BY <1>3, <1>5, <2>2, <2>4, <3>2
      <4>2. Cardinality({t}) + Cardinality({}) <= Cardinality({x}) /\ count'[k] = count[k]
        BY SMTT(60), <1>1, <2>5
      <4> QED BY <2>5, <4>1, <4>2, CoverMoveAt
    <3> QED BY <3>1, <3>2
  <2> QED BY <2>6 DEF CountersCover
<1> QED BY <1>6, <1>7 DEF HDel, AfterHDel

LEMMA CoverDecr ==
    ASSUME CountingLaws, TypeOK, CountersCover, NEW t \in Thread, Decr(t), TypeOK'
    PROVE  CountersCover'
<1> DEFINE kind == kindOf(call[t].op)
<1>1. kind \in Kind /\ \A k \in Kind : count'[k] \in Int /\ count[k] \in Int
  BY CallFields, KindOfType DEF TypeOK
<1>2. \A k \in Kind : Collecting(k)' = Collecting(k) /\ Held(k)' = Held(k)
  BY CollectingFrame DEF Decr, Held
<1>3. \A k \in Kind : Deleting(k)' \subseteq Deleting(k)
  BY ReturnDeleting DEF Decr
<1>4. t \in Deleting(kind) /\ \A k \in Kind : k # kind => t \notin Deleting(k)
  BY DEF Deleting, Decr
<1>5. pc'[t] = "idle" /\ \A k \in Kind : t \notin Deleting(k)'
  BY DEF Decr, Success, Error, Return, TypeOK, Deleting
<1>6. CASE UNCHANGED count
  <2>1. \A k \in Kind : count'[k] >= count[k]
    BY SMTT(60), <1>1, <1>6
  <2> QED BY <1>1, <1>2, <1>3, <2>1, CoverFrameAt DEF CountersCover
<1>7. CASE count' = [count EXCEPT ![kind] = @ - 1]
  <2>1. /\ count'[kind] = count[kind] - 1
        /\ \A k \in Kind : k # kind => count'[k] = count[k] /\ count'[k] >= count[k]
    BY SMTT(60), <1>1, <1>7 DEF TypeOK
  <2> HIDE DEF kind
  <2>2. Cardinality({t}) = 1 /\ Cardinality({}) = 0
    BY CountSingleton, CountEmpty
  <2>3. ASSUME NEW k \in Kind
        PROVE  count'[k] >= Cardinality(Held(k)') + Cardinality(Deleting(k)')
                               + Cardinality(Collecting(k)')
    <3>1. CASE k # kind
      BY <1>1, <1>2, <1>3, <2>1, <3>1, CoverFrameAt
    <3>2. CASE k = kind
      <4>1. /\ {t} \subseteq Deleting(k) /\ Deleting(k)' \subseteq Deleting(k) \ {t}
            /\ {} \subseteq Collecting(k) /\ Collecting(k)' \subseteq Collecting(k) \ {}
            /\ Held(k)' \subseteq Held(k)
        BY <1>2, <1>3, <1>4, <1>5, <3>2
      <4>2. count'[k] = count[k] - Cardinality({t}) - Cardinality({})
        BY SMTT(60), <1>1, <2>1, <2>2, <3>2
      <4> QED BY <4>1, <4>2, CoverDropAt
    <3> QED BY <3>1, <3>2
  <2> QED BY <2>3 DEF CountersCover
<1> QED BY <1>6, <1>7 DEF Decr

LEMMA CoverGCHDel ==
    ASSUME CountingLaws, TypeOK, CountersCover, NEW n \in Instance, GCHDel(n), TypeOK'
    PROVE  CountersCover'
<1> DEFINE key == gcKey[n]
<1>1. key \in Key /\ key.kind \in Kind
  BY DEF TypeOK, Key
<1>2. UNCHANGED <<count, gcKey>> /\ \A k \in Kind : count'[k] \in Int /\ count[k] \in Int
  BY DEF TypeOK, GCHDel
<1>3. \A k \in Kind : Deleting(k)' = Deleting(k) /\ count'[k] = count[k] /\ count'[k] >= count[k]
  BY SMTT(60), <1>2, DeletingFrame DEF GCHDel
<1>4. \A y \in Key, p \in Peer : hash'[y][p] # Absent => hash[y][p] # Absent
  <2>1. CASE UNCHANGED hash
    BY <2>1
  <2>2. CASE \E D : hash' = [hash EXCEPT ![key] = [p \in Peer |-> IF p \in D THEN Absent ELSE @[p]]]
    BY SMTT(60), <1>1, <2>2, GCHDelType
  <2> QED BY <2>1, <2>2 DEF GCHDel
<1>5. \A k \in Kind : Held(k)' \subseteq Held(k)
  BY <1>4 DEF Held
<1>6. CASE UNCHANGED gcGone
  <2>1. \A k \in Kind : Collecting(k)' = Collecting(k)
    BY <1>2, <1>6, CollectingFrame
  <2> QED BY <1>2, <1>3, <1>5, <2>1, CoverFrameAt DEF CountersCover
<1>7. CASE \E D : /\ hash' = [hash EXCEPT ![key] = [p \in Peer |-> IF p \in D THEN Absent ELSE @[p]]]
                  /\ gcGone' = [gcGone EXCEPT ![n] = @ \cup Removed(key, D)]
  <2>1. PICK D : /\ hash' = [hash EXCEPT ![key] = [p \in Peer |-> IF p \in D THEN Absent ELSE @[p]]]
                 /\ gcGone' = [gcGone EXCEPT ![n] = @ \cup Removed(key, D)]
    BY <1>7
  <2>2. \A y \in Key, p \in Peer : hash'[y][p] = IF y = key /\ p \in D THEN Absent ELSE hash[y][p]
    BY <1>1, <2>1, GCHDelType
  <2> DEFINE S == Removed(key, D)
             X == {key} \X S
             Z == {n} \X S
  <2>3. S \subseteq Peer /\ \A p \in S : p \in D /\ hash[key][p] # Absent
    BY DEF Removed, Fields
  <2>4. gcGone'[n] = gcGone[n] \cup S /\ \A i \in Instance : i # n => gcGone'[i] = gcGone[i]
    BY <2>1 DEF TypeOK
  <2>5. \A k \in Kind : k = key.kind =>
           X \subseteq Held(k) /\ \A z \in X : z \notin Held(k)'
    BY SMTT(60), <1>1, <2>2, <2>3 DEF Held
  <2>6. \A k \in Kind : /\ Collecting(k)' \subseteq Collecting(k) \cup Z
                        /\ k # key.kind => Collecting(k)' \subseteq Collecting(k)
    BY <1>2, <2>3, <2>4 DEF Collecting
  <2>7. /\ Cardinality(X) = Cardinality(S) /\ Cardinality(Z) = Cardinality(S)
        /\ IsFiniteSet(Z) /\ Cardinality(S) \in Nat
    <3>1. S \in SUBSET Peer /\ IsFiniteSet(Peer)
      BY <2>3, RedisAssumption
    <3>2. IsFiniteSet(S)
      BY <3>1, CountSubset
    <3> QED BY <3>2, CountRow, CountType
  <2> HIDE DEF key, X, Z, S
  <2>8. Cardinality({}) = 0 /\ IsFiniteSet({})
    BY CountEmpty
  <2>9. ASSUME NEW k \in Kind
        PROVE  count'[k] >= Cardinality(Held(k)') + Cardinality(Deleting(k)')
                               + Cardinality(Collecting(k)')
    <3>1. CASE k # key.kind
      BY <1>2, <1>3, <1>5, <2>6, <3>1, CoverFrameAt
    <3>2. CASE k = key.kind
      <4>1. /\ X \subseteq Held(k) /\ Held(k)' \subseteq Held(k) \ X
            /\ Deleting(k)' \subseteq Deleting(k) \cup {}
            /\ Collecting(k)' \subseteq Collecting(k) \cup Z
        BY <1>3, <1>5, <2>5, <2>6, <3>2
      <4>2. Cardinality({}) + Cardinality(Z) <= Cardinality(X)
        BY SMTT(60), <2>7, <2>8
      <4> QED BY <1>3, <2>7, <2>8, <4>1, <4>2, CoverMoveAt
    <3> QED BY <3>1, <3>2
  <2> QED BY <2>9 DEF CountersCover
<1> QED BY <1>6, <1>7 DEF GCHDel

LEMMA CoverGCDecrBy ==
    ASSUME CountingLaws, TypeOK, CountersCover, NEW n \in Instance, GCDecrBy(n), TypeOK'
    PROVE  CountersCover'
<1> DEFINE kind == gcKey[n].kind
           Z == {n} \X gcGone[n]
<1>1. kind \in Kind /\ \A k \in Kind : count'[k] \in Int /\ count[k] \in Int
  BY DEF TypeOK, Key
<1>2. \A k \in Kind : Deleting(k)' = Deleting(k) /\ Held(k)' = Held(k)
  BY DeletingFrame DEF GCDecrBy, Held
<1>3. gcGone'[n] = {} /\ UNCHANGED gcKey /\ \A i \in Instance : i # n => gcGone'[i] = gcGone[i]
  BY DEF GCDecrBy, TypeOK
<1>4. gcGone[n] \subseteq Peer
  BY DEF TypeOK
<1>5. \A k \in Kind : Collecting(k)' \subseteq Collecting(k)
  BY <1>3 DEF Collecting
<1>6. \A k \in Kind : k = kind => Z \subseteq Collecting(k) /\ \A z \in Z : z \notin Collecting(k)'
  BY <1>3, <1>4 DEF Collecting
<1>7. CASE UNCHANGED count
  <2>1. \A k \in Kind : count'[k] >= count[k]
    BY SMTT(60), <1>1, <1>7
  <2> QED BY <1>1, <1>2, <1>5, <2>1, CoverFrameAt DEF CountersCover
<1>8. CASE count' = [count EXCEPT ![kind] = @ - Cardinality(gcGone[n])]
  <2>1. Cardinality(Z) = Cardinality(gcGone[n]) /\ Cardinality(Z) \in Nat
    <3>1. gcGone[n] \in SUBSET Peer /\ IsFiniteSet(Peer)
      BY <1>4, RedisAssumption
    <3>2. IsFiniteSet(gcGone[n])
      BY <3>1, CountSubset
    <3> QED BY <3>2, CountRow, CountType
  <2>2. /\ count'[kind] = count[kind] - Cardinality(gcGone[n])
        /\ \A k \in Kind : k # kind => count'[k] = count[k] /\ count'[k] >= count[k]
    BY SMTT(60), <1>1, <1>8 DEF TypeOK
  <2> HIDE DEF kind, Z
  <2>3. Cardinality({}) = 0
    BY CountEmpty
  <2>4. ASSUME NEW k \in Kind
        PROVE  count'[k] >= Cardinality(Held(k)') + Cardinality(Deleting(k)')
                               + Cardinality(Collecting(k)')
    <3>1. CASE k # kind
      BY <1>1, <1>2, <1>5, <2>2, <3>1, CoverFrameAt
    <3>2. CASE k = kind
      <4>1. /\ {} \subseteq Deleting(k) /\ Deleting(k)' \subseteq Deleting(k) \ {}
            /\ Z \subseteq Collecting(k) /\ Collecting(k)' \subseteq Collecting(k) \ Z
            /\ Held(k)' \subseteq Held(k)
        BY <1>2, <1>5, <1>6, <3>2
      <4>2. count'[k] = count[k] - Cardinality({}) - Cardinality(Z)
        BY SMTT(60), <1>1, <2>1, <2>2, <2>3, <3>2
      <4> QED BY <4>1, <4>2, CoverDropAt
    <3> QED BY <3>1, <3>2
  <2> QED BY <2>4 DEF CountersCover
<1> QED BY <1>7, <1>8 DEF GCDecrBy

LEMMA CoverFrame ==
    ASSUME CountingLaws, TypeOK, CountersCover, TypeOK', UNCHANGED <<hash, count>>,
           \A k \in Kind : Deleting(k)' \subseteq Deleting(k) /\ Collecting(k)' \subseteq Collecting(k)
    PROVE  CountersCover'
<1>1. \A k \in Kind : Held(k)' = Held(k)
  BY DEF Held
<1>2. \A k \in Kind : count'[k] \in Int /\ count'[k] >= count[k]
  BY SMTT(60) DEF TypeOK
<1> QED BY <1>1, <1>2, CoverFrameAt DEF CountersCover

LEMMA CoverThreadStep ==
    ASSUME CountingLaws, TypeOK, CountersCover, TypeOK', NEW t \in Thread,
           ThreadStep(t) \/ Die(t) \/ \E c \in Call : Begin(t, c)
    PROVE  CountersCover'
<1>1. CASE Scrape(t)
  <2>1. \A k \in Kind : Collecting(k)' = Collecting(k)
    BY <1>1, CollectingFrame DEF Scrape
  <2>2. \E w \in {"scrape", "idle"} : Success(t, w) \/ Error(t)
    BY <1>1 DEF Scrape
  <2>3. /\ pc'[t] # "decr"
        /\ \A u \in Thread : u # t => pc'[u] = pc[u] /\ call'[u] = call[u]
    BY <2>2, OutcomeDeleting
  <2>4. \A k \in Kind : Deleting(k)' \subseteq Deleting(k)
    BY <2>3, DeletingLess
  <2> QED BY <1>1, <2>1, <2>4, CoverFrame DEF Scrape
<1>2. CASE Die(t)
  <2>1. \A k \in Kind : Collecting(k)' = Collecting(k) /\ Deleting(k)' \subseteq Deleting(k)
    BY <1>2, CollectingFrame, ReturnDeleting DEF Die
  <2> QED BY <1>2, <2>1, CoverFrame DEF Die
<1>3. ASSUME NEW c \in Call, Begin(t, c) PROVE CountersCover'
  <2>1. \A k \in Kind : Collecting(k)' = Collecting(k)
    BY <1>3, CollectingFrame DEF Begin
  <2>2. PICK w \in {"put", "hdel", "graduate", "scrape"} : pc' = [pc EXCEPT ![t] = w]
    BY <1>3, CallFields DEF Begin, CallType, WriteOps
  <2>3. pc'[t] # "decr" /\ \A u \in Thread : u # t => pc'[u] = pc[u]
    BY <2>2 DEF TypeOK
  <2>4. \A u \in Thread : u # t => call'[u] = call[u]
    BY SMTT(60), <1>3 DEF Begin, TypeOK
  <2>5. \A k \in Kind : Deleting(k)' \subseteq Deleting(k)
    BY <2>3, <2>4, DeletingLess
  <2> QED BY <1>3, <2>1, <2>5, CoverFrame DEF Begin
<1> QED BY <1>1, <1>2, <1>3, CoverPut, CoverGraduate, CoverHDel, CoverDecr DEF ThreadStep

LEMMA CoverCollectorStep ==
    ASSUME CountingLaws, TypeOK, CountersCover, Uncounted, TypeOK', NEW n \in Instance,
           GCFire(n) \/ GCStep(n) \/ GCDie(n) \/ Close(n) \/ GCExit(n)
    PROVE  CountersCover'
<1>1. CASE GCFire(n) \/ GCMembers(n) \/ GCHLen(n) \/ GCSRem(n) \/ GCExit(n) \/ Close(n)
  <2>1. UNCHANGED <<hash, count, pc, call, gcKey, gcGone>>
    BY <1>1 DEF GCFire, GCMembers, GCHLen, GCSRem, GCExit, Close
  <2> QED BY <2>1, CollectingFrame, DeletingFrame, CoverFrame
<1>2. CASE GCGetAll(n) \/ GCDone(n) \/ GCDie(n)
  <2>1. UNCHANGED <<hash, count, pc, call>> /\ gcGone'[n] = {}
    BY <1>2 DEF GCGetAll, GCDone, GCDie, Uncounted, TypeOK
  <2>2. \A i \in Instance : i # n => gcKey'[i] = gcKey[i] /\ gcGone'[i] = gcGone[i]
    BY SMTT(60), <1>2 DEF GCGetAll, GCDone, GCDie, TypeOK
  <2>3. \A k \in Kind : Collecting(k)' \subseteq Collecting(k)
    BY <2>1, <2>2 DEF Collecting
  <2> QED BY <2>1, <2>3, DeletingFrame, CoverFrame
<1> QED BY <1>1, <1>2, CoverGCHDel, CoverGCDecrBy DEF GCStep

LEMMA CoverStep ==
    ASSUME CountingLaws, TypeOK, CountersCover, Uncounted, [Next]_vars, TypeOK' PROVE CountersCover'
<1>1. CASE Tick \/ UNCHANGED vars
  <2>1. UNCHANGED <<hash, count, pc, call, gcKey, gcGone>>
    BY <1>1 DEF Tick, vars
  <2> QED BY <2>1, CollectingFrame, DeletingFrame, CoverFrame
<1> QED BY <1>1, CoverThreadStep, CoverCollectorStep DEF Next

LEMMA InitCover ==
    ASSUME CountingLaws, Init PROVE Uncounted /\ CountersCover
<1>1. Uncounted
  BY DEF Init, Uncounted
<1>2. PICK S \in Stored :
         /\ hash = [key \in Key |-> [p \in Peer |-> IF <<key, p>> \in S THEN 0 ELSE Absent]]
         /\ count = [k \in Kind |-> Cardinality({x \in S : x[1].kind = k})]
  BY DEF Init
<1>3. \A x \in S : x \in Key \X Peer
  BY RedisAssumption
<1>4. \A key \in Key, p \in Peer : hash[key][p] # Absent <=> <<key, p>> \in S
  <2>1. 0 # Absent
    BY SMTT(60) DEF Absent
  <2>2. \A key \in Key, p \in Peer : hash[key][p] = IF <<key, p>> \in S THEN 0 ELSE Absent
    BY <1>2
  <2> QED BY <2>1, <2>2
<1>6. ASSUME NEW k \in Kind
      PROVE  Held(k) = {x \in S : x[1].kind = k} /\ Deleting(k) = {} /\ Collecting(k) = {}
  <2>1. \A z \in Key \X Peer : hash[z[1]][z[2]] # Absent <=> z \in S
    BY SMTT(60), <1>4
  <2>2. Held(k) = {x \in S : x[1].kind = k}
    BY <1>3, <2>1 DEF Held
  <2>3. Deleting(k) = {} /\ Collecting(k) = {}
    BY DEF Init, Deleting, Collecting
  <2> QED BY <2>2, <2>3
<1>7. ASSUME NEW k \in Kind
      PROVE  count[k] >= Cardinality(Held(k)) + Cardinality(Deleting(k)) + Cardinality(Collecting(k))
  <2>1. count[k] = Cardinality(Held(k)) /\ Cardinality(Held(k)) \in Nat
    BY <1>2, <1>6, CountFinite
  <2>2. Cardinality(Deleting(k)) = 0 /\ Cardinality(Collecting(k)) = 0
    BY <1>6, CountEmpty
  <2> QED BY SMTT(60), <2>1, <2>2
<1> QED BY <1>1, <1>7 DEF CountersCover

----------------------------------------------------------------------------
(* Scrapes.                                                                *)

\* The peers under the keys from m + 1 on, in the hashes h.
AheadIn(h, m, ih) == {p \in Peer : \E j \in m + 1 .. 4 : h[ScrapeKeys(ih)[j]][p] # Absent}

\* What Scraping says of a thread at w that scrapes ih, got the replies s and
\* has the steady peers st.
Scraped(w, ih, s, st, h) ==
    (w = "scrape" \/ Len(s) >= 4) => Replies(s) >= Cardinality(st \ AheadIn(h, Len(s), ih))

LEMMA ScrapedIff ==
    Scraping <=> \A t \in Thread : Scraped(pc[t], call[t].ih, counts[t], steady[t], hash)
<1>1. ASSUME NEW t \in Thread PROVE Ahead(t) = AheadIn(hash, Len(counts[t]), call[t].ih)
  BY DEF Ahead, AheadIn, Fields
<1> QED BY <1>1 DEF Scraping, Scraped

LEMMA ScrapedIffNext ==
    ASSUME \A t \in Thread : Scraped(pc'[t], call'[t].ih, counts'[t], steady'[t], hash')
    PROVE  Scraping'
<1>1. ASSUME NEW t \in Thread PROVE Ahead(t)' = AheadIn(hash', Len(counts'[t]), call'[t].ih)
  BY DEF Ahead, AheadIn, Fields
<1> QED BY <1>1 DEF Scraping, Scraped

LEMMA ScrapeKey ==
    ASSUME NEW ih \in InfoHash
    PROVE  /\ ScrapeKeys(ih)[1] = InfoHashKey(ih, "leechers", FALSE)
           /\ ScrapeKeys(ih)[2] = InfoHashKey(ih, "leechers", TRUE)
           /\ ScrapeKeys(ih)[3] = InfoHashKey(ih, "seeders", FALSE)
           /\ ScrapeKeys(ih)[4] = InfoHashKey(ih, "seeders", TRUE)
           /\ \A j \in 1 .. 4 : j \in {1, 2, 3, 4}
BY SMTT(60) DEF ScrapeKeys

LEMMA KeyFields ==
    ASSUME NEW ih \in InfoHash, NEW k \in Kind, NEW v \in BOOLEAN
    PROVE  /\ InfoHashKey(ih, k, v) \in Key /\ InfoHashKey(ih, k, v).ih = ih
           /\ InfoHashKey(ih, k, v).kind = k /\ InfoHashKey(ih, k, v).v6 = v
BY DEF InfoHashKey, Key

\* Peers in the swarm of ih that stay there from h to h2: those of a key stay
\* under it, or graduate.
Stay(P, ih, h, h2) ==
    \A key \in Key, p \in P :
        (key.ih = ih /\ h[key][p] # Absent) =>
            \/ h2[key][p] # Absent
            \/ key.kind = "leechers" /\ h2[InfoHashKey(ih, "seeders", key.v6)][p] # Absent

LEMMA StayAt ==
    ASSUME NEW ih \in InfoHash, NEW h, NEW h2, NEW P, Stay(P, ih, h, h2), NEW p \in P,
           NEW k \in Kind, NEW v \in BOOLEAN, h[InfoHashKey(ih, k, v)][p] # Absent
    PROVE  \/ h2[InfoHashKey(ih, k, v)][p] # Absent
           \/ k = "leechers" /\ h2[InfoHashKey(ih, "seeders", v)][p] # Absent
<1> DEFINE key == InfoHashKey(ih, k, v)
<1>1. key \in Key /\ key.ih = ih /\ key.kind = k /\ key.v6 = v /\ h[key][p] # Absent
  BY KeyFields
<1> HIDE DEF key
<1>2. \/ h2[key][p] # Absent
      \/ key.kind = "leechers" /\ h2[InfoHashKey(ih, "seeders", key.v6)][p] # Absent
  BY <1>1 DEF Stay
<1> QED BY <1>1, <1>2 DEF key

\* They stay ahead: the keys of seeders come after those of leechers.
LEMMA StayAhead ==
    ASSUME NEW ih \in InfoHash, NEW h, NEW h2, NEW P \in SUBSET Peer, Stay(P, ih, h, h2),
           NEW m \in Nat
    PROVE  P \cap AheadIn(h, m, ih) \subseteq AheadIn(h2, m, ih)
<1> SUFFICES ASSUME NEW p \in P, NEW j \in m + 1 .. 4, h[ScrapeKeys(ih)[j]][p] # Absent
             PROVE  \E i \in m + 1 .. 4 : h2[ScrapeKeys(ih)[i]][p] # Absent
  BY DEF AheadIn
<1>1. j \in {1, 2, 3, 4} /\ (j \in {1, 2} => j + 2 \in m + 1 .. 4)
  BY SMTT(60)
<1>2. 1 + 2 = 3 /\ 2 + 2 = 4
  BY SMTT(60)
<1>3. "leechers" \in Kind /\ "seeders" \in Kind /\ "leechers" # "seeders"
      /\ TRUE \in BOOLEAN /\ FALSE \in BOOLEAN
  BY DEF Kind
<1>4. CASE j = 1
  <2>1. \/ h2[ScrapeKeys(ih)[1]][p] # Absent
        \/ h2[ScrapeKeys(ih)[3]][p] # Absent
    <3>1. h[InfoHashKey(ih, "leechers", FALSE)][p] # Absent
      BY <1>4, ScrapeKey
    <3>2. \/ h2[InfoHashKey(ih, "leechers", FALSE)][p] # Absent
          \/ "leechers" = "leechers" /\ h2[InfoHashKey(ih, "seeders", FALSE)][p] # Absent
      BY <1>3, <3>1, StayAt
    <3> QED BY <1>3, <3>2, ScrapeKey
  <2> QED BY <1>1, <1>2, <1>4, <2>1
<1>5. CASE j = 2
  <2>1. \/ h2[ScrapeKeys(ih)[2]][p] # Absent
        \/ h2[ScrapeKeys(ih)[4]][p] # Absent
    <3>1. h[InfoHashKey(ih, "leechers", TRUE)][p] # Absent
      BY <1>5, ScrapeKey
    <3>2. \/ h2[InfoHashKey(ih, "leechers", TRUE)][p] # Absent
          \/ "leechers" = "leechers" /\ h2[InfoHashKey(ih, "seeders", TRUE)][p] # Absent
      BY <1>3, <3>1, StayAt
    <3> QED BY <1>3, <3>2, ScrapeKey
  <2> QED BY <1>1, <1>2, <1>5, <2>1
<1>6. CASE j = 3
  <2>1. h2[ScrapeKeys(ih)[3]][p] # Absent
    <3>1. h[InfoHashKey(ih, "seeders", FALSE)][p] # Absent
      BY <1>6, ScrapeKey
    <3>2. \/ h2[InfoHashKey(ih, "seeders", FALSE)][p] # Absent
          \/ "seeders" = "leechers" /\ h2[InfoHashKey(ih, "seeders", FALSE)][p] # Absent
      BY <1>3, <3>1, StayAt
    <3> QED BY <1>3, <3>2, ScrapeKey
  <2> QED BY <1>6, <2>1
<1>7. CASE j = 4
  <2>1. h2[ScrapeKeys(ih)[4]][p] # Absent
    <3>1. h[InfoHashKey(ih, "seeders", TRUE)][p] # Absent
      BY <1>7, ScrapeKey
    <3>2. \/ h2[InfoHashKey(ih, "seeders", TRUE)][p] # Absent
          \/ "seeders" = "leechers" /\ h2[InfoHashKey(ih, "seeders", TRUE)][p] # Absent
      BY <1>3, <3>1, StayAt
    <3> QED BY <1>3, <3>2, ScrapeKey
  <2> QED BY <1>7, <2>1
<1> QED BY <1>1, <1>4, <1>5, <1>6, <1>7

LEMMA RepliesType == ASSUME NEW s \in Seq(Nat) PROVE Replies(s) \in Nat
<1>1. ASSUME NEW j \in {1, 2, 3, 4} PROVE Reply(s, j) \in Nat
  BY SMTT(60) DEF Reply
<1> QED BY SMTT(60), <1>1 DEF Replies

\* A thread whose peers stay keeps what it has counted.
LEMMA ScrapedStay ==
    ASSUME CountingLaws, NEW ih \in InfoHash, NEW s \in Seq(Nat), NEW st \in SUBSET Peer,
           NEW h, NEW h2, NEW st2 \in SUBSET st, NEW w, Scraped(w, ih, s, st, h),
           Stay(st2, ih, h, h2)
    PROVE  Scraped(w, ih, s, st2, h2)
<1> DEFINE A == st \ AheadIn(h, Len(s), ih)
           B == st2 \ AheadIn(h2, Len(s), ih)
<1>1. Len(s) \in Nat
  BY SMTT(60)
<1>2. B \subseteq A
  BY <1>1, StayAhead
<1>3. IsFiniteSet(A) /\ IsFiniteSet(B) /\ A \subseteq Peer
  BY RedisAssumption, CountSubset
<1>4. Cardinality(A) \in Nat /\ Cardinality(B) \in Nat /\ Cardinality(B) <= Cardinality(A)
  BY <1>2, <1>3, CountSubset, CountType
<1>5. Replies(s) \in Nat
  BY RepliesType
<1>6. ASSUME w = "scrape" \/ Len(s) >= 4 PROVE Replies(s) >= Cardinality(B)
  <2>1. Replies(s) >= Cardinality(A)
    BY <1>6 DEF Scraped
  <2> HIDE DEF A, B
  <2> QED BY SMTT(60), <1>4, <1>5, <2>1
<1> QED BY <1>6 DEF Scraped

\* When the replies are in, nothing is ahead.
LEMMA NoneAhead ==
    ASSUME NEW h, NEW m \in Nat, m >= 4, NEW ih PROVE AheadIn(h, m, ih) = {}
<1>1. m + 1 .. 4 = {}
  BY SMTT(60)
<1> QED BY <1>1 DEF AheadIn

\* All peers are counted.
Complete(s, st) == Len(s) >= 4 => Replies(s) >= Cardinality(st)

LEMMA ScrapedComplete ==
    ASSUME NEW s \in Seq(Nat), NEW ih, NEW h, NEW st, NEW w, Scraped(w, ih, s, st, h)
    PROVE  Complete(s, st)
<1>1. Len(s) \in Nat
  BY SMTT(60)
<1>2. st \ {} = st
  OBVIOUS
<1> QED BY <1>1, <1>2, NoneAhead DEF Scraped, Complete

LEMMA CompleteScraped ==
    ASSUME NEW s \in Seq(Nat), NEW ih, NEW h, NEW st, NEW w, w # "scrape", Complete(s, st)
    PROVE  Scraped(w, ih, s, st, h)
<1>1. Len(s) \in Nat
  BY SMTT(60)
<1>2. st \ {} = st
  OBVIOUS
<1> QED BY <1>1, <1>2, NoneAhead DEF Scraped, Complete

LEMMA CompleteLess ==
    ASSUME CountingLaws, NEW s \in Seq(Nat), NEW st \in SUBSET Peer, NEW st2 \in SUBSET st,
           Complete(s, st)
    PROVE  Complete(s, st2)
<1>1. IsFiniteSet(st) /\ IsFiniteSet(st2) /\ Cardinality(st2) <= Cardinality(st)
  BY RedisAssumption, CountSubset
<1>2. Cardinality(st) \in Nat /\ Cardinality(st2) \in Nat /\ Replies(s) \in Nat
  BY <1>1, CountType, RepliesType
<1> QED BY SMTT(60), <1>1, <1>2 DEF Complete

\* What the steps do to the peers of the scrapes.
Kept(u) == steady'[u] \in SUBSET steady[u] /\ Stay(steady'[u], call[u].ih, hash, hash')

LEMMA KeptSame ==
    ASSUME NEW u \in Thread, UNCHANGED steady,
           \A key \in Key, p \in Peer : hash[key][p] # Absent => hash'[key][p] # Absent, TypeOK
    PROVE  Kept(u)
<1>1. steady[u] \in SUBSET Peer
  BY DEF TypeOK
<1> QED BY <1>1 DEF Kept, Stay

LEMMA PutKept ==
    ASSUME TypeOK, NEW c \in Call, NEW m \in Nat, PutBlock(c, m), UNCHANGED steady,
           NEW u \in Thread
    PROVE  Kept(u)
<1>1. m \in Int /\ m # Absent
  BY SMTT(60) DEF Absent
<1>2. \A x \in Key, p \in Peer :
         hash'[x][p] = IF x = keyOf(c, kindOf(c.op)) /\ p = c.p THEN m ELSE hash[x][p]
  BY <1>1, PutType
<1> QED BY <1>1, <1>2, KeptSame

LEMMA GraduateKept ==
    ASSUME TypeOK, NEW c \in Call, NEW m \in Nat, GraduateBlock(c, m), UNCHANGED steady,
           NEW u \in Thread
    PROVE  Kept(u)
<1> DEFINE from == keyOf(c, "leechers")
           to == keyOf(c, "seeders")
<1>1. m \in Int /\ m # Absent
  BY SMTT(60) DEF Absent
<1>2. \A x \in Key, p \in Peer : hash'[x][p] = IF x = to /\ p = c.p THEN m
                                               ELSE IF x = from /\ p = c.p THEN Absent
                                               ELSE hash[x][p]
  BY <1>1, GraduateType
<1>3. /\ to \in Key /\ from.kind = "leechers" /\ steady[u] \in SUBSET Peer
      /\ to = InfoHashKey(from.ih, "seeders", from.v6)
  <2>1. to \in Key /\ from.kind = "leechers"
    BY CallFields DEF Kind
  <2>2. to = InfoHashKey(from.ih, "seeders", from.v6)
    BY DEF keyOf, InfoHashKey
  <2> QED BY <2>1, <2>2 DEF TypeOK
<1> HIDE DEF from, to
<1>4. ASSUME NEW key \in Key, NEW p \in Peer, hash[key][p] # Absent
      PROVE  \/ hash'[key][p] # Absent
             \/ key.kind = "leechers" /\ hash'[InfoHashKey(key.ih, "seeders", key.v6)][p] # Absent
  <2>1. CASE key = from /\ p = c.p /\ key # to
    BY <1>1, <1>2, <1>3, <2>1
  <2>2. CASE ~(key = from /\ p = c.p) \/ key = to
    BY <1>1, <1>2, <1>4, <2>2
  <2> QED BY <2>1, <2>2
<1>5. Stay(steady[u], call[u].ih, hash, hash')
  BY <1>3, <1>4 DEF Stay
<1> QED BY <1>5 DEF Kept

OnlyDrops(key, D) ==
    \A x \in Key, p \in Peer : ~(x = key /\ p \in D) => hash'[x][p] = hash[x][p]

LEMMA DropKept ==
    ASSUME TypeOK, NEW key \in Key, NEW D, Unsteady(key, D), NEW u \in Thread,
           OnlyDrops(key, D)
    PROVE  Kept(u)
<1>1. steady'[u] = IF call[u].ih = key.ih THEN steady[u] \ D ELSE steady[u]
  BY DEF Unsteady
<1>2. steady[u] \in SUBSET Peer
  BY DEF TypeOK
<1>3. ASSUME NEW x \in Key, NEW p \in steady'[u], x.ih = call[u].ih, hash[x][p] # Absent
      PROVE  hash'[x][p] # Absent
  BY <1>1, <1>2, <1>3 DEF OnlyDrops
<1> QED BY <1>1, <1>3 DEF Kept, Stay

LEMMA HDelKept ==
    ASSUME TypeOK, NEW t \in Thread, HDel(t), NEW u \in Thread PROVE Kept(u)
<1> DEFINE c == call[t]
           key == keyOf(c, kindOf(c.op))
<1>1. CASE UNCHANGED <<hash, steady>>
  BY <1>1, KeptSame
<1>2. CASE hash' = [hash EXCEPT ![key][c.p] = Absent] /\ Unsteady(key, {c.p})
  <2>1. c \in Call /\ key \in Key /\ kindOf(c.op) \in Kind
    BY CallFields, KindOfType DEF TypeOK
  <2>2. \A x \in Key, p \in Peer :
           hash'[x][p] = IF x = key /\ p = c.p THEN Absent ELSE hash[x][p]
    BY <1>2, <2>1, HDelType
  <2>3. OnlyDrops(key, {c.p})
    BY <2>2 DEF OnlyDrops
  <2>4. Unsteady(key, {c.p})
    BY <1>2
  <2> HIDE DEF key
  <2> QED BY <2>1, <2>3, <2>4, DropKept
<1> QED BY <1>1, <1>2 DEF HDel

LEMMA GCHDelKept ==
    ASSUME TypeOK, NEW n \in Instance, GCHDel(n), NEW u \in Thread PROVE Kept(u)
<1>1. CASE UNCHANGED <<hash, steady>>
  BY <1>1, KeptSame
<1>2. ASSUME NEW D, Unsteady(gcKey[n], D),
             hash' = [hash EXCEPT ![gcKey[n]] =
                        [p \in Peer |-> IF p \in D THEN Absent ELSE @[p]]]
      PROVE  Kept(u)
  <2>1. gcKey[n] \in Key
    BY DEF TypeOK
  <2>2. \A x \in Key, p \in Peer :
           hash'[x][p] = IF x = gcKey[n] /\ p \in D THEN Absent ELSE hash[x][p]
    BY SMTT(60), <1>2, <2>1, GCHDelType
  <2>3. OnlyDrops(gcKey[n], D)
    BY <2>2 DEF OnlyDrops
  <2>4. Unsteady(gcKey[n], D)
    BY <1>2
  <2> QED BY <2>1, <2>3, <2>4, DropKept
<1> QED BY <1>1, <1>2 DEF GCHDel

\* A reply adds the peers of its key to those counted.
LEMMA ReplyAdds ==
    ASSUME NEW s \in Seq(Nat), NEW v \in Nat
    PROVE  /\ Append(s, v) \in Seq(Nat) /\ Len(Append(s, v)) = Len(s) + 1
           /\ Replies(Append(s, v)) = IF Len(s) + 1 <= 4 THEN Replies(s) + v ELSE Replies(s)
<1> DEFINE q == Append(s, v)
<1>1. /\ q \in Seq(Nat) /\ Len(q) = Len(s) + 1 /\ Len(s) \in Nat
      /\ \A j \in 1 .. Len(s) : q[j] = s[j] /\ s[j] \in Nat
      /\ q[Len(s) + 1] = v
  BY SMTT(60)
<1>2. ASSUME NEW j \in {1, 2, 3, 4}
      PROVE  /\ Reply(s, j) \in Nat
             /\ Reply(q, j) = IF j = Len(s) + 1 THEN v ELSE Reply(s, j)
             /\ j = Len(s) + 1 => Reply(s, j) = 0
  <2> HIDE DEF q
  <2> QED BY SMTT(60), <1>1 DEF Reply
<1>3. Replies(q) = IF Len(s) + 1 <= 4 THEN Replies(s) + v ELSE Replies(s)
  <2> HIDE DEF q
  <2> DEFINE r1 == Reply(s, 1)
             r2 == Reply(s, 2)
             r3 == Reply(s, 3)
             r4 == Reply(s, 4)
             n == Len(s) + 1
  <2>1. /\ r1 \in Nat /\ r2 \in Nat /\ r3 \in Nat /\ r4 \in Nat
        /\ Replies(s) = r1 + r2 + r3 + r4 /\ n \in Nat \ {0}
        /\ n = 1 => r1 = 0
        /\ n = 2 => r2 = 0
        /\ n = 3 => r3 = 0
        /\ n = 4 => r4 = 0
    BY SMTT(60), <1>1, <1>2 DEF Replies
  <2>2. Replies(q) = (IF n = 1 THEN v ELSE r1) + (IF n = 2 THEN v ELSE r2)
                       + (IF n = 3 THEN v ELSE r3) + (IF n = 4 THEN v ELSE r4)
    BY SMTT(60), <1>2 DEF Replies
  <2> HIDE DEF r1, r2, r3, r4, n
  <2>3. Replies(q) = IF n <= 4 THEN Replies(s) + v ELSE Replies(s)
    BY SMTT(60), <2>1, <2>2
  <2> QED BY <2>3 DEF n
<1> QED BY <1>1, <1>3

LEMMA AheadReply ==
    ASSUME NEW h, NEW ih, NEW m \in Nat
    PROVE  AheadIn(h, m, ih) \subseteq
              AheadIn(h, m + 1, ih) \cup {p \in Peer : h[ScrapeKeys(ih)[m + 1]][p] # Absent}
<1>1. \A j \in m + 1 .. 4 : j = m + 1 \/ j \in (m + 1) + 1 .. 4
  BY SMTT(60)
<1> QED BY <1>1 DEF AheadIn

LEMMA ScrapeReply ==
    ASSUME CountingLaws, TypeOK, NEW t \in Thread,
           Scraped("scrape", call[t].ih, counts[t], steady[t], hash),
           NEW v \in Nat, NEW w, counts'[t] = Append(counts[t], v),
           Len(counts[t]) + 1 <= 4 =>
              v = Cardinality(Fields(ScrapeKeys(call[t].ih)[Len(counts[t]) + 1]))
    PROVE  Scraped(w, call[t].ih, counts'[t], steady[t], hash)
<1> DEFINE s == counts[t]
           ih == call[t].ih
           m == Len(counts[t])
           F == Fields(ScrapeKeys(ih)[m + 1])
           A == steady[t] \ AheadIn(hash, m, ih)
           B == steady[t] \ AheadIn(hash, m + 1, ih)
<1>1. s \in Seq(Nat) /\ m \in Nat /\ steady[t] \in SUBSET Peer
  BY SMTT(60) DEF TypeOK
<1>2. /\ Len(Append(s, v)) = m + 1
      /\ Replies(Append(s, v)) = IF m + 1 <= 4 THEN Replies(s) + v ELSE Replies(s)
  BY <1>1, ReplyAdds
<1>3. Replies(s) >= Cardinality(A)
  BY DEF Scraped
<1>4. /\ IsFiniteSet(A) /\ IsFiniteSet(B) /\ IsFiniteSet(F)
      /\ Cardinality(A) \in Nat /\ Cardinality(B) \in Nat /\ Cardinality(F) \in Nat
      /\ Replies(s) \in Nat
  <2>1. A \in SUBSET Peer /\ B \in SUBSET Peer
    BY <1>1
  <2>2. IsFiniteSet(A) /\ IsFiniteSet(B)
    BY <2>1, RedisAssumption, CountSubset
  <2> QED BY <1>1, <2>2, CountType, FieldsType, RepliesType
<1>5. Replies(Append(s, v)) >= Cardinality(B)
  <2>1. CASE m + 1 <= 4
    <3>1. B \subseteq A \cup F
      BY <1>1, AheadReply DEF Fields
    <3> HIDE DEF A, B, F, s, m, ih
    <3>2. Cardinality(B) <= Cardinality(A) + Cardinality(F)
      BY <1>4, <3>1, CountPlus
    <3>3. v = Cardinality(F)
      BY <2>1 DEF F, m, ih
    <3> QED BY SMTT(60), <1>2, <1>3, <1>4, <2>1, <3>2, <3>3
  <2>2. CASE ~(m + 1 <= 4)
    <3>1. m >= 4 /\ m + 1 \in Nat /\ m + 1 >= 4
      BY SMTT(60), <1>1, <2>2
    <3>2. A = B
      BY <1>1, <3>1, NoneAhead
    <3> QED BY <1>2, <1>3, <2>2, <3>2
  <2> QED BY <2>1, <2>2
<1> QED BY <1>2, <1>5 DEF Scraped

LEMMA ScrapingFrame ==
    ASSUME CountingLaws, TypeOK, Scraping, NEW T \in SUBSET Thread,
           \A u \in Thread \ T : /\ pc'[u] = pc[u] /\ call'[u] = call[u]
                                 /\ counts'[u] = counts[u] /\ Kept(u),
           \A t \in T : Scraped(pc'[t], call'[t].ih, counts'[t], steady'[t], hash')
    PROVE  Scraping'
<1>1. ASSUME NEW u \in Thread \ T
      PROVE  Scraped(pc'[u], call'[u].ih, counts'[u], steady'[u], hash')
  <2>1. Scraped(pc[u], call[u].ih, counts[u], steady[u], hash)
    BY ScrapedIff
  <2>2. call[u].ih \in InfoHash /\ counts[u] \in Seq(Nat) /\ steady[u] \in SUBSET Peer
    BY CallFields DEF TypeOK
  <2>3. steady'[u] \in SUBSET steady[u] /\ Stay(steady'[u], call[u].ih, hash, hash')
    BY <1>1 DEF Kept
  <2>4. Scraped(pc[u], call[u].ih, counts[u], steady'[u], hash')
    BY <2>1, <2>2, <2>3, ScrapedStay
  <2> QED BY <1>1, <2>4
<1> QED BY <1>1, ScrapedIffNext

LEMMA OutcomeMoves ==
    ASSUME TypeOK, NEW t \in Thread, NEW w, Success(t, w) \/ Error(t)
    PROVE  /\ pc'[t] \in {"idle", w}
           /\ \A u \in Thread : u # t => pc'[u] = pc[u] /\ call'[u] = call[u]
<1>1. \A v : pc' = [pc EXCEPT ![t] = v] =>
              pc'[t] = v /\ \A u \in Thread : u # t => pc'[u] = pc[u]
  BY DEF TypeOK
<1>2. CASE Return(t)
  BY <1>1, <1>2 DEF Return, TypeOK
<1>3. CASE ~Return(t)
  BY <1>1, <1>3 DEF Success, Error
<1> QED BY <1>2, <1>3

\* Steps of a thread that ask for no count.
LEMMA ScrapingOther ==
    ASSUME CountingLaws, TypeOK, Scraping, NEW t \in Thread, UNCHANGED counts,
           \A u \in Thread : Kept(u), NEW w \in {"idle", "decr"}, Success(t, w) \/ Error(t)
    PROVE  Scraping'
<1>1. /\ pc'[t] \in {"idle", "decr"}
      /\ \A u \in Thread : u # t => pc'[u] = pc[u] /\ call'[u] = call[u]
  BY OutcomeMoves
<1>2. /\ counts[t] \in Seq(Nat) /\ steady[t] \in SUBSET Peer /\ steady'[t] \in SUBSET steady[t]
      /\ Scraped(pc[t], call[t].ih, counts[t], steady[t], hash)
  BY ScrapedIff DEF TypeOK, Kept
<1>3. Scraped(pc'[t], call'[t].ih, counts'[t], steady'[t], hash')
  <2>1. Complete(counts[t], steady[t])
    BY <1>2, ScrapedComplete
  <2>2. Complete(counts'[t], steady'[t]) /\ counts'[t] \in Seq(Nat)
    BY <1>2, <2>1, CompleteLess
  <2>3. pc'[t] # "scrape"
    BY <1>1
  <2> QED BY <2>2, <2>3, CompleteScraped
<1>4. {t} \in SUBSET Thread
  OBVIOUS
<1> QED BY <1>1, <1>3, <1>4, ScrapingFrame

LEMMA ScrapingScrape ==
    ASSUME CountingLaws, TypeOK, Scraping, NEW t \in Thread, Scrape(t) PROVE Scraping'
<1> DEFINE i == Len(counts[t]) + 1
           ih == call[t].ih
           v == IF i <= 4 THEN Cardinality(Fields(ScrapeKeys(ih)[i])) ELSE downloads[ih]
<1>1. \A u \in Thread : Kept(u)
  BY KeptSame DEF Scrape
<1>2. Scraped("scrape", ih, counts[t], steady[t], hash) /\ pc[t] = "scrape"
  BY ScrapedIff DEF Scrape
<1>3. ih \in InfoHash /\ downloads[ih] \in Nat /\ v \in Nat
  <2>1. ih \in InfoHash
    BY CallFields DEF TypeOK
  <2>2. downloads[ih] \in Nat
    BY <2>1 DEF TypeOK
  <2> QED BY <2>1, <2>2, FieldsType
<1>4. CASE Error(t) /\ UNCHANGED counts
  BY <1>1, <1>4, ScrapingOther
<1>5. CASE /\ counts' = [counts EXCEPT ![t] = Append(counts[t], v)]
           /\ Success(t, IF i <= 4 THEN "scrape" ELSE "idle")
  <2>1. /\ counts'[t] = Append(counts[t], v) /\ UNCHANGED <<steady, hash>>
        /\ \A u \in Thread : u # t => counts'[u] = counts[u]
    BY <1>5 DEF Scrape, TypeOK
  <2>2. /\ pc'[t] \in {"idle", "scrape"}
        /\ \A u \in Thread : u # t => pc'[u] = pc[u] /\ call'[u] = call[u]
    BY <1>5, OutcomeMoves
  <2>3. i <= 4 => v = Cardinality(Fields(ScrapeKeys(ih)[i]))
    OBVIOUS
  <2>4. \A w : Scraped(w, ih, counts'[t], steady[t], hash)
    <3> HIDE DEF v
    <3> QED BY <1>2, <1>3, <2>1, <2>3, ScrapeReply
  <2>5. Scraped(pc'[t], call'[t].ih, counts'[t], steady'[t], hash')
    <3>1. CASE i <= 4
      <4>1. UNCHANGED call
        BY <1>5, <3>1 DEF Success
      <4> QED BY <2>1, <2>4, <4>1
    <3>2. CASE ~(i <= 4)
      <4>1. pc'[t] = "idle"
        BY <1>5, <3>2, OutcomeMoves
      <4>2. counts'[t] \in Seq(Nat)
        <5>1. counts[t] \in Seq(Nat)
          BY DEF TypeOK
        <5> HIDE DEF v
        <5> QED BY <1>3, <2>1, <5>1, ReplyAdds
      <4>3. Scraped("idle", call'[t].ih, counts'[t], steady[t], hash)
        <5>1. Complete(counts'[t], steady[t])
          BY <2>4, <4>2, ScrapedComplete
        <5> QED BY <4>2, <5>1, CompleteScraped
      <4> QED BY <2>1, <4>1, <4>3
    <3> QED BY <3>1, <3>2
  <2>6. {t} \in SUBSET Thread
    OBVIOUS
  <2> HIDE DEF v
  <2> QED BY <1>1, <2>1, <2>2, <2>5, <2>6, ScrapingFrame
<1> QED BY <1>4, <1>5 DEF Scrape

\* A scrape begins with all of the swarm ahead.
LEMMA SwarmAhead ==
    ASSUME NEW ih \in InfoHash PROVE Swarm(ih) \subseteq AheadIn(hash, 0, ih)
<1> SUFFICES ASSUME NEW p \in Peer, NEW key \in Key, key.ih = ih, hash[key][p] # Absent
             PROVE  \E j \in 0 + 1 .. 4 : hash[ScrapeKeys(ih)[j]][p] # Absent
  BY DEF Swarm, AheadIn, Fields
<1>1. /\ 1 \in 0 + 1 .. 4 /\ 2 \in 0 + 1 .. 4 /\ 3 \in 0 + 1 .. 4 /\ 4 \in 0 + 1 .. 4
  BY SMTT(60)
<1>2. key = InfoHashKey(ih, key.kind, key.v6) /\ key.kind \in Kind /\ key.v6 \in BOOLEAN
  BY SMTT(60) DEF Key, InfoHashKey
<1>3. \E j \in {1, 2, 3, 4} : key = ScrapeKeys(ih)[j]
  <2>1. \/ key = InfoHashKey(ih, "leechers", FALSE) \/ key = InfoHashKey(ih, "leechers", TRUE)
        \/ key = InfoHashKey(ih, "seeders", FALSE) \/ key = InfoHashKey(ih, "seeders", TRUE)
    BY <1>2 DEF Kind
  <2> QED BY <2>1, ScrapeKey
<1> QED BY <1>1, <1>3

LEMMA ScrapingBegin ==
    ASSUME CountingLaws, TypeOK, Scraping, NEW t \in Thread, NEW c \in Call, Begin(t, c)
    PROVE  Scraping'
<1>1. PICK w : pc' = [pc EXCEPT ![t] = w] /\ (w = "scrape" => c.op = "ScrapeSwarm")
  BY CallFields DEF Begin, CallType, WriteOps
<1>2. /\ pc'[t] = "scrape" => c.op = "ScrapeSwarm"
      /\ call'[t] = c /\ counts'[t] = <<>>
      /\ steady'[t] = IF c.op = "ScrapeSwarm" THEN Swarm(c.ih) ELSE {}
      /\ UNCHANGED hash
  <2>1. /\ call \in [Thread -> Call] /\ counts \in [Thread -> Seq(Nat)]
        /\ steady \in [Thread -> SUBSET Peer]
        /\ pc \in [Thread -> {"idle", "put", "graduate", "hdel", "decr", "scrape"}]
    BY DEF TypeOK
  <2>2. /\ call' = [call EXCEPT ![t] = c] /\ counts' = [counts EXCEPT ![t] = <<>>]
        /\ steady' = [steady EXCEPT ![t] = IF c.op = "ScrapeSwarm" THEN Swarm(c.ih) ELSE {}]
        /\ UNCHANGED hash
    BY DEF Begin
  <2> QED BY <1>1, <2>1, <2>2
<1>3. \A u \in Thread : u # t => /\ pc'[u] = pc[u] /\ call'[u] = call[u]
                                 /\ counts'[u] = counts[u] /\ steady'[u] = steady[u]
  <2>1. /\ pc \in [Thread -> {"idle", "put", "graduate", "hdel", "decr", "scrape"}]
        /\ call \in [Thread -> Call] /\ counts \in [Thread -> Seq(Nat)]
        /\ steady \in [Thread -> SUBSET Peer]
    BY DEF TypeOK
  <2>2. /\ call' = [call EXCEPT ![t] = c] /\ counts' = [counts EXCEPT ![t] = <<>>]
        /\ \E S : steady' = [steady EXCEPT ![t] = S]
    BY DEF Begin
  <2> QED BY <1>1, <2>1, <2>2
<1>4. \A u \in Thread : u # t => Kept(u)
  BY <1>2, <1>3 DEF Kept, Stay
<1>5. Scraped(pc'[t], call'[t].ih, counts'[t], steady'[t], hash')
  <2>1. Len(<<>>) = 0 /\ ~(Len(<<>>) >= 4) /\ Replies(<<>>) = 0 /\ 0 >= 0
    BY SMTT(60) DEF Replies, Reply
  <2>2. CASE pc'[t] = "scrape"
    <3>1. steady'[t] \ AheadIn(hash', 0, c.ih) = {}
      BY <1>2, <2>2, SwarmAhead, CallFields
    <3>2. Cardinality({}) = 0
      BY CountEmpty
    <3> QED BY <1>2, <2>1, <3>1, <3>2 DEF Scraped
  <2>3. CASE pc'[t] # "scrape"
    BY <1>2, <2>1, <2>3 DEF Scraped
  <2> QED BY <2>2, <2>3
<1>6. {t} \in SUBSET Thread
  OBVIOUS
<1> QED BY <1>3, <1>4, <1>5, <1>6, ScrapingFrame

LEMMA ScrapingStep ==
    ASSUME CountingLaws, TypeOK, Scraping, [Next]_vars PROVE Scraping'
<1>1. ASSUME UNCHANGED <<pc, call, counts>>, \A u \in Thread : Kept(u) PROVE Scraping'
  <2>1. {} \in SUBSET Thread
    OBVIOUS
  <2> QED BY <1>1, <2>1, ScrapingFrame
<1>2. ASSUME NEW t \in Thread, Put(t) PROVE Scraping'
  <2>1. \A u \in Thread : Kept(u)
    <3>1. \A m \in since[t] .. now : m \in Nat
      BY SMTT(60) DEF TypeOK
    <3>2. call[t] \in Call /\ UNCHANGED steady
      BY <1>2 DEF TypeOK, Put
    <3>3. CASE \E m \in since[t] .. now : PutBlock(call[t], m)
      BY <3>1, <3>2, <3>3, PutKept
    <3>4. CASE UNCHANGED redisVars
      BY <3>2, <3>4, KeptSame
    <3> QED BY <1>2, <3>3, <3>4 DEF Put
  <2> QED BY <1>2, <2>1, ScrapingOther DEF Put
<1>3. ASSUME NEW t \in Thread, Graduate(t) PROVE Scraping'
  <2>1. \A u \in Thread : Kept(u)
    <3>1. \A m \in since[t] .. now : m \in Nat
      BY SMTT(60) DEF TypeOK
    <3>2. call[t] \in Call /\ UNCHANGED steady
      BY <1>3 DEF TypeOK, Graduate
    <3>3. CASE \E m \in since[t] .. now : GraduateBlock(call[t], m)
      BY <3>1, <3>2, <3>3, GraduateKept
    <3>4. CASE UNCHANGED redisVars
      BY <3>2, <3>4, KeptSame
    <3> QED BY <1>3, <3>3, <3>4 DEF Graduate
  <2> QED BY <1>3, <2>1, ScrapingOther DEF Graduate
<1>4. ASSUME NEW t \in Thread, HDel(t) PROVE Scraping'
  <2>1. \A u \in Thread : Kept(u)
    BY <1>4, HDelKept
  <2>2. \E w \in {"idle", "decr"} : Success(t, w) \/ Error(t)
    BY <1>4 DEF HDel, AfterHDel
  <2> QED BY <1>4, <2>1, <2>2, ScrapingOther DEF HDel
<1>5. ASSUME NEW t \in Thread, Decr(t) \/ Die(t) PROVE Scraping'
  <2>1. UNCHANGED <<hash, steady, counts>> /\ (Success(t, "idle") \/ Error(t))
    BY <1>5 DEF Decr, Die
  <2>2. \A u \in Thread : Kept(u)
    BY <2>1, KeptSame
  <2> QED BY <2>1, <2>2, ScrapingOther
<1>6. ASSUME NEW n \in Instance, GCHDel(n) PROVE Scraping'
  <2>1. \A u \in Thread : Kept(u)
    BY <1>6, GCHDelKept
  <2> QED BY <1>1, <1>6, <2>1 DEF GCHDel
<1>7. ASSUME UNCHANGED <<pc, call, counts, hash, steady>> PROVE Scraping'
  <2>1. \A u \in Thread : Kept(u)
    BY <1>7, KeptSame
  <2> QED BY <1>1, <1>7, <2>1
<1>8. ASSUME NEW n \in Instance,
             GCFire(n) \/ GCMembers(n) \/ GCGetAll(n) \/ GCDone(n) \/ GCDecrBy(n) \/ GCHLen(n)
             \/ GCSRem(n) \/ GCDie(n) \/ Close(n) \/ GCExit(n)
      PROVE  Scraping'
  <2>1. UNCHANGED <<pc, call, counts, hash, steady>>
    BY <1>8 DEF GCFire, GCMembers, GCGetAll, GCDone, GCDecrBy, GCHLen, GCSRem, GCDie, Close,
                GCExit
  <2> QED BY <1>7, <2>1
<1>9. CASE Tick \/ UNCHANGED vars
  BY <1>7, <1>9 DEF Tick, vars
<1> QED BY <1>2, <1>3, <1>4, <1>5, <1>6, <1>8, <1>9, ScrapingScrape, ScrapingBegin
        DEF Next, ThreadStep, GCStep

LEMMA InitScraping == ASSUME Init PROVE Scraping
<1>1. ~(Len(<<>>) >= 4)
  BY SMTT(60)
<1> QED BY <1>1 DEF Init, Scraping

----------------------------------------------------------------------------
(* The laws of counting, from the library's theorems.                      *)

INSTANCE FiniteSetTheorems

LEMMA KeyFinite == IsFiniteSet(Key)
<1> DEFINE T == (InfoHash \X Kind) \X BOOLEAN
           f == [key \in Key |-> <<<<key.ih, key.kind>>, key.v6>>]
<1>1. IsFiniteSet({"seeders"}) /\ IsFiniteSet({TRUE})
  BY FS_Singleton
<1>2. IsFiniteSet({"seeders"} \cup {"leechers"}) /\ IsFiniteSet({TRUE} \cup {FALSE})
  BY <1>1, FS_AddElement
<1>3. Kind = {"seeders"} \cup {"leechers"} /\ BOOLEAN = {TRUE} \cup {FALSE}
  BY DEF Kind
<1>4. IsFiniteSet(T)
  BY <1>2, <1>3, FS_Product, RedisAssumption
<1>5. f \in [Key -> T]
  BY DEF Key
<1>6. ASSUME NEW x \in Key, NEW y \in Key, f[x] = f[y] PROVE x = y
  <2>1. x.ih = y.ih /\ x.kind = y.kind /\ x.v6 = y.v6
    BY <1>6
  <2> QED BY SMTT(60), <2>1 DEF Key
<1>7. f \in Injection(Key, T)
  <2> HIDE DEF f
  <2> QED BY <1>5, <1>6 DEF Injection, IsInjective
<1> QED BY <1>4, <1>7, FS_Injection

LEMMA MinusLaw ==
    ASSUME NEW S, NEW T, NEW X, IsFiniteSet(S), X \subseteq S, T \subseteq S \ X
    PROVE  Cardinality(T) <= Cardinality(S) - Cardinality(X)
<1>1. S \cap X = X
  OBVIOUS
<1>2. IsFiniteSet(S \ X) /\ Cardinality(S \ X) = Cardinality(S) - Cardinality(X)
  BY <1>1, FS_Difference
<1> QED BY <1>2, FS_Subset

LEMMA PlusLaw ==
    ASSUME NEW S, NEW T, NEW X, IsFiniteSet(S), IsFiniteSet(X), T \subseteq S \cup X
    PROVE  Cardinality(T) <= Cardinality(S) + Cardinality(X)
<1>1. IsFiniteSet(S \cap X) /\ Cardinality(S \cap X) \in Nat
  BY FS_Subset, FS_CardinalityType
<1>2. /\ IsFiniteSet(S \cup X)
      /\ Cardinality(S \cup X) = Cardinality(S) + Cardinality(X) - Cardinality(S \cap X)
  BY FS_Union
<1>3. Cardinality(T) <= Cardinality(S \cup X) /\ Cardinality(T) \in Nat
  BY <1>2, FS_Subset, FS_CardinalityType
<1> QED BY SMTT(60), <1>1, <1>2, <1>3, FS_CardinalityType

LEMMA RowLaw ==
    ASSUME NEW x, NEW S, IsFiniteSet(S)
    PROVE  IsFiniteSet({x} \X S) /\ Cardinality({x} \X S) = Cardinality(S)
<1>1. IsFiniteSet({x}) /\ Cardinality({x}) = 1
  BY FS_Singleton
<1> QED BY SMTT(60), <1>1, FS_Product, FS_CardinalityType

LEMMA Counting == CountingLaws
<1>1. IsFiniteSet(Key \X Peer) /\ IsFiniteSet(Instance \X Peer)
  BY KeyFinite, RedisAssumption, FS_Product
<1>2. IsFiniteSet({}) /\ Cardinality({}) = 0
  BY FS_EmptySet
<1>3. \A x : IsFiniteSet({x}) /\ Cardinality({x}) = 1
  BY FS_Singleton
<1>4. \A S : IsFiniteSet(S) => Cardinality(S) \in Nat
  BY FS_CardinalityType
<1>5. \A S, T : IsFiniteSet(S) /\ T \subseteq S =>
                  IsFiniteSet(T) /\ Cardinality(T) <= Cardinality(S)
  BY FS_Subset
<1> QED BY <1>1, <1>2, <1>3, <1>4, <1>5, MinusLaw, PlusLaw, RowLaw DEF CountingLaws

----------------------------------------------------------------------------
(* The theorems.                                                           *)

\* The variables have their types, whatever the calls, failures and stops.
THEOREM TypeCorrect == Spec => []TypeOK
<1>1. Init => TypeOK
  BY Counting, InitType
<1>2. TypeOK /\ [Next]_vars => TypeOK'
  BY Counting, TypeStep
<1> QED BY <1>1, <1>2, PTL DEF Spec

\* For any number of instances, goroutines and failures, a key with peers is
\* on the list gc goes through (CHI_I), unless it was written to between a
\* collector's HLEN and its SREM.
THEOREM KeysListed == Spec => []PeersListed
<1>1. Init => TypeOK /\ PeersListed /\ Overtaken
  BY Counting, InitType, InitListed
<1>2. TypeOK /\ PeersListed /\ Overtaken /\ [Next]_vars => (TypeOK /\ PeersListed /\ Overtaken)'
  BY Counting, TypeStep, ListedStep
<1> QED BY <1>1, <1>2, PTL DEF Spec

\* For any number of instances, goroutines and failures, the counters of
\* seeders and leechers cover the peers stored and the deletions still to be
\* counted: putPeer, delPeer, GraduateLeecher and gc never take off more than
\* was removed.
THEOREM CountersCovered == Spec => []CountersCover
<1>1. Init => IInv
  BY SMTT(60), Counting, InitType, InitListed, InitCover DEF IInv
<1>2. IInv /\ [Next]_vars => IInv'
  <2> SUFFICES ASSUME IInv, [Next]_vars PROVE IInv'
    OBVIOUS
  <2>1. TypeOK' /\ PeersListed' /\ Overtaken' /\ Uncounted'
    BY Counting, TypeStep, ListedStep, UncountedStep DEF IInv
  <2>2. CountersCover'
    BY <2>1, Counting, CoverStep DEF IInv
  <2> QED BY <2>1, <2>2 DEF IInv
<1>3. IInv => CountersCover
  BY DEF IInv
<1> QED BY <1>1, <1>2, <1>3, PTL DEF Spec

LEMMA ScrapeInvariant == Spec => []ScrapeInv
<1>1. Init => Scraping
  BY InitScraping
<1>2. TypeOK /\ Scraping /\ [Next]_vars => Scraping'
  BY Counting, ScrapingStep
<1>3. TypeOK /\ Scraping => ScrapeInv
  BY DEF ScrapeInv
<1> QED BY <1>1, <1>2, <1>3, TypeCorrect, PTL DEF Spec

\* The four HLENs of ScrapeIH, which are no transaction, together count every
\* peer that stays in the swarm meanwhile, for any number of peers, goroutines
\* and collectors that put, graduate and delete peers between them.
THEOREM ScrapesCount == Spec => []ScrapeCounts
<1>1. ASSUME ScrapeInv, NEW t \in Thread, Len(counts[t]) >= 4
      PROVE  counts[t][1] + counts[t][2] + counts[t][3] + counts[t][4]
                >= Cardinality(steady[t])
  <2>1. counts[t] \in Seq(Nat)
    BY <1>1 DEF ScrapeInv, TypeOK
  <2>2. Len(counts[t]) \in Nat
    BY SMTT(60), <2>1
  <2>3. AheadIn(hash, Len(counts[t]), call[t].ih) = {}
    BY <1>1, <2>2, NoneAhead
  <2>4. Replies(counts[t]) >= Cardinality(steady[t])
    <3>1. Replies(counts[t]) >= Cardinality(steady[t] \ {})
      BY <1>1, <2>3, ScrapedIff DEF ScrapeInv, Scraped
    <3>2. steady[t] \ {} = steady[t]
      OBVIOUS
    <3> QED BY <3>1, <3>2
  <2>5. Replies(counts[t]) = counts[t][1] + counts[t][2] + counts[t][3] + counts[t][4]
    BY SMTT(60), <1>1, <2>2 DEF Replies, Reply
  <2> QED BY <2>4, <2>5
<1>2. ScrapeInv => ScrapeCounts
  BY <1>1 DEF ScrapeCounts
<1> QED BY <1>2, ScrapeInvariant, PTL
====
