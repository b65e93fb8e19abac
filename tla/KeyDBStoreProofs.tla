-------------------------- MODULE KeyDBStoreProofs --------------------------
(***************************************************************************)
(* Theorems about KeyDBStore, for any number of goroutines, info hashes    *)
(* and peers, and whatever commands fail, goroutines die and members       *)
(* expire.                                                                 *)
(***************************************************************************)
EXTENDS KeyDBStore, TLAPS

USE ZenonT(60) DEF serverVars, threadVars

PCs == {"idle", "sadd", "expire", "srem", "smove", "gradAdd", "gradExpire",
        "count", "srandmember"}
Results == {"none", "ok", "err", "notExist"}
Cell == Absent .. NoEnd
Pairs == Key \X Peer

\* The steps of the calls that write.
Write(t) ==
    Add(t) \/ SetExpiry(t) \/ Remove(t) \/ Move(t) \/ GradAdd(t) \/ GradExpire(t) \/ Count(t)

\* Where a step of Next comes from.
LEMMA NextCases ==
    ASSUME NEW P, [Next]_vars,
           Tick => P, Close => P, UNCHANGED vars => P,
           \A key \in Key, p \in Peer : Expire(key, p) => P,
           \A t \in Thread : Write(t) => P,
           \A t \in Thread : RandMember(t) => P,
           \A t \in Thread : Die(t) => P,
           \A t \in Thread, c \in Call : Begin(t, c) => P
    PROVE  P
BY DEF Next, ThreadStep, Write

----------------------------------------------------------------------------
(* Calls and keys.                                                         *)

LEMMA CallFields ==
    ASSUME NEW c \in Call
    PROVE  /\ c.op \in WriteOps \cup {"AnnouncePeers"} /\ c.ih \in InfoHash
           /\ c.op \in WriteOps => c.p \in Peer
           /\ c.op = "AnnouncePeers" => /\ c.forSeeder \in BOOLEAN /\ c.v6 \in BOOLEAN
                                        /\ c.numWant \in Nat
<1>1. c \in CallType
  BY KeyDBAssumption
<1>2. CASE c \in [op : WriteOps, ih : InfoHash, p : Peer]
  BY <1>2 DEF WriteOps
<1>3. CASE c \in [op : {"AnnouncePeers"}, ih : InfoHash, forSeeder : BOOLEAN,
                  numWant : Nat, v6 : BOOLEAN]
  BY <1>3 DEF WriteOps
<1> QED BY <1>1, <1>2, <1>3 DEF CallType

LEMMA NoCallType == NoCall \in Call
BY KeyDBAssumption DEF NoCall

\* The first command of a call.
First(c) ==
    CASE c.op \in {"PutSeeder", "PutLeecher"} -> "sadd"
      [] c.op \in {"DeleteSeeder", "DeleteLeecher"} -> "srem"
      [] c.op = "GraduateLeecher" -> "smove"
      [] c.op = "AnnouncePeers" -> "srandmember"

\* What Stages says of a thread at w with call c.
Stage(w, c) ==
    /\ w \in {"sadd", "expire"} => c.op \in {"PutSeeder", "PutLeecher"}
    /\ w = "srem" => c.op \in {"DeleteSeeder", "DeleteLeecher"}
    /\ w \in {"smove", "gradAdd", "gradExpire", "count"} => c.op = "GraduateLeecher"
    /\ w = "srandmember" => c.op = "AnnouncePeers"

LEMMA StagesIff == Stages <=> \A t \in Thread : Stage(pc[t], call[t])
BY DEF Stages, Stage

LEMMA Firsts ==
    ASSUME NEW c \in Call
    PROVE  /\ First(c) \in PCs \ {"idle"} /\ Stage(First(c), c)
           /\ First(c) = "srandmember" <=> c.op = "AnnouncePeers"
BY CallFields DEF First, WriteOps, PCs, Stage

LEMMA KeyNames ==
    ASSUME NEW ih \in InfoHash, NEW v6 \in BOOLEAN
    PROVE  /\ InfoHashKey(ih, "seeders", v6) \in Key /\ InfoHashKey(ih, "leechers", v6) \in Key
           /\ InfoHashKey(ih, "seeders", v6) # InfoHashKey(ih, "leechers", v6)
BY SMTT(60) DEF InfoHashKey, Key, Kind

LEMMA CallKeys ==
    ASSUME NEW c \in Call, c.op \in WriteOps
    PROVE  /\ keyOf(c, "seeders") \in Key /\ keyOf(c, "leechers") \in Key
           /\ keyOf(c, "seeders") # keyOf(c, "leechers")
           /\ keyOf(c, kindOf(c.op)) \in Key /\ c.p \in Peer
<1>1. c.ih \in InfoHash /\ c.p \in Peer /\ Is6[c.p] \in BOOLEAN
  BY CallFields, KeyDBAssumption
<1> QED BY <1>1, KeyNames DEF keyOf, kindOf

LEMMA AskedKeys ==
    ASSUME NEW ih \in InfoHash, NEW forSeeder \in BOOLEAN, NEW v6 \in BOOLEAN
    PROVE  /\ PeerKeys(ih, forSeeder, v6) \in Seq(Key)
           /\ Len(PeerKeys(ih, forSeeder, v6)) <= 2
<1>1. InfoHashKey(ih, "seeders", v6) \in Key /\ InfoHashKey(ih, "leechers", v6) \in Key
  BY KeyNames
<1> QED BY SMTT(60), <1>1 DEF PeerKeys

----------------------------------------------------------------------------
(* The sets.                                                               *)

\* The times a member may have left.
LEMMA TTLType == peerTTL \in Nat
<1>1. \A n \in Nat, d \in Nat \ {0} : n \div d \in Nat
  BY SMTT(60)
<1>2. (IF PeerLifetime <= 0 THEN DefaultPeerLifetime ELSE PeerLifetime) \in Nat
  BY SMTT(60), KeyDBAssumption
<1> QED BY <1>1, <1>2, KeyDBAssumption DEF peerTTL

LEMMA Cells ==
    /\ Absent \in Cell /\ NoEnd \in Cell /\ peerTTL \in Cell
    /\ NoEnd # Absent /\ peerTTL # Absent /\ peerTTL # NoEnd
    /\ \A n \in 1 .. peerTTL : n - 1 \in Cell /\ n - 1 # Absent /\ n - 1 # NoEnd
BY SMTT(60), TTLType DEF Cell, Absent, NoEnd

\* The sets g and f differ in the member p of the key at most.
Same(g, f, key, p) ==
    \A k \in Key, q \in Peer : <<k, q>> # <<key, p>> => g[k][q] = f[k][q]

\* The set g is f with v written there.
Written(g, f, key, p, v) == g = [f EXCEPT ![key][p] = v]

LEMMA WithCell ==
    ASSUME NEW f \in [Key -> [Peer -> Cell]], NEW key \in Key, NEW p \in Peer, NEW v \in Cell,
           NEW g, Written(g, f, key, p, v)
    PROVE  g \in [Key -> [Peer -> Cell]] /\ g[key][p] = v /\ Same(g, f, key, p)
<1>1. g \in [Key -> [Peer -> Cell]]
  BY DEF Written
<1>2. g[key][p] = v
  BY DEF Written
<1>3. ASSUME NEW k \in Key, NEW q \in Peer, <<k, q>> # <<key, p>> PROVE g[k][q] = f[k][q]
  <2>1. k # key \/ q # p
    BY <1>3
  <2> QED BY <2>1 DEF Written
<1> QED BY <1>1, <1>2, <1>3 DEF Same

SetType == set \in [Key -> [Peer -> Cell]]

LEMMA SetCell ==
    ASSUME SetType, NEW key \in Key, NEW p \in Peer, NEW v \in Cell,
           Written(set', set, key, p, v)
    PROVE  SetType' /\ set'[key][p] = v /\ Same(set', set, key, p)
<1>1. set \in [Key -> [Peer -> Cell]]
  BY DEF SetType
<1>2. set' \in [Key -> [Peer -> Cell]] /\ set'[key][p] = v /\ Same(set', set, key, p)
  BY <1>1, WithCell
<1> QED BY <1>2 DEF SetType

\* What the commands of the writes do to the members.
LEMMA SAddCell ==
    ASSUME SetType, NEW key \in Key, NEW p \in Peer, SAdd(key, p)
    PROVE  SetType' /\ Same(set', set, key, p) /\ set'[key][p] # Absent
<1> DEFINE v == IF set[key][p] = Absent THEN NoEnd ELSE set[key][p]
<1>1. v \in Cell /\ v # Absent
  BY Cells DEF SetType
<1>2. Written(set', set, key, p, v)
  BY DEF SAdd, SetType, Written
<1> HIDE DEF v
<1>3. v \in Cell
  BY <1>1
<1>4. SetType' /\ set'[key][p] = v /\ Same(set', set, key, p)
  BY <1>2, <1>3, SetCell
<1> QED BY <1>1, <1>4

LEMMA ExpireMemberCell ==
    ASSUME SetType, NEW key \in Key, NEW p \in Peer, ExpireMember(key, p)
    PROVE  /\ SetType' /\ Same(set', set, key, p) /\ set'[key][p] # NoEnd
           /\ set[key][p] # Absent => set'[key][p] # Absent
<1> DEFINE v == IF set[key][p] = Absent THEN Absent ELSE peerTTL
<1>1. v \in Cell /\ v # NoEnd /\ (set[key][p] # Absent => v # Absent)
  BY Cells DEF SetType
<1>2. Written(set', set, key, p, v)
  BY DEF ExpireMember, SetType, Written
<1> HIDE DEF v
<1>3. v \in Cell
  BY <1>1
<1>4. SetType' /\ set'[key][p] = v /\ Same(set', set, key, p)
  BY <1>2, <1>3, SetCell
<1> QED BY <1>1, <1>4

LEMMA RemovalCell ==
    ASSUME SetType, NEW key \in Key, NEW p \in Peer, set' = [set EXCEPT ![key][p] = Absent]
    PROVE  SetType' /\ Same(set', set, key, p) /\ set'[key][p] # NoEnd
<1>1. Absent \in Cell /\ Absent # NoEnd /\ Written(set', set, key, p, Absent)
  BY Cells DEF Written
<1> QED BY <1>1, SetCell

Moving(from, to, p) ==
    \A k \in Key, q \in Peer :
        (<<k, q>> # <<from, p>> /\ <<k, q>> # <<to, p>>) => set'[k][q] = set[k][q]

\* SMOVE touches a member of two keys.
Apart(from, to, p) ==
    \A k \in Key, q \in Peer :
        (<<k, q>> # <<from, p>> /\ <<k, q>> # <<to, p>>) => set'[k][q] = set[k][q]

LEMMA SMoveCells ==
    ASSUME SetType, NEW from \in Key, NEW to \in Key, from # to, NEW p \in Peer,
           set[from][p] # Absent, SMove(from, to, p)
    PROVE  /\ SetType' /\ set'[from][p] = Absent /\ set'[to][p] # Absent
           /\ Moving(from, to, p)
<1>1. PICK left \in {set[from][p], NoEnd} :
         set' = [set EXCEPT ![from][p] = Absent, ![to][p] = IF @ = Absent THEN left ELSE @]
  BY DEF SMove
<1> DEFINE mid == [set EXCEPT ![from][p] = Absent]
           v == IF mid[to][p] = Absent THEN left ELSE mid[to][p]
<1>2. set \in [Key -> [Peer -> Cell]]
  BY DEF SetType
<1>3. left \in Cell /\ left # Absent
  <2>1. set[from][p] \in Cell /\ NoEnd \in Cell /\ NoEnd # Absent
    BY <1>2, Cells
  <2>2. left = set[from][p] \/ left = NoEnd
    OBVIOUS
  <2> QED BY <2>1, <2>2
<1>4. mid \in [Key -> [Peer -> Cell]] /\ mid[from][p] = Absent /\ Same(mid, set, from, p)
  <2>1. Absent \in Cell /\ Written(mid, set, from, p, Absent)
    BY Cells DEF Written
  <2> HIDE DEF mid
  <2> QED BY <1>2, <2>1, WithCell
<1>5. Written(set', mid, to, p, v)
  BY <1>1, <1>2 DEF Written
<1> HIDE DEF mid
<1>6. v \in Cell /\ v # Absent
  BY <1>3, <1>4
<1> HIDE DEF v
<1>7. set' \in [Key -> [Peer -> Cell]] /\ set'[to][p] = v /\ Same(set', mid, to, p)
  <2>1. mid \in [Key -> [Peer -> Cell]] /\ v \in Cell
    BY <1>4, <1>6
  <2> QED BY <1>5, <2>1, WithCell
<1>8. set'[from][p] = Absent
  <2>1. <<from, p>> # <<to, p>>
    OBVIOUS
  <2> QED BY <1>4, <1>7, <2>1 DEF Same
<1>9. ASSUME NEW k \in Key, NEW q \in Peer, <<k, q>> # <<from, p>>, <<k, q>> # <<to, p>>
      PROVE  set'[k][q] = set[k][q]
  <2>1. set'[k][q] = mid[k][q]
    BY <1>7, <1>9 DEF Same
  <2>2. mid[k][q] = set[k][q]
    BY <1>4, <1>9 DEF Same
  <2> QED BY <2>1, <2>2
<1> QED BY <1>6, <1>7, <1>8, <1>9 DEF SetType, Moving

\* The members outside D are still there after the step.
Keeps(D) == \A k \in Key, q \in Peer :
                (set[k][q] # Absent /\ <<k, q>> \notin D) => set'[k][q] # Absent

LEMMA SameKeeps ==
    ASSUME NEW key, NEW p, Same(set', set, key, p)
    PROVE  /\ Keeps({<<key, p>>})
           /\ (set[key][p] # Absent => set'[key][p] # Absent) => Keeps({})
<1>1. Keeps({<<key, p>>})
  BY DEF Same, Keeps
<1>2. ASSUME set[key][p] # Absent => set'[key][p] # Absent,
             NEW k \in Key, NEW q \in Peer, set[k][q] # Absent
      PROVE  set'[k][q] # Absent
  <2>1. CASE <<k, q>> # <<key, p>>
    BY <1>2, <2>1 DEF Same
  <2>2. CASE k = key /\ q = p
    BY <1>2, <2>2
  <2> QED BY <2>1, <2>2
<1> QED BY <1>1, <1>2 DEF Keeps

LEMMA SMoveKeeps ==
    ASSUME SetType, NEW from \in Key, NEW to \in Key, from # to, NEW p \in Peer,
           set[from][p] # Absent, SMove(from, to, p)
    PROVE  SetType' /\ Keeps({<<from, p>>})
<1>1. SetType' /\ set'[to][p] # Absent /\ Moving(from, to, p)
  BY SMoveCells
<1>2. ASSUME NEW k \in Key, NEW q \in Peer, set[k][q] # Absent, <<k, q>> # <<from, p>>
      PROVE  set'[k][q] # Absent
  <2>1. CASE <<k, q>> # <<to, p>>
    BY <1>1, <1>2, <2>1 DEF Moving
  <2>2. CASE k = to /\ q = p
    BY <1>1, <2>2
  <2> QED BY <2>1, <2>2
<1> QED BY <1>1, <1>2 DEF Keeps

LEMMA TickKeeps == ASSUME SetType, Tick PROVE SetType' /\ Keeps({})
<1>1. set' = [key \in Key |-> [p \in Peer |->
         IF set[key][p] \in 1 .. peerTTL THEN set[key][p] - 1 ELSE set[key][p]]]
  BY DEF Tick
<1> DEFINE after(n) == IF n \in 1 .. peerTTL THEN n - 1 ELSE n
<1>2. \A n \in Cell : after(n) \in Cell /\ (n # Absent => after(n) # Absent)
  BY Cells
<1>3. set' = [key \in Key |-> [p \in Peer |-> after(set[key][p])]]
  BY <1>1
<1> HIDE DEF after
<1> QED BY <1>2, <1>3 DEF SetType, Keeps

----------------------------------------------------------------------------
(* What a step does to the server and to the history.                      *)

ServerType ==
    /\ SetType /\ downloads \in [InfoHash -> Nat]
    /\ stayed \in [Thread -> SUBSET Pairs] /\ leaked \in SUBSET Pairs

\* Who has stayed is there still, and nobody joins them.
ServerMoves ==
    /\ ServerType' /\ Staying'
    /\ \A u \in Thread : stayed'[u] \subseteq stayed[u]

LEMMA Moved ==
    ASSUME ServerType, Staying, SetType', downloads' \in [InfoHash -> Nat],
           leaked' \in SUBSET Pairs, NEW D, Keeps(D), stayed' \in [Thread -> SUBSET Pairs],
           \A u \in Thread : stayed'[u] \subseteq stayed[u] /\ stayed'[u] \cap D = {}
    PROVE  ServerMoves
<1>1. ASSUME NEW u \in Thread, NEW x \in stayed'[u] PROVE set'[x[1]][x[2]] # Absent
  <2>1. x \in Pairs /\ x \in stayed[u] /\ x \notin D
    BY DEF ServerType
  <2>2. x[1] \in Key /\ x[2] \in Peer /\ x = <<x[1], x[2]>>
    BY SMTT(60), <2>1 DEF Pairs
  <2>3. set[x[1]][x[2]] # Absent
    BY <2>1 DEF Staying
  <2>4. <<x[1], x[2]>> \notin D
    BY <2>1, <2>2
  <2> HIDE <1>1
  <2> QED BY <2>2, <2>3, <2>4 DEF Keeps
<1> QED BY <1>1 DEF ServerMoves, ServerType, Staying

\* Nobody leaves.
LEMMA MovedAll ==
    ASSUME ServerType, Staying, SetType', downloads' \in [InfoHash -> Nat],
           leaked' \in SUBSET Pairs, Keeps({}), UNCHANGED stayed
    PROVE  ServerMoves
<1>1. stayed' \in [Thread -> SUBSET Pairs]
      /\ \A u \in Thread : stayed'[u] \subseteq stayed[u] /\ stayed'[u] \cap {} = {}
  BY DEF ServerType
<1> QED BY <1>1, Moved

\* A member leaves.
LEMMA MovedOne ==
    ASSUME ServerType, Staying, SetType', downloads' \in [InfoHash -> Nat],
           leaked' \in SUBSET Pairs, NEW key, NEW p, Keeps({<<key, p>>}),
           stayed' = [u \in Thread |-> stayed[u] \ {<<key, p>>}]
    PROVE  ServerMoves
<1>1. stayed' \in [Thread -> SUBSET Pairs]
      /\ \A u \in Thread : /\ stayed'[u] \subseteq stayed[u]
                           /\ stayed'[u] \cap {<<key, p>>} = {}
  BY DEF ServerType
<1> QED BY <1>1, Moved

LEMMA StillServer ==
    ASSUME ServerType, Staying, UNCHANGED <<set, stayed>>,
           downloads' \in [InfoHash -> Nat], leaked' \in SUBSET Pairs
    PROVE  ServerMoves
<1>1. SetType' /\ Keeps({})
  BY DEF ServerType, SetType, Keeps
<1> QED BY <1>1, MovedAll

LEMMA LeakType ==
    ASSUME ServerType, NEW key \in Key, NEW p \in Peer, Leak(key, p)
    PROVE  leaked' \in SUBSET Pairs
<1>1. <<key, p>> \in Pairs
  BY DEF Pairs
<1>2. leaked' = leaked \cup {<<key, p>>} \/ leaked' = leaked
  BY DEF Leak
<1>3. leaked \in SUBSET Pairs
  BY DEF ServerType
<1> QED BY <1>1, <1>2, <1>3

LEMMA GoneOne ==
    ASSUME ServerType, NEW key, NEW p, Gone(key, {p})
    PROVE  /\ stayed' = [u \in Thread |-> stayed[u] \ {<<key, p>>}]
           /\ leaked' \in SUBSET Pairs
<1>1. {key} \X {p} = {<<key, p>>}
  BY SMTT(60)
<1> QED BY <1>1 DEF Gone, ServerType

LEMMA TickServer == ASSUME ServerType, Staying, Tick PROVE ServerMoves
BY TickKeeps, MovedAll DEF Tick, ServerType

LEMMA ExpireServer ==
    ASSUME ServerType, Staying, NEW key \in Key, NEW p \in Peer, Expire(key, p)
    PROVE  ServerMoves
<1>1. SetType' /\ Keeps({<<key, p>>})
  BY RemovalCell, SameKeeps DEF Expire, ServerType
<1>2. /\ stayed' = [u \in Thread |-> stayed[u] \ {<<key, p>>}] /\ leaked' \in SUBSET Pairs
  BY GoneOne DEF Expire
<1>3. downloads' \in [InfoHash -> Nat]
  BY DEF Expire, ServerType
<1> QED BY <1>1, <1>2, <1>3, MovedOne

LEMMA WriteCall ==
    ASSUME TypeOK, Stages, NEW t \in Thread, Write(t)
    PROVE  /\ pc[t] \notin {"idle", "srandmember"}
           /\ call[t] \in Call /\ call[t].op \in WriteOps
<1>1. pc[t] \in {"sadd", "expire", "srem", "smove", "gradAdd", "gradExpire", "count"}
  BY DEF Write, Add, SetExpiry, Remove, Move, GradAdd, GradExpire, Count
<1>2. call[t].op \in WriteOps
  BY <1>1 DEF Stages, WriteOps
<1> QED BY <1>1, <1>2 DEF TypeOK

LEMMA PutServer ==
    ASSUME TypeOK, Stages, ServerType, Staying, NEW t \in Thread,
           Add(t) \/ SetExpiry(t) \/ GradAdd(t) \/ GradExpire(t)
    PROVE  ServerMoves
<1> DEFINE c == call[t]
<1>1. PICK key \in Key : /\ SAdd(key, c.p) \/ ExpireMember(key, c.p) \/ UNCHANGED set
                         /\ \/ Leak(key, c.p) \/ leaked' = leaked \ {<<key, c.p>>}
                            \/ UNCHANGED leaked
  <2>1. keyOf(c, kindOf(c.op)) \in Key /\ keyOf(c, "seeders") \in Key
    BY WriteCall, CallKeys DEF Write
  <2> QED BY <2>1 DEF Add, SetExpiry, GradAdd, GradExpire
<1>2. c.p \in Peer
  BY WriteCall, CallKeys DEF Write
<1>3. SetType' /\ Keeps({})
  <2>1. SetType
    BY DEF ServerType
  <2>2. UNCHANGED set => SetType' /\ Keeps({})
    BY <2>1 DEF SetType, Keeps
  <2> HIDE DEF c
  <2> QED BY <1>1, <1>2, <2>1, <2>2, SAddCell, ExpireMemberCell, SameKeeps
<1>4. leaked' \in SUBSET Pairs
  <2>1. leaked \in SUBSET Pairs
    BY DEF ServerType
  <2> HIDE DEF c
  <2> QED BY <1>1, <1>2, <2>1, LeakType
<1>5. UNCHANGED <<stayed, downloads>>
  BY DEF Add, SetExpiry, GradAdd, GradExpire
<1>6. downloads' \in [InfoHash -> Nat]
  BY <1>5 DEF ServerType
<1> QED BY <1>3, <1>4, <1>5, <1>6, MovedAll

LEMMA RemoveServer ==
    ASSUME TypeOK, Stages, ServerType, Staying, NEW t \in Thread, Remove(t)
    PROVE  ServerMoves
<1> DEFINE c == call[t]
           key == keyOf(c, kindOf(c.op))
<1>1. key \in Key /\ c.p \in Peer
  BY WriteCall, CallKeys DEF Write
<1>2. /\ UNCHANGED downloads
      /\ \/ set' = [set EXCEPT ![key][c.p] = Absent] /\ Gone(key, {c.p})
         \/ UNCHANGED <<set, stayed, leaked>>
  BY DEF Remove
<1> HIDE DEF key, c
<1>3. downloads' \in [InfoHash -> Nat] /\ SetType /\ leaked \in SUBSET Pairs
  BY <1>2 DEF ServerType
<1>4. CASE UNCHANGED <<set, stayed, leaked>>
  BY <1>3, <1>4, StillServer
<1>5. CASE set' = [set EXCEPT ![key][c.p] = Absent] /\ Gone(key, {c.p})
  <2>1. SetType' /\ Keeps({<<key, c.p>>})
    BY <1>1, <1>3, <1>5, RemovalCell, SameKeeps
  <2>2. /\ stayed' = [u \in Thread |-> stayed[u] \ {<<key, c.p>>}]
        /\ leaked' \in SUBSET Pairs
    BY <1>5, GoneOne
  <2> QED BY <1>3, <2>1, <2>2, MovedOne
<1> QED BY <1>2, <1>4, <1>5

LEMMA MoveServer ==
    ASSUME TypeOK, Stages, ServerType, Staying, NEW t \in Thread, Move(t)
    PROVE  ServerMoves
<1> DEFINE c == call[t]
           from == keyOf(c, "leechers")
           to == keyOf(c, "seeders")
<1>1. from \in Key /\ to \in Key /\ from # to /\ c.p \in Peer
  BY WriteCall, CallKeys DEF Write
<1>2. /\ UNCHANGED downloads
      /\ \/ /\ \/ set[from][c.p] # Absent /\ SMove(from, to, c.p)
               \/ set[from][c.p] = Absent /\ UNCHANGED set
            /\ stayed' = [u \in Thread |-> stayed[u] \ {<<from, c.p>>}]
            /\ leaked' \subseteq leaked \cup {<<to, c.p>>}
         \/ UNCHANGED <<set, stayed, leaked>>
  BY <1>1 DEF Move, Members
<1> HIDE DEF from, to, c
<1>3. /\ downloads' \in [InfoHash -> Nat] /\ SetType /\ leaked \in SUBSET Pairs
      /\ <<to, c.p>> \in Pairs
  BY <1>1, <1>2 DEF ServerType, Pairs
<1>4. CASE UNCHANGED <<set, stayed, leaked>>
  BY <1>3, <1>4, StillServer
<1>5. CASE /\ \/ set[from][c.p] # Absent /\ SMove(from, to, c.p)
              \/ set[from][c.p] = Absent /\ UNCHANGED set
           /\ stayed' = [u \in Thread |-> stayed[u] \ {<<from, c.p>>}]
           /\ leaked' \subseteq leaked \cup {<<to, c.p>>}
  <2>1. SetType' /\ Keeps({<<from, c.p>>})
    <3>1. UNCHANGED set => SetType' /\ Keeps({<<from, c.p>>})
      BY <1>3 DEF SetType, Keeps
    <3> QED BY <1>1, <1>3, <1>5, <3>1, SMoveKeeps
  <2>2. leaked' \in SUBSET Pairs
    BY <1>3, <1>5
  <2> QED BY <1>3, <1>5, <2>1, <2>2, MovedOne
<1> QED BY <1>2, <1>4, <1>5

LEMMA CountServer ==
    ASSUME TypeOK, Stages, ServerType, Staying, NEW t \in Thread, Count(t)
    PROVE  ServerMoves
<1>1. call[t].ih \in InfoHash
  BY WriteCall, CallFields DEF Write
<1>2. downloads \in [InfoHash -> Nat] /\ leaked \in SUBSET Pairs
  BY DEF ServerType
<1>3. downloads[call[t].ih] + 1 \in Nat
  BY SMTT(60), <1>1, <1>2
<1>4. /\ UNCHANGED <<set, stayed, leaked>>
      /\ downloads' = [downloads EXCEPT ![call[t].ih] = downloads[call[t].ih] + 1]
            \/ UNCHANGED downloads
  BY DEF Count
<1>5. downloads' \in [InfoHash -> Nat]
  BY <1>2, <1>3, <1>4
<1> QED BY <1>2, <1>4, <1>5, StillServer

LEMMA WriteServer ==
    ASSUME TypeOK, Stages, ServerType, Staying, NEW t \in Thread, Write(t)
    PROVE  ServerMoves
BY PutServer, RemoveServer, MoveServer, CountServer DEF Write

----------------------------------------------------------------------------
(* What a step does to the threads.                                        *)

ThreadTypes ==
    /\ pc \in [Thread -> PCs] /\ call \in [Thread -> Call]
    /\ asked \in [Thread -> Seq(Key)] /\ \A t \in Thread : Len(asked[t]) <= 2
    /\ out \in [Thread -> SUBSET Pairs] /\ result \in [Thread -> Results]

OtherTypes == begun \in 0 .. MaxCalls /\ fails \in 0 .. MaxFails /\ closed \in BOOLEAN

LEMMA TypesSplit == TypeOK <=> ServerType /\ ThreadTypes /\ OtherTypes
BY DEF TypeOK, ServerType, SetType, ThreadTypes, OtherTypes, PCs, Results, Cell, Pairs

LEMMA TypesSplitNext == ASSUME ServerType', ThreadTypes', OtherTypes' PROVE TypeOK'
BY DEF TypeOK, ServerType, SetType, ThreadTypes, OtherTypes, PCs, Results, Cell, Pairs

LEMMA OtherStep == ASSUME OtherTypes, [Next]_vars PROVE OtherTypes'
<1>1. UNCHANGED begun \/ (begun < MaxCalls /\ begun' = begun + 1)
  <2>1. ASSUME NEW t \in Thread, Write(t) \/ RandMember(t) \/ Die(t) PROVE UNCHANGED begun
    BY <2>1 DEF Write, Add, SetExpiry, Remove, Move, GradAdd, GradExpire, Count, RandMember, Die
  <2>2. Tick \/ Close \/ UNCHANGED vars => UNCHANGED begun
    BY DEF Tick, Close, vars
  <2>3. \A key \in Key, p \in Peer : Expire(key, p) => UNCHANGED begun
    BY DEF Expire
  <2>4. \A t \in Thread, c \in Call : Begin(t, c) => begun < MaxCalls /\ begun' = begun + 1
    BY DEF Begin
  <2> QED BY <2>1, <2>2, <2>3, <2>4, NextCases
<1>2. UNCHANGED fails \/ (fails < MaxFails /\ fails' = fails + 1)
  <2>1. ASSUME NEW t \in Thread, Write(t) \/ RandMember(t) \/ Die(t)
        PROVE  UNCHANGED fails \/ (fails < MaxFails /\ fails' = fails + 1)
    BY <2>1 DEF Write, Add, SetExpiry, Remove, Move, GradAdd, GradExpire, Count, RandMember, Die,
                Fail, Failed, Done
  <2>2. Tick \/ Close \/ UNCHANGED vars => UNCHANGED fails
    BY DEF Tick, Close, vars
  <2>3. \A key \in Key, p \in Peer : Expire(key, p) => UNCHANGED fails
    BY DEF Expire
  <2>4. \A t \in Thread, c \in Call : Begin(t, c) => UNCHANGED fails
    BY DEF Begin
  <2> QED BY <2>1, <2>2, <2>3, <2>4, NextCases
<1>3. UNCHANGED closed \/ closed' = TRUE
  <2>1. ASSUME NEW t \in Thread, Write(t) \/ RandMember(t) \/ Die(t) PROVE UNCHANGED closed
    BY <2>1 DEF Write, Add, SetExpiry, Remove, Move, GradAdd, GradExpire, Count, RandMember, Die
  <2>2. Tick \/ Close \/ UNCHANGED vars => UNCHANGED closed \/ closed' = TRUE
    BY DEF Tick, Close, vars
  <2>3. \A key \in Key, p \in Peer : Expire(key, p) => UNCHANGED closed
    BY DEF Expire
  <2>4. \A t \in Thread, c \in Call : Begin(t, c) => UNCHANGED closed
    BY DEF Begin
  <2> QED BY <2>1, <2>2, <2>3, <2>4, NextCases
<1>4. begun' \in 0 .. MaxCalls /\ fails' \in 0 .. MaxFails
  BY SMTT(60), <1>1, <1>2, KeyDBAssumption DEF OtherTypes
<1>5. closed' \in BOOLEAN
  BY <1>3 DEF OtherTypes
<1> QED BY <1>4, <1>5 DEF OtherTypes

\* The other threads and what they have.
Others(t) ==
    \A u \in Thread : u # t =>
        /\ pc'[u] = pc[u] /\ call'[u] = call[u] /\ asked'[u] = asked[u]
        /\ out'[u] = out[u] /\ result'[u] = result[u]

\* A thread goes on with its call ...
LEMMA GoOn ==
    ASSUME ThreadTypes, NEW t \in Thread, NEW w \in PCs, Go(t, w)
    PROVE  /\ ThreadTypes' /\ Others(t) /\ pc'[t] = w
           /\ UNCHANGED <<call, asked, out, result>>
<1>1. pc \in [Thread -> PCs] /\ pc' = [pc EXCEPT ![t] = w]
      /\ UNCHANGED <<call, asked, out, result>>
  BY DEF ThreadTypes, Go
<1>2. pc' \in [Thread -> PCs] /\ pc'[t] = w /\ \A u \in Thread : u # t => pc'[u] = pc[u]
  BY <1>1
<1> QED BY <1>1, <1>2 DEF ThreadTypes, Others

\* ... or returns.
LEMMA Returns ==
    ASSUME ThreadTypes, NEW t \in Thread, NEW res \in Results, Return(t, res)
    PROVE  /\ ThreadTypes' /\ Others(t)
           /\ pc'[t] = "idle" /\ call'[t] = NoCall /\ result'[t] = res
           /\ UNCHANGED <<asked, out>>
<1>1. /\ pc \in [Thread -> PCs] /\ call \in [Thread -> Call] /\ result \in [Thread -> Results]
      /\ "idle" \in PCs /\ NoCall \in Call
  BY NoCallType DEF ThreadTypes, PCs
<1>2. /\ pc' = [pc EXCEPT ![t] = "idle"] /\ call' = [call EXCEPT ![t] = NoCall]
      /\ result' = [result EXCEPT ![t] = res] /\ UNCHANGED <<asked, out>>
  BY DEF Return
<1>3. /\ pc' \in [Thread -> PCs] /\ pc'[t] = "idle"
      /\ \A u \in Thread : u # t => pc'[u] = pc[u]
  BY <1>1, <1>2
<1>4. /\ call' \in [Thread -> Call] /\ call'[t] = NoCall
      /\ \A u \in Thread : u # t => call'[u] = call[u]
  BY <1>1, <1>2
<1>5. /\ result' \in [Thread -> Results] /\ result'[t] = res
      /\ \A u \in Thread : u # t => result'[u] = result[u]
  BY <1>1, <1>2
<1> QED BY <1>2, <1>3, <1>4, <1>5 DEF ThreadTypes, Others

\* A call that writes does one or the other.
LEMMA WriteThread ==
    ASSUME TypeOK, Stages, NEW t \in Thread, Write(t)
    PROVE  \/ \E res \in Results : Return(t, res)
           \/ \E w \in PCs \ {"idle", "srandmember"} : Go(t, w) /\ Stage(w, call[t])
<1>1. Stage(pc[t], call[t])
  BY StagesIff
<1>2. Stage("sadd", call[t]) => Stage("expire", call[t])
  BY DEF Stage
<1>3. /\ Stage("smove", call[t]) => Stage("gradAdd", call[t])
      /\ Stage("gradAdd", call[t]) => Stage("gradExpire", call[t])
      /\ Stage("gradExpire", call[t]) => Stage("count", call[t])
  BY DEF Stage
<1>4. {"ok", "err", "notExist"} \subseteq Results
      /\ {"expire", "gradAdd", "gradExpire", "count"} \subseteq PCs \ {"idle", "srandmember"}
  BY DEF Results, PCs
<1>5. CASE Add(t)
  BY <1>1, <1>2, <1>4, <1>5 DEF Add
<1>6. CASE SetExpiry(t)
  BY <1>4, <1>6 DEF SetExpiry
<1>7. CASE Remove(t)
  BY <1>4, <1>7 DEF Remove
<1>8. CASE Move(t)
  BY <1>1, <1>3, <1>4, <1>8 DEF Move
<1>9. CASE GradAdd(t)
  BY <1>1, <1>3, <1>4, <1>9 DEF GradAdd
<1>10. CASE GradExpire(t)
  BY <1>1, <1>3, <1>4, <1>10 DEF GradExpire
<1>11. CASE Count(t)
  BY <1>4, <1>11 DEF Count
<1> QED BY <1>5, <1>6, <1>7, <1>8, <1>9, <1>10, <1>11 DEF Write

----------------------------------------------------------------------------
(* The answers of AnnouncePeers.                                           *)

\* What the counting of peers needs of finite sets; proved at the end.
AddLaw(k, l) ==
    \A S \in SUBSET Peer, A \in SUBSET ({l} \X Peer) :
        Cardinality(A \cup ({k} \X S)) = Cardinality(A) + Cardinality(S)
CountingLaws ==
    /\ Cardinality({}) = 0
    /\ \A l \in Key : \A A \in SUBSET ({l} \X Peer) : Cardinality(A) \in Nat
    /\ \A S \in SUBSET Peer : Cardinality(S) \in Nat
    /\ \A k, l \in Key : k # l => AddLaw(k, l)
    /\ \A S \in SUBSET Peer : \A T \in SUBSET S : Cardinality(T) = Cardinality(S) => T = S

\* What Asking and AnnounceAnswer say of a thread at w with call c, the keys a
\* to ask, the answer o, the result r and the peers st that stayed.
AskingAt(c, a, o, st) ==
    /\ \/ a = PeerKeys(c.ih, c.forSeeder, c.v6) /\ o = {}
       \/ /\ a = <<InfoHashKey(c.ih, "leechers", c.v6)>>
          /\ o \subseteq {InfoHashKey(c.ih, "seeders", c.v6)} \X Peer
    /\ Cardinality(o) <= c.numWant
    /\ st \subseteq o \cup (Keys(a) \X Peer)
Answer(c, a, o, st) ==
    /\ Cardinality(o) <= c.numWant
    /\ (a = <<>> /\ Cardinality(o) < c.numWant) => st \subseteq o
Settled(w, c, a, o, r, st) ==
    /\ w \notin {"idle", "srandmember"} => o = {} /\ st = {}
    /\ w = "srandmember" => AskingAt(c, a, o, st)
    /\ (w = "idle" /\ c.op = "AnnouncePeers" /\ r # "none") => Answer(c, a, o, st)

AllSettled ==
    \A t \in Thread : Settled(pc[t], call[t], asked[t], out[t], result[t], stayed[t])

LEMMA SettledIff == AllSettled <=> (\A t \in Thread : Asking(t)) /\ AnnounceAnswer
BY DEF AllSettled, Settled, AskingAt, Answer, Asking, AnnounceAnswer

\* Members go.
LEMMA SettledFewer ==
    ASSUME NEW w, NEW c, NEW a, NEW o, NEW r, NEW st, Settled(w, c, a, o, r, st),
           NEW st2, st2 \subseteq st
    PROVE  Settled(w, c, a, o, r, st2)
<1>1. ASSUME AskingAt(c, a, o, st) PROVE AskingAt(c, a, o, st2)
  BY <1>1 DEF AskingAt
<1>2. ASSUME Answer(c, a, o, st) PROVE Answer(c, a, o, st2)
  BY <1>2 DEF Answer
<1> QED BY <1>1, <1>2 DEF Settled

\* Steps of one thread.
LEMMA SettledFrame ==
    ASSUME AllSettled, NEW t \in Thread, Others(t),
           \A u \in Thread : u # t => stayed'[u] \subseteq stayed[u],
           Settled(pc'[t], call'[t], asked'[t], out'[t], result'[t], stayed'[t])
    PROVE  AllSettled'
<1>1. ASSUME NEW u \in Thread, u # t
      PROVE  Settled(pc'[u], call'[u], asked'[u], out'[u], result'[u], stayed'[u])
  <2>1. Settled(pc[u], call[u], asked[u], out[u], result[u], stayed[u])
    BY DEF AllSettled
  <2>2. Settled(pc[u], call[u], asked[u], out[u], result[u], stayed'[u])
    BY <1>1, <2>1, SettledFewer
  <2> QED BY <1>1, <2>2 DEF Others
<1> QED BY <1>1 DEF AllSettled

\* An answer without peers.
LEMMA NoAnswer ==
    ASSUME CountingLaws, NEW c \in Call, c.op = "AnnouncePeers"
    PROVE  Cardinality({}) <= c.numWant
<1>1. c.numWant \in Nat /\ Cardinality({}) = 0
  BY CallFields DEF CountingLaws
<1> QED BY SMTT(60), <1>1

LEMMA WriteSettled ==
    ASSUME CountingLaws, TypeOK, Stages, Staying, AllSettled, NEW t \in Thread, Write(t)
    PROVE  AllSettled' /\ ThreadTypes' /\ Stages'
<1>1. ServerType /\ ThreadTypes
  BY TypesSplit
<1>2. ServerMoves
  BY <1>1, WriteServer
<1>3. out[t] = {} /\ stayed[t] = {}
  BY WriteCall DEF AllSettled, Settled
<1>4. /\ ThreadTypes' /\ Others(t) /\ out'[t] = {} /\ stayed'[t] = {}
      /\ pc'[t] \notin {"srandmember"} /\ Stage(pc'[t], call'[t])
  <2>1. ASSUME NEW res \in Results, Return(t, res)
        PROVE  /\ ThreadTypes' /\ Others(t) /\ out' = out /\ pc'[t] = "idle"
    BY <1>1, <2>1, Returns
  <2>2. ASSUME NEW w \in PCs \ {"idle", "srandmember"}, Go(t, w), Stage(w, call[t])
        PROVE  /\ ThreadTypes' /\ Others(t) /\ out' = out /\ pc'[t] = w /\ call' = call
    BY <1>1, <2>2, GoOn
  <2>3. Stage("idle", call'[t])
    BY DEF Stage
  <2>4. stayed'[t] = {}
    BY <1>2, <1>3 DEF ServerMoves
  <2> QED BY <1>3, <2>1, <2>2, <2>3, <2>4, WriteThread
<1>5. call'[t] \in Call
  BY <1>4 DEF ThreadTypes
<1>6. call'[t].op = "AnnouncePeers" => Answer(call'[t], asked'[t], {}, {})
  BY <1>5, NoAnswer DEF Answer
<1>7. Settled(pc'[t], call'[t], asked'[t], out'[t], result'[t], stayed'[t])
  BY <1>4, <1>6 DEF Settled
<1>8. AllSettled'
  <2>1. \A u \in Thread : stayed'[u] \subseteq stayed[u]
    BY <1>2 DEF ServerMoves
  <2> QED BY <1>4, <1>7, <2>1, SettledFrame
<1>9. Stages'
  BY <1>4, StagesIff DEF Others, Stages, Stage
<1> QED BY <1>4, <1>8, <1>9

LEMMA DieSettled ==
    ASSUME TypeOK, Stages, Staying, AllSettled, NEW t \in Thread, Die(t)
    PROVE  AllSettled' /\ ThreadTypes' /\ Stages' /\ ServerMoves
<1>1. ServerType /\ ThreadTypes /\ "none" \in Results
  BY TypesSplit DEF Results
<1>2. /\ ThreadTypes' /\ Others(t) /\ pc'[t] = "idle" /\ result'[t] = "none"
  BY <1>1, Returns DEF Die
<1>3. UNCHANGED <<set, stayed, downloads>>
  BY DEF Die
<1>4. leaked' \in SUBSET Pairs
  <2>1. CASE pc[t] = "expire"
    <3>1. call[t] \in Call /\ call[t].op \in WriteOps
      BY <2>1 DEF TypeOK, Stages, WriteOps
    <3>2. keyOf(call[t], kindOf(call[t].op)) \in Key /\ call[t].p \in Peer
      BY <3>1, CallKeys
    <3>3. Leak(keyOf(call[t], kindOf(call[t].op)), call[t].p)
      BY <2>1 DEF Die
    <3> QED BY <1>1, <3>2, <3>3, LeakType
  <2>2. CASE pc[t] # "expire"
    BY <1>1, <2>2 DEF Die, ServerType
  <2> QED BY <2>1, <2>2
<1>5. downloads' \in [InfoHash -> Nat]
  BY <1>1, <1>3 DEF ServerType
<1>6. ServerMoves
  BY <1>1, <1>3, <1>4, <1>5, StillServer
<1>7. Settled(pc'[t], call'[t], asked'[t], out'[t], result'[t], stayed'[t])
  BY <1>2 DEF Settled
<1>8. AllSettled'
  BY <1>2, <1>3, <1>7, SettledFrame
<1>9. Stages'
  BY <1>2 DEF Others, Stages
<1> QED BY <1>2, <1>6, <1>8, <1>9

\* The keys of a sequence.
LEMMA KeysOf ==
    /\ Keys(<<>>) = {}
    /\ \A a : Keys(<<a>>) = {a}
    /\ \A a, b : Keys(<<a, b>>) = {a, b}
    /\ \A s \in Seq(Key) : Keys(s) \in SUBSET Key
<1>1. Keys(<<>>) = {}
  BY SMTT(60) DEF Keys
<1>2. ASSUME NEW a PROVE Keys(<<a>>) = {a}
  BY SMTT(60) DEF Keys
<1>3. ASSUME NEW a, NEW b PROVE Keys(<<a, b>>) = {a, b}
  BY SMTT(60) DEF Keys
<1>4. ASSUME NEW s \in Seq(Key) PROVE Keys(s) \in SUBSET Key
  BY SMTT(60) DEF Keys
<1> QED BY <1>1, <1>2, <1>3, <1>4

\* SRANDMEMBER of S of the members R of key k, after the answer o from key l.
Fewer(m, n) == IF m < n THEN m ELSE n

LEMMA Fetched ==
    ASSUME CountingLaws, NEW k \in Key, NEW l \in Key, k # l, NEW o \in SUBSET ({l} \X Peer),
           NEW R \in SUBSET Peer, NEW S \in SUBSET R, NEW want \in Nat,
           Cardinality(o) <= want,
           Cardinality(S) = Fewer(want - Cardinality(o), Cardinality(R))
    PROVE  /\ Cardinality(o \cup ({k} \X S)) <= want
           /\ Cardinality(o \cup ({k} \X S)) < want => S = R
           /\ Cardinality(o \cup ({k} \X S)) \in Nat
<1>1. /\ Cardinality(o) \in Nat /\ Cardinality(R) \in Nat /\ Cardinality(S) \in Nat
  <2>1. S \in SUBSET Peer
    OBVIOUS
  <2> QED BY <2>1 DEF CountingLaws
<1>2. Cardinality(o \cup ({k} \X S)) = Cardinality(o) + Cardinality(S)
  <2>1. S \in SUBSET Peer
    OBVIOUS
  <2>2. AddLaw(k, l)
    BY DEF CountingLaws
  <2> QED BY <2>1, <2>2 DEF AddLaw
<1>3. Cardinality(S) = Cardinality(R) => S = R
  BY DEF CountingLaws
<1>4. Cardinality(o) + Cardinality(S) <= want /\ Cardinality(o) + Cardinality(S) \in Nat
  BY SMTT(60), <1>1 DEF Fewer
<1>5. Cardinality(o) + Cardinality(S) < want => Cardinality(S) = Cardinality(R)
  BY SMTT(60), <1>1 DEF Fewer
<1> QED BY <1>2, <1>3, <1>4, <1>5

\* Where GetPeers is: it asks key k, has peers of key l at most, and has the
\* leechers to ask next or nothing.
LEMMA Position ==
    ASSUME NEW c \in Call, c.op = "AnnouncePeers", NEW a, NEW o, NEW st, AskingAt(c, a, o, st)
    PROVE  \E k, l \in Key :
              /\ k # l /\ a # <<>> /\ Head(a) = k /\ o \in SUBSET ({l} \X Peer)
              /\ \/ Tail(a) = <<>>
                 \/ /\ Tail(a) = <<InfoHashKey(c.ih, "leechers", c.v6)>>
                    /\ k = InfoHashKey(c.ih, "seeders", c.v6) /\ o = {}
              /\ st \subseteq o \cup ({k} \X Peer) \cup (Keys(Tail(a)) \X Peer)
<1> DEFINE sk == InfoHashKey(c.ih, "seeders", c.v6)
           lk == InfoHashKey(c.ih, "leechers", c.v6)
<1>1. sk \in Key /\ lk \in Key /\ sk # lk
  BY CallFields, KeyNames
<1>2. \/ a = <<sk, lk>> /\ o = {}
      \/ a = <<lk>> /\ o \subseteq {sk} \X Peer
  <2>1. a = PeerKeys(c.ih, c.forSeeder, c.v6) => a = <<lk>> \/ a = <<sk, lk>>
    BY DEF PeerKeys
  <2> QED BY <2>1 DEF AskingAt
<1>3. st \subseteq o \cup (Keys(a) \X Peer)
  BY DEF AskingAt
<1> HIDE DEF sk, lk
<1>4. CASE a = <<sk, lk>> /\ o = {}
  <2>1. a # <<>> /\ Head(a) = sk /\ Tail(a) = <<lk>>
    BY SMTT(60), <1>4
  <2>2. Keys(a) = {sk, lk} /\ Keys(Tail(a)) = {lk}
    BY <1>4, <2>1, KeysOf
  <2>3. st \subseteq o \cup ({sk} \X Peer) \cup (Keys(Tail(a)) \X Peer)
    BY SMTT(60), <1>3, <2>2
  <2>4. o \in SUBSET ({lk} \X Peer)
    BY <1>4
  <2>5. o = {} /\ Tail(a) = <<InfoHashKey(c.ih, "leechers", c.v6)>>
        /\ sk = InfoHashKey(c.ih, "seeders", c.v6)
    BY <1>4, <2>1 DEF sk, lk
  <2> QED BY <1>1, <2>1, <2>3, <2>4, <2>5
<1>5. CASE a = <<lk>> /\ o \subseteq {sk} \X Peer
  <2>1. a # <<>> /\ Head(a) = lk /\ Tail(a) = <<>>
    BY SMTT(60), <1>5
  <2>2. Keys(a) = {lk} /\ Keys(Tail(a)) = {}
    BY <1>5, <2>1, KeysOf
  <2>3. st \subseteq o \cup ({lk} \X Peer) \cup (Keys(Tail(a)) \X Peer)
    BY SMTT(60), <1>3, <2>2
  <2>4. o \in SUBSET ({sk} \X Peer)
    BY <1>5
  <2> QED BY <1>1, <2>1, <2>3, <2>4
<1> QED BY <1>2, <1>4, <1>5

LEMMA Endings == \A o : \A failed \in BOOLEAN : Ending(o, failed) \in Results \ {"none"}
BY DEF Ending, Results

\* The two ways of SRANDMEMBER: a reply of S of the members of the key ...
Replied(t, S) ==
    /\ S \in SUBSET Members(Head(asked[t]))
    /\ Cardinality(S) = Fewer(call[t].numWant - Cardinality(out[t]),
                              Cardinality(Members(Head(asked[t]))))
    /\ out' = [out EXCEPT ![t] = out[t] \cup ({Head(asked[t])} \X S)]
    /\ asked' = [asked EXCEPT ![t] = Tail(asked[t])]
    /\ IF asked'[t] = <<>> \/ call[t].numWant - Cardinality(out'[t]) <= 0
       THEN /\ pc' = [pc EXCEPT ![t] = "idle"]
            /\ result' = [result EXCEPT ![t] = Ending(out'[t], FALSE)]
       ELSE UNCHANGED <<pc, result>>

\* ... and an error.
Erred(t) ==
    /\ pc' = [pc EXCEPT ![t] = "idle"]
    /\ result' = [result EXCEPT ![t] = Ending(out[t], TRUE)]
    /\ UNCHANGED <<asked, out>>

LEMMA AskCases ==
    ASSUME NEW t \in Thread, RandMember(t)
    PROVE  /\ pc[t] = "srandmember" /\ UNCHANGED <<call, set, downloads, stayed, leaked>>
           /\ (\E S \in SUBSET Peer : Replied(t, S)) \/ Erred(t)
<1>1. pc[t] = "srandmember" /\ UNCHANGED <<call, set, downloads, stayed, leaked>>
  BY DEF RandMember
<1> QED BY <1>1 DEF RandMember, Replied, Erred, Left, Fewer, Members

\* A thread that asks changes nothing of the others, and ends or goes on.
LEMMA AskThread ==
    ASSUME TypeOK, NEW t \in Thread, UNCHANGED call,
           (\E S \in SUBSET Peer : Replied(t, S)) \/ Erred(t),
           Head(asked[t]) \in Key, Tail(asked[t]) \in Seq(Key), Len(Tail(asked[t])) <= 2
    PROVE  ThreadTypes' /\ Others(t)
<1>1. ThreadTypes
  BY TypesSplit
<1>2. /\ pc' \in [Thread -> PCs] /\ \A u \in Thread : u # t => pc'[u] = pc[u]
  <2>1. UNCHANGED pc \/ pc' = [pc EXCEPT ![t] = "idle"]
    BY DEF Replied, Erred
  <2>2. pc \in [Thread -> PCs] /\ "idle" \in PCs
    BY <1>1 DEF ThreadTypes, PCs
  <2> QED BY <2>1, <2>2
<1>3. /\ result' \in [Thread -> Results] /\ \A u \in Thread : u # t => result'[u] = result[u]
  <2>1. PICK r \in Results : UNCHANGED result \/ result' = [result EXCEPT ![t] = r]
    <3>1. Ending(out[t], TRUE) \in Results /\ Ending(out'[t], FALSE) \in Results
      BY Endings
    <3> QED BY <3>1 DEF Replied, Erred
  <2>2. result \in [Thread -> Results]
    BY <1>1 DEF ThreadTypes
  <2> QED BY <2>1, <2>2
<1>4. /\ out' \in [Thread -> SUBSET Pairs] /\ \A u \in Thread : u # t => out'[u] = out[u]
  <2>1. PICK S \in SUBSET Peer :
          UNCHANGED out \/ out' = [out EXCEPT ![t] = out[t] \cup ({Head(asked[t])} \X S)]
    BY DEF Replied, Erred
  <2>2. out \in [Thread -> SUBSET Pairs]
    BY <1>1 DEF ThreadTypes
  <2>3. out[t] \cup ({Head(asked[t])} \X S) \in SUBSET Pairs
    BY <2>2 DEF Pairs
  <2> QED BY <2>1, <2>2, <2>3
<1>5. /\ asked' \in [Thread -> Seq(Key)] /\ \A u \in Thread : u # t => asked'[u] = asked[u]
      /\ \A u \in Thread : Len(asked'[u]) <= 2
  <2>1. UNCHANGED asked \/ asked' = [asked EXCEPT ![t] = Tail(asked[t])]
    BY DEF Replied, Erred
  <2>2. asked \in [Thread -> Seq(Key)] /\ \A u \in Thread : Len(asked[u]) <= 2
    BY <1>1 DEF ThreadTypes
  <2> QED BY <2>1, <2>2
<1> QED BY <1>1, <1>2, <1>3, <1>4, <1>5 DEF ThreadTypes, Others

LEMMA AskSettled ==
    ASSUME CountingLaws, TypeOK, Stages, Staying, AllSettled, NEW t \in Thread, RandMember(t)
    PROVE  AllSettled' /\ ThreadTypes' /\ Others(t) /\ Stages' /\ ServerMoves
<1> DEFINE c == call[t]
           want == call[t].numWant
<1>1. pc[t] = "srandmember" /\ UNCHANGED <<call, set, downloads, stayed, leaked>>
  BY AskCases
<1>2. c \in Call /\ c.op = "AnnouncePeers" /\ want \in Nat
  <2>1. c \in Call /\ c.op = "AnnouncePeers"
    BY <1>1 DEF Stages, TypeOK
  <2> QED BY <2>1, CallFields
<1>3. AskingAt(c, asked[t], out[t], stayed[t])
  BY <1>1 DEF AllSettled, Settled
<1>4. ServerType /\ ThreadTypes
  BY TypesSplit
<1>5. ServerMoves
  BY <1>1, <1>4, StillServer DEF ServerType
<1>6. PICK k \in Key, l \in Key :
         /\ k # l /\ asked[t] # <<>> /\ Head(asked[t]) = k /\ out[t] \in SUBSET ({l} \X Peer)
         /\ \/ Tail(asked[t]) = <<>>
            \/ /\ Tail(asked[t]) = <<InfoHashKey(c.ih, "leechers", c.v6)>>
               /\ k = InfoHashKey(c.ih, "seeders", c.v6) /\ out[t] = {}
         /\ stayed[t] \subseteq out[t] \cup ({k} \X Peer) \cup (Keys(Tail(asked[t])) \X Peer)
  BY <1>2, <1>3, Position
<1>7. ThreadTypes' /\ Others(t)
  <2>1. asked[t] \in Seq(Key) /\ Len(asked[t]) <= 2
    BY <1>4 DEF ThreadTypes
  <2>2. Tail(asked[t]) \in Seq(Key) /\ Len(Tail(asked[t])) <= 2
    BY SMTT(60), <1>6, <2>1
  <2> QED BY <1>1, <1>6, <2>2, AskCases, AskThread
<1>8. Cardinality(out[t]) <= want
  BY <1>3 DEF AskingAt
<1>9. ASSUME NEW S \in SUBSET Peer, Replied(t, S)
      PROVE  Settled(pc'[t], call'[t], asked'[t], out'[t], result'[t], stayed'[t])
  <2> DEFINE R == Members(k)
             o == out[t] \cup ({k} \X S)
  <2>1. R \in SUBSET Peer /\ S \in SUBSET R
        /\ Cardinality(S) = Fewer(want - Cardinality(out[t]), Cardinality(R))
    BY <1>6, <1>9 DEF Replied, Members
  <2>2. /\ Cardinality(o) <= want /\ Cardinality(o) \in Nat
        /\ Cardinality(o) < want => S = R
    <3>1. want \in Nat /\ k # l /\ out[t] \in SUBSET ({l} \X Peer) /\ Cardinality(out[t]) <= want
      BY <1>2, <1>6, <1>8
    <3> HIDE DEF R, c, want
    <3> QED BY SMTT(60), <2>1, <3>1, Fetched
  <2>3. asked'[t] = Tail(asked[t]) /\ out'[t] = o
    <3>1. asked \in [Thread -> Seq(Key)] /\ out \in [Thread -> SUBSET Pairs]
      BY <1>4 DEF ThreadTypes
    <3>2. asked' = [asked EXCEPT ![t] = Tail(asked[t])] /\ out' = [out EXCEPT ![t] = o]
      BY <1>6, <1>9 DEF Replied
    <3> HIDE DEF o
    <3> QED BY <3>1, <3>2
  <2>4. ASSUME Cardinality(o) < want
        PROVE  stayed[t] \subseteq o \cup (Keys(Tail(asked[t])) \X Peer)
    <3>1. ASSUME NEW x \in stayed[t], x \in {k} \X Peer PROVE x \in o
      <4>1. x[1] = k /\ x[2] \in Peer /\ x = <<k, x[2]>>
        BY SMTT(60), <3>1
      <4>2. set[x[1]][x[2]] # Absent
        BY DEF Staying
      <4>3. x[2] \in S
        BY <2>2, <2>4, <4>1, <4>2 DEF Members
      <4> QED BY <4>1, <4>3
    <3> QED BY <1>6, <3>1
  <2>5. pc'[t] \in {"idle", "srandmember"}
        /\ (pc'[t] = "srandmember" => asked'[t] # <<>> /\ ~(want - Cardinality(out'[t]) <= 0))
    <3>1. pc \in [Thread -> PCs]
      BY <1>4 DEF ThreadTypes
    <3>2. IF asked'[t] = <<>> \/ want - Cardinality(out'[t]) <= 0
          THEN pc' = [pc EXCEPT ![t] = "idle"] ELSE UNCHANGED pc
      BY <1>9 DEF Replied
    <3> HIDE DEF want
    <3> QED BY <1>1, <3>1, <3>2
  <2>6. CASE pc'[t] = "idle"
    <3>1. (Tail(asked[t]) = <<>> /\ Cardinality(o) < want) => stayed[t] \subseteq o
      <4> HIDE DEF o
      <4> QED BY <2>4, KeysOf
    <3>2. Answer(c, asked'[t], out'[t], stayed[t])
      BY <2>2, <2>3, <3>1 DEF Answer
    <3> QED BY <1>1, <2>6, <3>2 DEF Settled
  <2>7. CASE pc'[t] = "srandmember"
    <3>1. Cardinality(o) < want
      <4>1. ~(want - Cardinality(o) <= 0)
        BY <2>3, <2>5, <2>7
      <4> HIDE DEF o, want
      <4> QED BY SMTT(60), <1>2, <2>2, <4>1
    <3>2. /\ asked'[t] = <<InfoHashKey(c.ih, "leechers", c.v6)>>
          /\ out'[t] \subseteq {InfoHashKey(c.ih, "seeders", c.v6)} \X Peer
      BY <1>6, <2>3, <2>5, <2>7
    <3>3. AskingAt(c, asked'[t], out'[t], stayed[t])
      <4> HIDE DEF o
      <4> QED BY <2>2, <2>3, <2>4, <3>1, <3>2 DEF AskingAt
    <3> QED BY <1>1, <2>7, <3>3 DEF Settled
  <2> QED BY <2>5, <2>6, <2>7
<1>10. ASSUME Erred(t)
       PROVE  Settled(pc'[t], call'[t], asked'[t], out'[t], result'[t], stayed'[t])
  <2>1. pc'[t] = "idle" /\ UNCHANGED <<asked, out>>
    BY <1>4, <1>10 DEF Erred, ThreadTypes
  <2>2. Answer(c, asked[t], out[t], stayed[t])
    BY <1>6, <1>8 DEF Answer
  <2> QED BY <1>1, <2>1, <2>2 DEF Settled
<1>11. AllSettled'
  <2>1. Settled(pc'[t], call'[t], asked'[t], out'[t], result'[t], stayed'[t])
    BY <1>9, <1>10, AskCases
  <2> QED BY <1>1, <1>7, <2>1, SettledFrame
<1>12. Stages'
  <2>1. Stage(pc'[t], call'[t])
    <3>1. pc'[t] \in {"idle", "srandmember"}
      <4>1. UNCHANGED pc \/ pc' = [pc EXCEPT ![t] = "idle"]
        BY AskCases DEF Replied, Erred
      <4> QED BY <1>1, <1>4, <4>1 DEF ThreadTypes
    <3> QED BY <1>1, <1>2, <3>1 DEF Stage
  <2> QED BY <1>7, <2>1 DEF Others, Stages, Stage
<1> QED BY <1>5, <1>7, <1>11, <1>12

LEMMA BeginSettled ==
    ASSUME CountingLaws, TypeOK, Stages, Staying, AllSettled,
           NEW t \in Thread, NEW c \in Call, Begin(t, c)
    PROVE  AllSettled' /\ ThreadTypes' /\ Stages' /\ ServerType' /\ Staying'
<1> DEFINE a == IF c.op = "AnnouncePeers" THEN PeerKeys(c.ih, c.forSeeder, c.v6) ELSE <<>>
           here == {x \in Keys(a) \X Peer : set[x[1]][x[2]] # Absent}
<1>1. ServerType /\ ThreadTypes
  BY TypesSplit
<1>2. /\ pc' = [pc EXCEPT ![t] = First(c)] /\ call' = [call EXCEPT ![t] = c]
      /\ asked' = [asked EXCEPT ![t] = a] /\ out' = [out EXCEPT ![t] = {}]
      /\ result' = [result EXCEPT ![t] = "none"]
      /\ UNCHANGED <<set, downloads, leaked>>
  BY DEF Begin, First
<1>3. a \in Seq(Key) /\ Len(a) <= 2
  <2>1. CASE c.op = "AnnouncePeers"
    BY <2>1, CallFields, AskedKeys
  <2>2. CASE c.op # "AnnouncePeers"
    <3>1. <<>> \in Seq(Key) /\ Len(<<>>) <= 2
      BY SMTT(60)
    <3> QED BY <2>2, <3>1
  <2> QED BY <2>1, <2>2
<1>4. stayed' = [stayed EXCEPT ![t] = here]
  <2>1. asked'[t] = a
    BY <1>1, <1>2 DEF ThreadTypes
  <2>2. stayed' = [stayed EXCEPT ![t] =
                      {x \in Keys(asked'[t]) \X Peer : set[x[1]][x[2]] # Absent}]
    BY DEF Begin
  <2> HIDE DEF a
  <2> QED BY <2>1, <2>2
<1> HIDE DEF a
<1>5. here \in SUBSET Pairs /\ here \subseteq Keys(a) \X Peer
      /\ \A x \in here : set[x[1]][x[2]] # Absent
  BY <1>3, KeysOf DEF Pairs
<1> HIDE DEF here
<1>6. /\ pc' \in [Thread -> PCs] /\ pc'[t] = First(c)
      /\ \A u \in Thread : u # t => pc'[u] = pc[u]
  <2>1. pc \in [Thread -> PCs] /\ First(c) \in PCs
    BY <1>1, Firsts DEF ThreadTypes
  <2> QED BY <1>2, <2>1
<1>7. /\ call' \in [Thread -> Call] /\ call'[t] = c
      /\ \A u \in Thread : u # t => call'[u] = call[u]
  <2>1. call \in [Thread -> Call]
    BY <1>1 DEF ThreadTypes
  <2> QED BY <1>2, <2>1
<1>8. /\ asked' \in [Thread -> Seq(Key)] /\ asked'[t] = a
      /\ \A u \in Thread : u # t => asked'[u] = asked[u]
  <2>1. asked \in [Thread -> Seq(Key)]
    BY <1>1 DEF ThreadTypes
  <2> QED BY <1>2, <1>3, <2>1
<1>9. /\ out' \in [Thread -> SUBSET Pairs] /\ out'[t] = {}
      /\ \A u \in Thread : u # t => out'[u] = out[u]
  <2>1. out \in [Thread -> SUBSET Pairs]
    BY <1>1 DEF ThreadTypes
  <2> QED BY <1>2, <2>1
<1>10. /\ result' \in [Thread -> Results] /\ result'[t] = "none"
       /\ \A u \in Thread : u # t => result'[u] = result[u]
  <2>1. result \in [Thread -> Results] /\ "none" \in Results
    BY <1>1 DEF ThreadTypes, Results
  <2> QED BY <1>2, <2>1
<1>11. /\ stayed' \in [Thread -> SUBSET Pairs] /\ stayed'[t] = here
       /\ \A u \in Thread : u # t => stayed'[u] = stayed[u]
  <2>1. stayed \in [Thread -> SUBSET Pairs]
    BY <1>1 DEF ServerType
  <2> QED BY <1>4, <1>5, <2>1
<1>12. ThreadTypes' /\ Others(t)
  <2>1. \A u \in Thread : Len(asked'[u]) <= 2
    BY <1>1, <1>3, <1>8 DEF ThreadTypes
  <2> QED BY <1>6, <1>7, <1>8, <1>9, <1>10, <2>1 DEF ThreadTypes, Others
<1>13. ServerType'
  BY <1>1, <1>2, <1>11 DEF ServerType, SetType
<1>14. Staying'
  BY <1>2, <1>5, <1>11 DEF Staying
<1>15. Stages'
  <2>1. Stage(pc'[t], call'[t])
    BY <1>6, <1>7, Firsts
  <2> QED BY <1>6, <1>7, <2>1 DEF Stages, Stage
<1>16. Settled(pc'[t], call'[t], asked'[t], out'[t], result'[t], stayed'[t])
  <2>1. CASE c.op = "AnnouncePeers"
    <3>1. a = PeerKeys(c.ih, c.forSeeder, c.v6) /\ Cardinality({}) <= c.numWant
      BY <2>1, NoAnswer DEF a
    <3>2. AskingAt(c, a, {}, here)
      BY <1>5, <3>1 DEF AskingAt
    <3>3. pc'[t] = "srandmember"
      BY <1>6, <2>1, Firsts
    <3> QED BY <1>7, <1>8, <1>9, <1>11, <3>2, <3>3 DEF Settled
  <2>2. CASE c.op # "AnnouncePeers"
    <3>1. a = <<>> /\ Keys(<<>>) = {}
      BY <2>2, KeysOf DEF a
    <3>2. here = {}
      BY <1>5, <3>1
    <3>3. pc'[t] \notin {"idle", "srandmember"}
      BY <1>6, <2>2, Firsts
    <3> QED BY <1>9, <1>11, <3>2, <3>3 DEF Settled
  <2> QED BY <2>1, <2>2
<1>17. AllSettled'
  BY <1>11, <1>12, <1>16, SettledFrame
<1> QED BY <1>12, <1>13, <1>14, <1>15, <1>17

\* The steps of no thread.
LEMMA ServerSettled ==
    ASSUME TypeOK, Stages, AllSettled, UNCHANGED threadVars, ServerMoves
    PROVE  AllSettled' /\ ThreadTypes' /\ Stages'
<1>1. ThreadTypes
  BY TypesSplit
<1>2. ASSUME NEW u \in Thread
      PROVE  Settled(pc'[u], call'[u], asked'[u], out'[u], result'[u], stayed'[u])
  <2>1. Settled(pc[u], call[u], asked[u], out[u], result[u], stayed[u])
    BY DEF AllSettled
  <2>2. stayed'[u] \subseteq stayed[u]
    BY DEF ServerMoves
  <2>3. Settled(pc[u], call[u], asked[u], out[u], result[u], stayed'[u])
    BY <2>1, <2>2, SettledFewer
  <2> QED BY <2>3
<1>3. AllSettled'
  BY <1>2 DEF AllSettled
<1> QED BY <1>1, <1>3 DEF ThreadTypes, Stages

SettledInv == TypeOK /\ Stages /\ Staying /\ AllSettled

LEMMA InvStep == ASSUME CountingLaws, SettledInv, [Next]_vars PROVE SettledInv'
<1>1. TypeOK /\ Stages /\ Staying /\ AllSettled /\ ServerType /\ OtherTypes
  BY TypesSplit DEF SettledInv
<1> DEFINE Kept == AllSettled' /\ ThreadTypes' /\ Stages' /\ ServerType' /\ Staying'
<1>2. ServerMoves => ServerType' /\ Staying'
  BY DEF ServerMoves
<1>3. ASSUME NEW t \in Thread, Write(t) PROVE Kept
  BY <1>1, <1>2, <1>3, WriteServer, WriteSettled
<1>4. ASSUME NEW t \in Thread, RandMember(t) PROVE Kept
  BY <1>1, <1>2, <1>4, AskSettled
<1>5. ASSUME NEW t \in Thread, Die(t) PROVE Kept
  BY <1>1, <1>2, <1>5, DieSettled
<1>6. ASSUME NEW t \in Thread, NEW c \in Call, Begin(t, c) PROVE Kept
  BY <1>1, <1>6, BeginSettled
<1>7. ASSUME Tick PROVE Kept
  <2>1. UNCHANGED threadVars
    BY <1>7 DEF Tick
  <2> QED BY <1>1, <1>2, <1>7, <2>1, TickServer, ServerSettled
<1>8. ASSUME NEW key \in Key, NEW p \in Peer, Expire(key, p) PROVE Kept
  <2>1. UNCHANGED threadVars
    BY <1>8 DEF Expire
  <2> QED BY <1>1, <1>2, <1>8, <2>1, ExpireServer, ServerSettled
<1>9. ASSUME Close \/ UNCHANGED vars PROVE Kept
  <2>1. UNCHANGED threadVars /\ UNCHANGED <<set, downloads, stayed, leaked>>
    BY <1>9 DEF Close, vars
  <2>2. downloads' \in [InfoHash -> Nat] /\ leaked' \in SUBSET Pairs
    BY <1>1, <2>1 DEF ServerType
  <2>3. ServerMoves
    BY <1>1, <2>1, <2>2, StillServer
  <2> QED BY <1>1, <1>2, <2>1, <2>3, ServerSettled
<1>10. Kept
  <2> HIDE DEF Kept
  <2> QED BY <1>3, <1>4, <1>5, <1>6, <1>7, <1>8, <1>9, NextCases
<1>11. OtherTypes'
  BY <1>1, OtherStep
<1> QED BY <1>10, <1>11, TypesSplitNext DEF SettledInv

----------------------------------------------------------------------------
(* Members that are never to expire.                                       *)

\* What a step may do to the members but for one of them.
Rest(key, p) ==
    \A k \in Key, q \in Peer :
        (<<k, q>> # <<key, p>> /\ set'[k][q] = NoEnd) =>
            set[k][q] = NoEnd /\ (<<k, q>> \in leaked => <<k, q>> \in leaked')

\* Member p of the key is the only one that thread t may be about to expire.
Mine(t, key, p) == \A k \in Key, q \in Peer : Expiring(t, k, q) => k = key /\ q = p

\* What ExpiryDue says of one member.
DueAt(key, p) ==
    set[key][p] = NoEnd => <<key, p>> \in leaked \/ \E t \in Thread : Expiring(t, key, p)

\* A step of thread t that may touch member p of the key.
LEMMA DueFrame ==
    ASSUME ExpiryDue, NEW t \in Thread, Others(t), NEW key \in Key, NEW p \in Peer,
           Rest(key, p), Mine(t, key, p), DueAt(key, p)'
    PROVE  ExpiryDue'
<1>1. ASSUME NEW k \in Key, NEW q \in Peer, set'[k][q] = NoEnd, <<k, q>> # <<key, p>>
      PROVE  <<k, q>> \in leaked' \/ \E u \in Thread : Expiring(u, k, q)'
  <2>1. set[k][q] = NoEnd /\ (<<k, q>> \in leaked => <<k, q>> \in leaked')
    BY <1>1 DEF Rest
  <2>2. CASE <<k, q>> \in leaked
    BY <2>1, <2>2
  <2>3. ASSUME NEW u \in Thread, Expiring(u, k, q) PROVE Expiring(u, k, q)'
    <3>1. u # t
      BY <1>1, <2>3 DEF Mine
    <3> QED BY <2>3, <3>1 DEF Others, Expiring
  <2> QED BY <2>1, <2>2, <2>3 DEF ExpiryDue
<1>2. ASSUME NEW k \in Key, NEW q \in Peer, set'[k][q] = NoEnd
      PROVE  <<k, q>> \in leaked' \/ \E u \in Thread : Expiring(u, k, q)'
  <2>1. CASE <<k, q>> # <<key, p>>
    BY <1>1, <1>2, <2>1
  <2>2. CASE k = key /\ q = p
    BY <1>2, <2>2 DEF DueAt
  <2> QED BY <2>1, <2>2
<1> QED BY <1>2 DEF ExpiryDue

\* A step that touches no member.
LEMMA DueStill ==
    ASSUME ExpiryDue, NEW t \in Thread, Others(t), pc[t] # "expire", UNCHANGED <<set, leaked>>
    PROVE  ExpiryDue'
<1>1. ASSUME NEW k \in Key, NEW q \in Peer, NEW u \in Thread, Expiring(u, k, q)
      PROVE  Expiring(u, k, q)'
  <2>1. u # t
    BY <1>1 DEF Expiring
  <2> QED BY <1>1, <2>1 DEF Others, Expiring
<1> QED BY <1>1 DEF ExpiryDue

\* A thread that leaves member p of the key without an expiry tells the history.
LEMMA LeakKnown ==
    ASSUME NEW key, NEW p, Leak(key, p)
    PROVE  leaked \subseteq leaked' /\ (set'[key][p] = NoEnd => <<key, p>> \in leaked')
BY DEF Leak

LEMMA RestCell ==
    ASSUME NEW key \in Key, NEW p \in Peer, Same(set', set, key, p) \/ UNCHANGED set,
           leaked \ {<<key, p>>} \subseteq leaked'
    PROVE  Rest(key, p)
BY DEF Rest, Same

\* The commands of a write on the key of its peer.
LEMMA PutDue ==
    ASSUME TypeOK, Stages, ExpiryDue, NEW t \in Thread, Others(t),
           Add(t) \/ SetExpiry(t) \/ Remove(t)
    PROVE  ExpiryDue'
<1>1. SetType
  BY TypesSplit DEF ServerType
<1>0. PICK key \in Key, p \in Peer : key = keyOf(call[t], kindOf(call[t].op)) /\ p = call[t].p
  BY WriteCall, CallKeys DEF Write
<1>2. Mine(t, key, p)
  BY <1>0 DEF Mine, Expiring
<1>3. ASSUME Same(set', set, key, p) \/ UNCHANGED set, leaked \ {<<key, p>>} \subseteq leaked',
             \/ set'[key][p] # NoEnd \/ (set'[key][p] = NoEnd => <<key, p>> \in leaked')
             \/ Expiring(t, key, p)'
      PROVE  ExpiryDue'
  <2>1. Rest(key, p)
    BY <1>1, <1>3, RestCell
  <2>2. DueAt(key, p)'
    BY <1>3 DEF DueAt
  <2> QED BY <1>2, <2>1, <2>2, DueFrame
<1>4. CASE Add(t)
  <2>1. CASE SAdd(key, p) /\ Go(t, "expire") /\ UNCHANGED leaked
    <3>1. Same(set', set, key, p)
      BY <1>1, <2>1, SAddCell
    <3>2. Expiring(t, key, p)'
      <4>1. pc'[t] = "expire" /\ UNCHANGED call
        BY <2>1 DEF Go, TypeOK
      <4> QED BY <1>0, <4>1 DEF Expiring
    <3> QED BY <1>3, <2>1, <3>1, <3>2
  <2>2. CASE SAdd(key, p) /\ Leak(key, p)
    <3>1. Same(set', set, key, p)
      BY <1>1, <2>2, SAddCell
    <3> QED BY <1>3, <2>2, <3>1, LeakKnown
  <2>3. CASE UNCHANGED <<set, leaked>>
    BY <1>4, <2>3, DueStill DEF Add
  <2> QED BY <1>0, <1>4, <2>1, <2>2, <2>3 DEF Add
<1>5. CASE SetExpiry(t)
  <2>1. \/ ExpireMember(key, p) /\ leaked' = leaked \ {<<key, p>>}
        \/ UNCHANGED set /\ Leak(key, p)
    BY <1>0, <1>5 DEF SetExpiry
  <2> QED BY <1>1, <1>3, <2>1, ExpireMemberCell, LeakKnown
<1>6. CASE Remove(t)
  <2>1. \/ set' = [set EXCEPT ![key][p] = Absent] /\ leaked' = leaked \ ({key} \X {p})
        \/ UNCHANGED <<set, leaked>>
    BY <1>0, <1>6 DEF Remove, Gone
  <2>2. CASE UNCHANGED <<set, leaked>>
    BY <1>6, <2>2, DueStill DEF Remove
  <2>3. CASE set' = [set EXCEPT ![key][p] = Absent] /\ leaked' = leaked \ ({key} \X {p})
    <3>1. {key} \X {p} = {<<key, p>>}
      BY SMTT(60)
    <3> QED BY <1>1, <1>3, <2>3, <3>1, RemovalCell
  <2> QED BY <2>1, <2>2, <2>3
<1> QED BY <1>4, <1>5, <1>6

\* The commands of a graduation.
LEMMA GradDue ==
    ASSUME TypeOK, Stages, ExpiryDue, NEW t \in Thread, Others(t),
           Move(t) \/ GradAdd(t) \/ GradExpire(t)
    PROVE  ExpiryDue'
<1>0. PICK from \in Key, to \in Key, p \in Peer :
         /\ from = keyOf(call[t], "leechers") /\ to = keyOf(call[t], "seeders") /\ from # to
         /\ p = call[t].p
  BY WriteCall, CallKeys DEF Write
<1>1. from # to /\ SetType
  BY <1>0, TypesSplit DEF ServerType
<1>2. pc[t] # "expire" /\ Mine(t, to, p)
  BY DEF Mine, Expiring, Move, GradAdd, GradExpire
<1>3. ASSUME UNCHANGED <<set, leaked>> PROVE ExpiryDue'
  BY <1>2, <1>3, DueStill
<1>4. ASSUME Rest(to, p), set'[to][p] = NoEnd => <<to, p>> \in leaked' PROVE ExpiryDue'
  <2>1. DueAt(to, p)'
    BY <1>4 DEF DueAt
  <2> QED BY <1>2, <1>4, <2>1, DueFrame
<1>5. CASE GradAdd(t)
  <2>1. (SAdd(to, p) /\ Leak(to, p)) \/ UNCHANGED <<set, leaked>>
    BY <1>0, <1>5 DEF GradAdd
  <2>2. ASSUME SAdd(to, p), Leak(to, p) PROVE Rest(to, p)
    BY <1>1, <2>2, SAddCell, LeakKnown, RestCell
  <2> QED BY <1>3, <1>4, <2>1, <2>2, LeakKnown
<1>6. CASE GradExpire(t)
  <2>1. (ExpireMember(to, p) /\ leaked' = leaked \ {<<to, p>>}) \/ UNCHANGED <<set, leaked>>
    BY <1>0, <1>6 DEF GradExpire
  <2>2. ASSUME ExpireMember(to, p), leaked' = leaked \ {<<to, p>>}
        PROVE  Rest(to, p) /\ set'[to][p] # NoEnd
    BY <1>1, <2>2, ExpireMemberCell, RestCell
  <2> QED BY <1>3, <1>4, <2>1, <2>2
<1>7. CASE Move(t)
  <2> DEFINE moved == p \in Members(from)
  <2>1. \/ /\ IF moved THEN SMove(from, to, p) ELSE UNCHANGED set
           /\ leaked' = (leaked \ {<<from, p>>})
                           \cup (IF moved /\ set'[to][p] = NoEnd THEN {<<to, p>>} ELSE {})
        \/ UNCHANGED <<set, leaked>>
    BY <1>0, <1>7 DEF Move
  <2>2. moved <=> set[from][p] # Absent
    BY <1>1 DEF Members
  <2> HIDE DEF moved
  <2>3. ASSUME moved, SMove(from, to, p),
               leaked' = (leaked \ {<<from, p>>})
                            \cup (IF set'[to][p] = NoEnd THEN {<<to, p>>} ELSE {})
        PROVE  ExpiryDue'
    <3>1. set'[from][p] = Absent /\ Moving(from, to, p)
      BY <1>1, <2>2, <2>3, SMoveCells
    <3>2. set'[from][p] # NoEnd
      BY <3>1, Cells
    <3>3. ASSUME NEW k \in Key, NEW q \in Peer, <<k, q>> # <<to, p>>, set'[k][q] = NoEnd
          PROVE  set[k][q] = NoEnd /\ (<<k, q>> \in leaked => <<k, q>> \in leaked')
      <4>1. <<k, q>> # <<from, p>>
        BY <3>2, <3>3
      <4> QED BY <2>3, <3>1, <3>3, <4>1 DEF Moving
    <3>4. Rest(to, p)
      BY <3>3 DEF Rest
    <3> QED BY <1>4, <2>3, <3>4
  <2>4. ASSUME ~moved, UNCHANGED set, leaked' = leaked \ {<<from, p>>} PROVE ExpiryDue'
    <3>1. set'[from][p] # NoEnd
      BY <1>1, <2>2, <2>4, Cells
    <3>2. ASSUME NEW k \in Key, NEW q \in Peer, set'[k][q] = NoEnd, <<k, q>> \in leaked
          PROVE  <<k, q>> \in leaked'
      <4>1. <<k, q>> # <<from, p>>
        BY <3>1, <3>2
      <4> QED BY <2>4, <3>2, <4>1
    <3>3. Rest(to, p)
      BY <2>4, <3>2 DEF Rest
    <3>4. ASSUME set'[to][p] = NoEnd
          PROVE  <<to, p>> \in leaked' \/ \E u \in Thread : Expiring(u, to, p)'
      <4>1. <<to, p>> \in leaked \/ \E u \in Thread : Expiring(u, to, p)
        BY <1>1, <2>4, <3>4 DEF ExpiryDue
      <4>2. ASSUME NEW u \in Thread, Expiring(u, to, p) PROVE Expiring(u, to, p)'
        <5>1. u # t
          BY <1>2, <4>2 DEF Expiring
        <5> QED BY <4>2, <5>1 DEF Others, Expiring
      <4> QED BY <1>1, <3>2, <3>4, <4>1, <4>2
    <3>5. DueAt(to, p)'
      BY <3>4 DEF DueAt
    <3> QED BY <1>2, <3>3, <3>5, DueFrame
  <2> QED BY <1>3, <2>1, <2>3, <2>4
<1> QED BY <1>5, <1>6, <1>7

LEMMA DieDue ==
    ASSUME TypeOK, Stages, ExpiryDue, NEW t \in Thread, Others(t), Die(t)
    PROVE  ExpiryDue'
<1>1. CASE pc[t] # "expire"
  BY <1>1, DueStill DEF Die
<1>2. CASE pc[t] = "expire"
  <2>1. call[t] \in Call /\ call[t].op \in WriteOps
    BY <1>2 DEF TypeOK, Stages, WriteOps
  <2>2. PICK key \in Key, p \in Peer :
           key = keyOf(call[t], kindOf(call[t].op)) /\ p = call[t].p
    BY <2>1, CallKeys
  <2>3. UNCHANGED set /\ Leak(key, p)
    BY <1>2, <2>2 DEF Die
  <2>4. Mine(t, key, p)
    BY <2>2 DEF Mine, Expiring
  <2>5. Rest(key, p)
    BY <2>3, LeakKnown, RestCell
  <2>6. DueAt(key, p)'
    BY <2>3, LeakKnown DEF DueAt
  <2> QED BY <2>4, <2>5, <2>6, DueFrame
<1> QED BY <1>1, <1>2

\* Steps of the server.
LEMMA ServerDue ==
    ASSUME ExpiryDue, UNCHANGED threadVars,
           \A k \in Key, q \in Peer : set'[k][q] = NoEnd =>
              set[k][q] = NoEnd /\ (<<k, q>> \in leaked => <<k, q>> \in leaked')
    PROVE  ExpiryDue'
<1>1. ASSUME NEW k, NEW q, NEW u \in Thread, Expiring(u, k, q) PROVE Expiring(u, k, q)'
  BY <1>1 DEF Expiring
<1> QED BY <1>1 DEF ExpiryDue

LEMMA DueStep == ASSUME SettledInv, ExpiryDue, [Next]_vars, CountingLaws PROVE ExpiryDue'
<1>1. TypeOK /\ Stages /\ Staying /\ AllSettled /\ SetType /\ ThreadTypes
  BY TypesSplit DEF SettledInv, ServerType
<1>2. ASSUME NEW t \in Thread, Write(t) PROVE ExpiryDue'
  <2>1. Others(t)
    BY <1>1, <1>2, WriteThread, Returns, GoOn
  <2>2. CASE Count(t)
    BY <2>1, <2>2, DueStill DEF Count
  <2> QED BY <1>1, <1>2, <2>1, <2>2, PutDue, GradDue DEF Write
<1>3. ASSUME NEW t \in Thread, RandMember(t) PROVE ExpiryDue'
  <2>1. UNCHANGED <<set, leaked>> /\ pc[t] = "srandmember"
    BY <1>3, AskCases
  <2>2. Others(t)
    BY <1>1, <1>3, AskSettled
  <2> QED BY <2>1, <2>2, DueStill
<1>4. ASSUME NEW t \in Thread, Die(t) PROVE ExpiryDue'
  <2>1. Others(t)
    BY <1>1, <1>4, Returns DEF Die, Results
  <2> QED BY <1>1, <1>4, <2>1, DieDue
<1>5. ASSUME NEW t \in Thread, NEW c \in Call, Begin(t, c) PROVE ExpiryDue'
  <2>1. Others(t)
    BY <1>1, <1>5 DEF Begin, ThreadTypes, Others
  <2>2. UNCHANGED <<set, leaked>> /\ pc[t] = "idle"
    BY <1>5 DEF Begin
  <2> QED BY <2>1, <2>2, DueStill
<1>6. ASSUME NEW key \in Key, NEW p \in Peer, Expire(key, p) PROVE ExpiryDue'
  <2>1. Same(set', set, key, p) /\ set'[key][p] # NoEnd
    BY <1>1, <1>6, RemovalCell DEF Expire
  <2>2. leaked' = leaked \ {<<key, p>>}
    <3>1. {key} \X {p} = {<<key, p>>}
      BY SMTT(60)
    <3> QED BY <1>6, <3>1 DEF Expire, Gone
  <2>3. ASSUME NEW k \in Key, NEW q \in Peer, set'[k][q] = NoEnd
        PROVE  set[k][q] = NoEnd /\ (<<k, q>> \in leaked => <<k, q>> \in leaked')
    <3>1. <<k, q>> # <<key, p>>
      BY <2>1, <2>3
    <3> QED BY <2>1, <2>2, <2>3, <3>1 DEF Same
  <2>4. UNCHANGED threadVars
    BY <1>6 DEF Expire
  <2> QED BY <2>3, <2>4, ServerDue
<1>7. ASSUME Tick PROVE ExpiryDue'
  <2>1. ASSUME NEW k \in Key, NEW q \in Peer, set'[k][q] = NoEnd PROVE set[k][q] = NoEnd
    <3>1. set'[k][q] = IF set[k][q] \in 1 .. peerTTL THEN set[k][q] - 1 ELSE set[k][q]
      BY <1>7 DEF Tick
    <3> QED BY <2>1, <3>1, Cells
  <2>2. UNCHANGED threadVars /\ UNCHANGED leaked
    BY <1>7 DEF Tick
  <2> QED BY <2>1, <2>2, ServerDue
<1>8. ASSUME Close \/ UNCHANGED vars PROVE ExpiryDue'
  <2>1. UNCHANGED threadVars /\ UNCHANGED <<set, leaked>>
    BY <1>8 DEF Close, vars
  <2> QED BY <2>1, ServerDue
<1> QED BY <1>2, <1>3, <1>4, <1>5, <1>6, <1>7, <1>8, NextCases

----------------------------------------------------------------------------
(* Theorems.                                                               *)

LEMMA InvInit == ASSUME CountingLaws, Init PROVE SettledInv
<1>1. SetType
  BY Cells DEF Init, SetType
<1>2. ServerType
  <2>1. 0 \in Nat
    BY SMTT(60)
  <2> QED BY <1>1, <2>1 DEF Init, ServerType
<1>3. OtherTypes
  <2>1. 0 \in 0 .. MaxCalls /\ 0 \in 0 .. MaxFails
    BY SMTT(60), KeyDBAssumption
  <2> QED BY <2>1 DEF Init, OtherTypes
<1>4. ThreadTypes
  <2>1. <<>> \in Seq(Key) /\ Len(<<>>) <= 2
    BY SMTT(60)
  <2>2. asked \in [Thread -> Seq(Key)] /\ \A t \in Thread : asked[t] = <<>>
    BY <2>1 DEF Init
  <2>3. \A t \in Thread : Len(asked[t]) <= 2
    BY <2>1, <2>2
  <2> QED BY <2>2, <2>3, NoCallType DEF Init, ThreadTypes, PCs, Results
<1>5. Stages /\ Staying /\ AllSettled
  BY DEF Init, Stages, Staying, AllSettled, Settled
<1> QED BY <1>2, <1>3, <1>4, <1>5, TypesSplit DEF SettledInv

INSTANCE FiniteSetTheorems

LEMMA Counted == CountingLaws
<1>1. IsFiniteSet(Peer)
  BY KeyDBAssumption
<1>2. \A S \in SUBSET Peer : IsFiniteSet(S) /\ Cardinality(S) \in Nat
  BY <1>1, FS_Subset, FS_CardinalityType
<1>3. ASSUME NEW l PROVE \A A \in SUBSET ({l} \X Peer) : IsFiniteSet(A) /\ Cardinality(A) \in Nat
  <2>1. IsFiniteSet({l} \X Peer)
    BY <1>1, FS_Singleton, FS_Product
  <2> QED BY <2>1, FS_Subset, FS_CardinalityType
<1>4. ASSUME NEW k \in Key, NEW l \in Key, k # l, NEW S \in SUBSET Peer,
             NEW A \in SUBSET ({l} \X Peer)
      PROVE  Cardinality(A \cup ({k} \X S)) = Cardinality(A) + Cardinality(S)
  <2> DEFINE B == {k} \X S
  <2>1. IsFiniteSet(A) /\ Cardinality(A) \in Nat /\ IsFiniteSet(S) /\ Cardinality(S) \in Nat
    BY <1>2, <1>3
  <2>2. IsFiniteSet({k}) /\ Cardinality({k}) = 1
    BY FS_Singleton
  <2>3. IsFiniteSet(B) /\ Cardinality(B) = 1 * Cardinality(S)
    BY <2>1, <2>2, FS_Product
  <2>4. A \cap B = {}
    BY SMTT(60), <1>4
  <2>5. Cardinality({}) = 0
    BY FS_EmptySet
  <2> HIDE DEF B
  <2>6. Cardinality(A \cup B) = Cardinality(A) + Cardinality(B) - Cardinality(A \cap B)
    BY <2>1, <2>3, FS_Union
  <2>7. Cardinality(A \cup B) = Cardinality(A) + Cardinality(B) - 0
    BY <2>4, <2>5, <2>6
  <2> DEFINE n == Cardinality(A)
             m == Cardinality(B)
             d == Cardinality(S)
             all == Cardinality(A \cup B)
  <2>8. n \in Nat /\ m = 1 * d /\ d \in Nat /\ all = n + m - 0
    BY <2>1, <2>3, <2>7
  <2>9. all = n + d
    <3> HIDE DEF n, m, d, all
    <3> QED BY SMTT(60), <2>8
  <2> QED BY <2>9 DEF B
<1>5. ASSUME NEW S \in SUBSET Peer, NEW T \in SUBSET S, Cardinality(T) = Cardinality(S)
      PROVE  T = S
  BY <1>2, <1>5, FS_Subset
<1> QED BY <1>2, <1>3, <1>4, <1>5, FS_EmptySet DEF CountingLaws, AddLaw

LEMMA AnnounceInvariant == Spec => []AnnounceInv
<1>1. Init => SettledInv
  BY InvInit, Counted
<1>2. SettledInv /\ [Next]_vars => SettledInv'
  BY InvStep, Counted
<1>3. SettledInv => AnnounceInv
  BY SettledIff DEF SettledInv, AnnounceInv
<1> QED BY <1>1, <1>2, <1>3, PTL DEF Spec

\* The variables keep their types: no member ever has more than its lifetime
\* left but those that are never to expire, and an announce never has more
\* than two keys to ask.
THEOREM TypeCorrect == Spec => []TypeOK
<1>1. AnnounceInv => TypeOK
  BY DEF AnnounceInv
<1> QED BY <1>1, AnnounceInvariant, PTL

\* AnnouncePeers answers with at most numWant peers over both of its keys, and
\* a short answer without an error leaves out no peer that stayed in a key
\* asked while the call ran, whatever members are put, moved, deleted or
\* expired in between.
THEOREM AnnounceAnswerCorrect == Spec => []AnnounceAnswer
<1>1. AnnounceInv => AnnounceAnswer
  BY DEF AnnounceInv
<1> QED BY <1>1, AnnounceInvariant, PTL

\* A member that is never to expire is one that graduated, or whose call failed
\* or died between SADD and EXPIREMEMBER, unless its EXPIREMEMBER is on its
\* way: what PeersExpire needs of every interleaving of the commands.
THEOREM ExpiryDueCorrect == Spec => []ExpiryDue
<1>1. Init => SettledInv /\ ExpiryDue
  <2>1. Init => ExpiryDue
    <3>1. Init => set = [key \in Key |-> [p \in Peer |-> Absent]]
      BY DEF Init
    <3>2. Init => \A key \in Key, p \in Peer : set[key][p] = Absent
      BY <3>1
    <3> QED BY <3>2, Cells DEF ExpiryDue
  <2> QED BY <2>1, InvInit, Counted
<1>2. SettledInv /\ [Next]_vars => SettledInv'
  BY InvStep, Counted
<1>3. SettledInv /\ ExpiryDue /\ [Next]_vars => ExpiryDue'
  BY DueStep, Counted
<1> QED BY <1>1, <1>2, <1>3, PTL DEF Spec
====
