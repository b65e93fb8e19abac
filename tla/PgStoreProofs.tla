---------------------------- MODULE PgStoreProofs ----------------------------
(***************************************************************************)
(* Theorems about PgStore, for any number of goroutines, info hashes and   *)
(* peers, and whatever statements fail and goroutines die.                 *)
(***************************************************************************)
EXTENDS PgStore, TLAPS

USE ZenonT(60) DEF tableVars, threadVars, readVars, gcVars

PCs == {"idle", "put", "delete", "update", "increment", "commit", "seeders",
        "leechers", "count", "downloads"}

\* Where a step of Next comes from.
LEMMA NextCases ==
    ASSUME NEW P, [Next]_vars,
           Tick => P,
           \A t \in Thread : Put(t) => P,
           \A t \in Thread : Delete(t) => P,
           \A t \in Thread : Update(t) => P,
           \A t \in Thread : Increment(t) => P,
           \A t \in Thread : Commit(t) => P,
           \A t \in Thread : Announce(t) => P,
           \A t \in Thread : Count(t) => P,
           \A t \in Thread : GetDownloads(t) => P,
           \A t \in Thread : Die(t) => P,
           \A t \in Thread : pc[t] \in {"increment", "commit"} /\ Rollback(t) => P,
           \A t \in Thread, c \in Call : Begin(t, c) => P,
           GCFire => P, GCDelete => P, GCExit => P,
           Close => P, PoolShut => P, PoolClose => P,
           UNCHANGED vars => P
    PROVE  P
BY DEF Next, ThreadStep

----------------------------------------------------------------------------
(* Calls.                                                                  *)

LEMMA CallFields ==
    ASSUME NEW c \in Call
    PROVE  /\ c.op \in WriteOps \cup {"AnnouncePeers", "ScrapeSwarm"} /\ c.ih \in InfoHash
           /\ c.op \in WriteOps => c.p \in Peer
           /\ c.op = "AnnouncePeers" => /\ c.forSeeder \in BOOLEAN /\ c.v6 \in BOOLEAN
                                        /\ c.numWant \in Nat
<1>1. c \in CallType
  BY PgAssumption
<1>2. CASE c \in [op : WriteOps, ih : InfoHash, p : Peer]
  BY <1>2 DEF WriteOps
<1>3. CASE c \in [op : {"AnnouncePeers"}, ih : InfoHash, forSeeder : BOOLEAN,
                  numWant : Nat, v6 : BOOLEAN]
  BY <1>3 DEF WriteOps
<1>4. CASE c \in [op : {"ScrapeSwarm"}, ih : InfoHash]
  BY <1>4 DEF WriteOps
<1> QED BY <1>1, <1>2, <1>3, <1>4 DEF CallType

\* The first step of a call.
First(c) ==
    CASE c.op \in {"PutSeeder", "PutLeecher"} -> "put"
      [] c.op \in {"DeleteSeeder", "DeleteLeecher"} -> "delete"
      [] c.op = "GraduateLeecher" -> "update"
      [] c.op = "AnnouncePeers" -> IF c.forSeeder THEN "leechers" ELSE "seeders"
      [] c.op = "ScrapeSwarm" -> "count"

LEMMA Firsts ==
    ASSUME NEW c \in Call
    PROVE  /\ First(c) \in PCs \ {"idle", "increment", "commit", "downloads"}
           /\ First(c) = "put" => c.op \in {"PutSeeder", "PutLeecher"}
           /\ First(c) = "delete" => c.op \in {"DeleteSeeder", "DeleteLeecher"}
           /\ First(c) = "update" => c.op = "GraduateLeecher"
           /\ First(c) \in {"seeders", "leechers"} => c.op = "AnnouncePeers"
           /\ First(c) = "leechers" => c.forSeeder
           /\ First(c) = "count" => c.op = "ScrapeSwarm"
BY CallFields DEF First, WriteOps, PCs

LEMMA NoCallType == NoCall \in Call
BY PgAssumption DEF NoCall

\* A thread goes on with its call ...
LEMMA GoOn ==
    ASSUME TypeOK, NEW t \in Thread, NEW w \in PCs, Go(t, w)
    PROVE  /\ pc' \in [Thread -> PCs] /\ pc'[t] = w
           /\ \A u \in Thread : u # t => pc'[u] = pc[u]
           /\ call' \in [Thread -> Call] /\ since' \in [Thread -> 0 .. MaxTime]
           /\ UNCHANGED call
BY DEF Go, TypeOK, PCs

\* ... begins another ...
LEMMA Begins ==
    ASSUME TypeOK, NEW t \in Thread, NEW c \in Call, Begin(t, c)
    PROVE  /\ pc'[t] = First(c) /\ call'[t] = c
           /\ \A u \in Thread : u # t => pc'[u] = pc[u] /\ call'[u] = call[u]
           /\ pc' \in [Thread -> PCs] /\ call' \in [Thread -> Call]
<1>1. pc' = [pc EXCEPT ![t] = First(c)] /\ call' = [call EXCEPT ![t] = c]
  BY DEF Begin, First
<1>2. First(c) \in PCs
  BY Firsts
<1>3. pc \in [Thread -> PCs] /\ call \in [Thread -> Call]
  BY DEF TypeOK, PCs
<1> QED BY <1>1, <1>2, <1>3

\* ... or returns.
LEMMA Returns ==
    ASSUME TypeOK, NEW t \in Thread, Return(t)
    PROVE  /\ pc' \in [Thread -> PCs] /\ pc'[t] = "idle"
           /\ \A u \in Thread : u # t => pc'[u] = pc[u] /\ call'[u] = call[u]
           /\ call' \in [Thread -> Call] /\ since' \in [Thread -> 0 .. MaxTime]
           /\ call'[t] = IF call[t].op = "AnnouncePeers" THEN call[t] ELSE NoCall
<1>1. pc' \in [Thread -> PCs] /\ pc'[t] = "idle" /\ \A u \in Thread : u # t => pc'[u] = pc[u]
  BY DEF Return, TypeOK, PCs
<1>2. /\ call' \in [Thread -> Call] /\ \A u \in Thread : u # t => call'[u] = call[u]
      /\ call'[t] = IF call[t].op = "AnnouncePeers" THEN call[t] ELSE NoCall
  BY NoCallType DEF Return, TypeOK
<1>3. 0 \in 0 .. MaxTime
  BY SMTT(60), PgAssumption
<1>4. since' \in [Thread -> 0 .. MaxTime]
  BY <1>3 DEF Return, TypeOK
<1> QED BY <1>1, <1>2, <1>4

LEMMA FailCounted ==
    ASSUME TypeOK, UNCHANGED fails \/ Fail \/ Done \/ Failed
    PROVE  fails' \in 0 .. MaxFails
BY SMTT(60), PgAssumption DEF TypeOK, Fail, Done, Failed

----------------------------------------------------------------------------
(* Types.                                                                  *)

TableTypes ==
    /\ role \in [InfoHash -> [Peer -> Role \cup {"none"}]]
    /\ created \in [InfoHash -> [Peer -> 0 .. MaxTime]]
    /\ downloads \in [InfoHash -> Nat] /\ graduated \in [InfoHash -> Nat]

ThreadTypes ==
    /\ pc \in [Thread -> PCs] /\ call \in [Thread -> Call]
    /\ since \in [Thread -> 0 .. MaxTime]
    /\ changed \in [Thread -> SUBSET Peer]
    /\ \A t \in Thread : changed[t] # {} => pc[t] \in {"increment", "commit"}

ReadTypes ==
    /\ out \in [Thread -> SUBSET (Role \X Peer)] /\ full \in [Thread -> BOOLEAN]
    /\ stayed \in [Thread -> SUBSET (Role \X Peer)]
    /\ snatched \in [Thread -> Nat] /\ shown \in [Thread -> Nat]

OtherTypes ==
    /\ now \in 0 .. MaxTime /\ begun \in 0 .. MaxCalls /\ fails \in 0 .. MaxFails
    /\ gcPc \in {"select", "delete", "exited"} /\ gcCutoff \in -PeerLifetime .. MaxTime
    /\ pool \in {"open", "closing", "shut", "closed"}

LEMMA TypesSplit == TypeOK <=> TableTypes /\ ThreadTypes /\ ReadTypes /\ OtherTypes
BY DEF TypeOK, TableTypes, ThreadTypes, ReadTypes, OtherTypes, PCs

LEMMA TypesSplitNext ==
    ASSUME TableTypes', ThreadTypes', ReadTypes', OtherTypes' PROVE TypeOK'
BY DEF TypeOK, TableTypes, ThreadTypes, ReadTypes, OtherTypes, PCs

\* The cells of the tables.
LEMMA RoleCell ==
    ASSUME TypeOK, NEW ih, NEW p, NEW r \in Role \cup {"none"}
    PROVE  [role EXCEPT ![ih][p] = r] \in [InfoHash -> [Peer -> Role \cup {"none"}]]
<1>1. role \in [InfoHash -> [Peer -> Role \cup {"none"}]]
  BY DEF TypeOK
<1> QED BY <1>1

LEMMA CreatedCell ==
    ASSUME TypeOK, NEW ih, NEW p, NEW m \in 0 .. MaxTime
    PROVE  [created EXCEPT ![ih][p] = m] \in [InfoHash -> [Peer -> 0 .. MaxTime]]
<1>1. created \in [InfoHash -> [Peer -> 0 .. MaxTime]]
  BY DEF TypeOK
<1> QED BY <1>1

\* What SetRoles leaves of the peers that stayed.
LEMMA RolesSet ==
    ASSUME TypeOK, NEW new, SetRoles(new)
    PROVE  /\ role' = new
           /\ stayed' \in [Thread -> SUBSET (Role \X Peer)]
           /\ \A u \in Thread : /\ stayed'[u] \subseteq stayed[u]
                                /\ \A x \in stayed'[u] : role'[call[u].ih][x[2]] = x[1]
BY DEF SetRoles, TypeOK

\* Steps that only a thread and the read variables it has take part in.
LEMMA ThreadMoves ==
    ASSUME TypeOK, NEW t \in Thread, Return(t) \/ \E w \in PCs : Go(t, w),
           UNCHANGED changed, changed[t] = {}
    PROVE  ThreadTypes'
<1>1. /\ pc' \in [Thread -> PCs] /\ \A u \in Thread : u # t => pc'[u] = pc[u]
      /\ call' \in [Thread -> Call] /\ since' \in [Thread -> 0 .. MaxTime]
  BY Returns, GoOn
<1>2. changed \in [Thread -> SUBSET Peer]
      /\ \A u \in Thread : changed[u] # {} => pc[u] \in {"increment", "commit"}
  BY DEF TypeOK
<1> QED BY <1>1, <1>2 DEF ThreadTypes

LEMMA PutType == ASSUME TypeOK, Stages, NEW t \in Thread, Put(t) PROVE TypeOK'
<1>1. call[t] \in Call /\ call[t].ih \in InfoHash /\ call[t].p \in Peer
  BY CallFields DEF TypeOK, Put, Stages, WriteOps
<1>2. roleOf(call[t].op) \in Role
  BY DEF roleOf, Role
<1>3. \A m \in since[t] .. now : m \in 0 .. MaxTime
  BY SMTT(60), PgAssumption DEF TypeOK
<1>4. role' \in [InfoHash -> [Peer -> Role \cup {"none"}]]
      /\ stayed' \in [Thread -> SUBSET (Role \X Peer)]
  <2>1. CASE SetRoles([role EXCEPT ![call[t].ih][call[t].p] = roleOf(call[t].op)])
    <3>1. [role EXCEPT ![call[t].ih][call[t].p] = roleOf(call[t].op)]
             \in [InfoHash -> [Peer -> Role \cup {"none"}]]
      BY <1>2, RoleCell
    <3> QED BY <2>1, <3>1, RolesSet
  <2>2. CASE UNCHANGED <<role, stayed>>
    BY <2>2 DEF TypeOK
  <2> QED BY <2>1, <2>2 DEF Put
<1>5. created' \in [InfoHash -> [Peer -> 0 .. MaxTime]]
  <2>1. CASE \E m \in since[t] .. now : created' = [created EXCEPT ![call[t].ih][call[t].p] = m]
    <3>1. PICK m \in 0 .. MaxTime : created' = [created EXCEPT ![call[t].ih][call[t].p] = m]
      BY <1>3, <2>1
    <3> QED BY <3>1, CreatedCell
  <2>2. CASE UNCHANGED created
    BY <2>2 DEF TypeOK
  <2> QED BY <2>1, <2>2 DEF Put
<1>6. fails' \in 0 .. MaxFails
  BY FailCounted DEF Put
<1>7. changed[t] = {}
  BY DEF Put, TypeOK
<1>8. ThreadTypes'
  BY <1>7, ThreadMoves DEF Put
<1>9. TableTypes' /\ ReadTypes' /\ OtherTypes'
  BY <1>4, <1>5, <1>6, TypesSplit DEF Put, TableTypes, ReadTypes, OtherTypes
<1> QED BY <1>8, <1>9, TypesSplitNext

LEMMA DeleteType == ASSUME TypeOK, Stages, NEW t \in Thread, Delete(t) PROVE TypeOK'
<1>1. role' \in [InfoHash -> [Peer -> Role \cup {"none"}]]
      /\ stayed' \in [Thread -> SUBSET (Role \X Peer)]
  <2>1. CASE SetRoles([role EXCEPT ![call[t].ih][call[t].p] = "none"])
    <3>1. [role EXCEPT ![call[t].ih][call[t].p] = "none"]
             \in [InfoHash -> [Peer -> Role \cup {"none"}]]
      BY RoleCell
    <3> QED BY <2>1, <3>1, RolesSet
  <2>2. CASE SetRoles(role)
    <3>1. role \in [InfoHash -> [Peer -> Role \cup {"none"}]]
      BY DEF TypeOK
    <3> QED BY <2>2, <3>1, RolesSet
  <2>3. CASE UNCHANGED <<role, stayed>>
    BY <2>3 DEF TypeOK
  <2> QED BY <2>1, <2>2, <2>3 DEF Delete
<1>2. created' \in [InfoHash -> [Peer -> 0 .. MaxTime]]
  <2>1. 0 \in 0 .. MaxTime
    BY SMTT(60), PgAssumption
  <2>2. CASE created' = [created EXCEPT ![call[t].ih][call[t].p] = 0]
    BY <2>1, <2>2, CreatedCell
  <2>3. CASE UNCHANGED created
    BY <2>3 DEF TypeOK
  <2> QED BY <2>2, <2>3 DEF Delete
<1>3. fails' \in 0 .. MaxFails
  BY FailCounted DEF Delete
<1>4. changed[t] = {}
  BY DEF Delete, TypeOK
<1>5. ThreadTypes'
  BY <1>4, ThreadMoves DEF Delete
<1>6. TableTypes' /\ ReadTypes' /\ OtherTypes'
  BY <1>1, <1>2, <1>3, TypesSplit DEF Delete, TableTypes, ReadTypes, OtherTypes
<1> QED BY <1>5, <1>6, TypesSplitNext

LEMMA BeginType ==
    ASSUME TypeOK, NEW t \in Thread, NEW c \in Call, Begin(t, c) PROVE TypeOK'
<1>1. begun' \in 0 .. MaxCalls
  BY SMTT(60), PgAssumption DEF TypeOK, Begin
<1>3. changed[t] = {}
  BY DEF Begin, TypeOK
<1>4. ThreadTypes'
  <2>1. /\ pc' \in [Thread -> PCs] /\ \A u \in Thread : u # t => pc'[u] = pc[u]
        /\ call' \in [Thread -> Call]
    BY Begins
  <2>2. since' \in [Thread -> 0 .. MaxTime]
    BY DEF Begin, TypeOK
  <2>3. UNCHANGED changed /\ changed \in [Thread -> SUBSET Peer]
        /\ \A u \in Thread : changed[u] # {} => pc[u] \in {"increment", "commit"}
    BY DEF Begin, TypeOK
  <2> QED BY <1>3, <2>1, <2>2, <2>3 DEF ThreadTypes
<1>5. PICK S \in SUBSET (Role \X Peer) : stayed' = [stayed EXCEPT ![t] = S]
  <2>1. \A r, v : Rows(c.ih, r, v) \subseteq Peer
    BY DEF Rows
  <2> QED BY <2>1 DEF Begin, Role
<1>6. 0 \in Nat
  BY SMTT(60)
<1>7. ReadTypes'
  BY <1>5, <1>6 DEF Begin, TypeOK, ReadTypes
<1>8. TableTypes' /\ OtherTypes'
  BY <1>1, TypesSplit DEF Begin, TableTypes, OtherTypes
<1> QED BY <1>4, <1>7, <1>8, TypesSplitNext

LEMMA UpdateType == ASSUME TypeOK, NEW t \in Thread, Update(t) PROVE TypeOK'
<1>1. fails' \in 0 .. MaxFails
  BY FailCounted DEF Update
<1>2. changed[t] = {}
  BY DEF Update, TypeOK
<1>3. ThreadTypes'
  <2>1. CASE changed' = [changed EXCEPT ![t] = Graduates(call[t])] /\ Go(t, "increment")
    <3>1. /\ pc' \in [Thread -> PCs] /\ \A u \in Thread : u # t => pc'[u] = pc[u]
          /\ call' \in [Thread -> Call] /\ since' \in [Thread -> 0 .. MaxTime]
          /\ pc'[t] = "increment"
      BY <2>1, GoOn DEF PCs
    <3>2. Graduates(call[t]) \in SUBSET Peer
      BY DEF Graduates
    <3>3. /\ changed' \in [Thread -> SUBSET Peer]
          /\ \A u \in Thread : u # t => changed'[u] = changed[u]
      BY <2>1, <3>2 DEF TypeOK
    <3>4. \A u \in Thread : changed[u] # {} => pc[u] \in {"increment", "commit"}
      BY DEF TypeOK
    <3> QED BY <3>1, <3>3, <3>4 DEF ThreadTypes
  <2>2. CASE Return(t) /\ UNCHANGED changed
    BY <1>2, <2>2, ThreadMoves
  <2> QED BY <2>1, <2>2 DEF Update
<1>4. TableTypes' /\ ReadTypes' /\ OtherTypes'
  BY <1>1, TypesSplit DEF Update, TableTypes, ReadTypes, OtherTypes
<1> QED BY <1>3, <1>4, TypesSplitNext

\* A transaction ends, or the goroutine with whatever it did.
LEMMA EndTypes ==
    ASSUME TypeOK, NEW t \in Thread, Return(t), changed' = [changed EXCEPT ![t] = {}]
    PROVE  ThreadTypes'
<1>1. /\ pc' \in [Thread -> PCs] /\ \A u \in Thread : u # t => pc'[u] = pc[u]
      /\ call' \in [Thread -> Call] /\ since' \in [Thread -> 0 .. MaxTime]
  BY Returns
<1>2. /\ changed' \in [Thread -> SUBSET Peer] /\ changed'[t] = {}
      /\ \A u \in Thread : u # t => changed'[u] = changed[u]
  BY DEF TypeOK
<1>3. \A u \in Thread : changed[u] # {} => pc[u] \in {"increment", "commit"}
  BY DEF TypeOK
<1> QED BY <1>1, <1>2, <1>3 DEF ThreadTypes

LEMMA CommitType == ASSUME TypeOK, NEW t \in Thread, Commit(t) PROVE TypeOK'
<1>1. ThreadTypes'
  BY EndTypes DEF Commit
<1>2. fails' \in 0 .. MaxFails
  BY FailCounted DEF Commit
<1>3. call[t].ih \in InfoHash
  BY CallFields DEF TypeOK
<1>4. downloads' \in [InfoHash -> Nat] /\ graduated' \in [InfoHash -> Nat]
  <2>1. PICK d \in {0, 1} :
           graduated' = [graduated EXCEPT ![call[t].ih] = graduated[call[t].ih] + d]
    BY DEF Commit
  <2>2. downloads[call[t].ih] + 1 \in Nat /\ graduated[call[t].ih] + d \in Nat
    BY SMTT(60), <1>3, <2>1 DEF TypeOK
  <2>3. downloads \in [InfoHash -> Nat] /\ graduated \in [InfoHash -> Nat]
    BY DEF TypeOK
  <2>4. downloads' = [downloads EXCEPT ![call[t].ih] = downloads[call[t].ih] + 1]
    BY DEF Commit
  <2> QED BY <2>1, <2>2, <2>3, <2>4
<1>5. role' \in [InfoHash -> [Peer -> Role \cup {"none"}]]
      /\ stayed' \in [Thread -> SUBSET (Role \X Peer)] /\ UNCHANGED created
  <2> DEFINE row == [p \in Peer |-> IF p \in changed[t] THEN "seeder" ELSE role[call[t].ih][p]]
  <2>1. row \in [Peer -> Role \cup {"none"}]
    <3>1. role[call[t].ih] \in [Peer -> Role \cup {"none"}] /\ "seeder" \in Role
      BY <1>3 DEF TypeOK, Role
    <3> QED BY <3>1
  <2>2. SetRoles([role EXCEPT ![call[t].ih] = row]) /\ UNCHANGED created
    BY DEF Commit
  <2> HIDE DEF row
  <2>3. [role EXCEPT ![call[t].ih] = row] \in [InfoHash -> [Peer -> Role \cup {"none"}]]
    BY <2>1 DEF TypeOK
  <2> QED BY <2>2, <2>3, RolesSet
<1>6. TableTypes' /\ ReadTypes' /\ OtherTypes'
  BY <1>2, <1>4, <1>5, TypesSplit DEF Commit, TableTypes, ReadTypes, OtherTypes
<1> QED BY <1>1, <1>6, TypesSplitNext

LEMMA EndType ==
    ASSUME TypeOK, NEW t \in Thread,
           Die(t) \/ (pc[t] \in {"increment", "commit"} /\ Rollback(t))
    PROVE  TypeOK'
<1>1. ThreadTypes'
  BY EndTypes DEF Die, Rollback
<1>2. fails' \in 0 .. MaxFails
  BY FailCounted DEF Die, Rollback
<1>3. 0 \in Nat
  BY SMTT(60)
<1>4. ReadTypes'
  <2>1. ReadTypes
    BY TypesSplit
  <2>2. CASE Die(t)
    BY <1>3, <2>1, <2>2 DEF Die, ReadTypes
  <2>3. CASE Rollback(t)
    BY <2>1, <2>3 DEF Rollback, ReadTypes
  <2> QED BY <2>2, <2>3
<1>5. TableTypes' /\ OtherTypes'
  BY <1>2, TypesSplit DEF Die, Rollback, TableTypes, OtherTypes
<1> QED BY <1>1, <1>4, <1>5, TypesSplitNext

LEMMA IncrementType == ASSUME TypeOK, NEW t \in Thread, Increment(t) PROVE TypeOK'
<1>1. /\ pc' \in [Thread -> PCs] /\ \A u \in Thread : u # t => pc'[u] = pc[u]
      /\ call' \in [Thread -> Call] /\ since' \in [Thread -> 0 .. MaxTime]
      /\ pc'[t] = "commit"
  BY GoOn DEF Increment, PCs
<1>2. ThreadTypes'
  BY <1>1 DEF Increment, TypeOK, ThreadTypes
<1>3. TableTypes' /\ ReadTypes' /\ OtherTypes'
  BY TypesSplit DEF Increment, TableTypes, ReadTypes, OtherTypes
<1> QED BY <1>2, <1>3, TypesSplitNext

LEMMA AnnounceType == ASSUME TypeOK, NEW t \in Thread, Announce(t) PROVE TypeOK'
<1>1. PICK r \in Role : Query(t, r) /\ changed[t] = {}
  BY DEF Announce, Role, TypeOK
<1>2. PICK S \in SUBSET Peer : out' = [out EXCEPT ![t] = out[t] \cup ({r} \X S)]
  BY <1>1 DEF Query, Rows
<1>3. full' = full \/ full' = [full EXCEPT ![t] = FALSE]
  BY <1>1 DEF Query
<1>4. Return(t) \/ Go(t, "leechers")
  BY <1>1 DEF Query
<1>5. ThreadTypes'
  BY <1>1, <1>4, ThreadMoves DEF Announce, PCs
<1>6. fails' \in 0 .. MaxFails
  BY <1>1, FailCounted DEF Query
<1>7. out' \in [Thread -> SUBSET (Role \X Peer)]
  <2>1. out[t] \cup ({r} \X S) \in SUBSET (Role \X Peer)
    BY DEF TypeOK
  <2> QED BY <1>2, <2>1 DEF TypeOK
<1>8. full' \in [Thread -> BOOLEAN]
  BY <1>3 DEF TypeOK
<1>9. TableTypes' /\ ReadTypes' /\ OtherTypes'
  BY <1>6, <1>7, <1>8, TypesSplit DEF Announce, TableTypes, ReadTypes, OtherTypes
<1> QED BY <1>5, <1>9, TypesSplitNext

LEMMA ScrapeType ==
    ASSUME TypeOK, NEW t \in Thread, Count(t) \/ GetDownloads(t) PROVE TypeOK'
<1>1. changed[t] = {} /\ UNCHANGED changed
  BY DEF Count, GetDownloads, TypeOK
<1>2. Return(t) \/ Go(t, "downloads")
  BY DEF Count, GetDownloads
<1>3. ThreadTypes'
  BY <1>1, <1>2, ThreadMoves DEF PCs
<1>4. fails' \in 0 .. MaxFails
  BY FailCounted DEF Count, GetDownloads
<1>5. graduated[call[t].ih] \in Nat /\ downloads[call[t].ih] \in Nat
  BY CallFields DEF TypeOK
<1>6. 0 \in Nat
  BY SMTT(60)
<1>7. shown' \in [Thread -> Nat] /\ snatched' \in [Thread -> Nat]
  <2>1. shown \in [Thread -> Nat] /\ snatched \in [Thread -> Nat]
    BY DEF TypeOK
  <2>2. CASE Count(t)
    BY <1>5, <2>1, <2>2 DEF Count
  <2>3. CASE GetDownloads(t)
    BY <1>5, <1>6, <2>1, <2>3 DEF GetDownloads
  <2> QED BY <2>2, <2>3
<1>8. TableTypes' /\ ReadTypes' /\ OtherTypes'
  BY <1>4, <1>7, TypesSplit DEF Count, GetDownloads, TableTypes, ReadTypes, OtherTypes
<1> QED BY <1>3, <1>8, TypesSplitNext

LEMMA GCDeleteType == ASSUME TypeOK, GCDelete PROVE TypeOK'
<1>1. fails' \in 0 .. MaxFails
  BY FailCounted DEF GCDelete
<1>2. /\ role' \in [InfoHash -> [Peer -> Role \cup {"none"}]]
      /\ stayed' \in [Thread -> SUBSET (Role \X Peer)]
      /\ created' \in [InfoHash -> [Peer -> 0 .. MaxTime]]
  <2>1. CASE DeleteStale
    <3> DEFINE new == [ih \in InfoHash |-> [p \in Peer |->
                          IF Stale(ih, p, gcCutoff) THEN "none" ELSE role[ih][p]]]
    <3>1. \A ih \in InfoHash, p \in Peer : role[ih][p] \in Role \cup {"none"}
                                           /\ created[ih][p] \in 0 .. MaxTime
      BY TypesSplit DEF TableTypes
    <3>2. new \in [InfoHash -> [Peer -> Role \cup {"none"}]]
      BY <3>1
    <3>3. SetRoles(new)
      BY <2>1 DEF DeleteStale
    <3>4. 0 \in 0 .. MaxTime
      BY SMTT(60), PgAssumption
    <3>5. created' \in [InfoHash -> [Peer -> 0 .. MaxTime]]
      BY <2>1, <3>1, <3>4 DEF DeleteStale
    <3> HIDE DEF new
    <3> QED BY <3>2, <3>3, <3>5, RolesSet
  <2>2. CASE UNCHANGED <<role, created, stayed>>
    BY <2>2 DEF TypeOK
  <2> QED BY <2>1, <2>2 DEF GCDelete
<1>3. 0 \in -PeerLifetime .. MaxTime
  BY SMTT(60), PgAssumption
<1>4. TableTypes' /\ ReadTypes' /\ OtherTypes' /\ ThreadTypes'
  BY <1>1, <1>2, <1>3, TypesSplit
     DEF GCDelete, TableTypes, ReadTypes, OtherTypes, ThreadTypes
<1> QED BY <1>4, TypesSplitNext

LEMMA QuietType ==
    ASSUME TypeOK,
           Tick \/ GCFire \/ GCExit \/ Close \/ PoolShut \/ PoolClose \/ UNCHANGED vars
    PROVE  TypeOK'
<1>1. UNCHANGED <<tableVars, threadVars, readVars, stayed>>
  BY DEF Tick, GCFire, GCExit, Close, PoolShut, PoolClose, vars
<1>2. OtherTypes'
  <2>1. CASE Tick
    <3>1. now' \in 0 .. MaxTime
      BY SMTT(60), <2>1, PgAssumption DEF Tick, TypeOK
    <3> QED BY <2>1, <3>1 DEF Tick, TypeOK, OtherTypes
  <2>2. CASE GCFire
    <3>1. gcCutoff' \in -PeerLifetime .. MaxTime
      BY SMTT(60), <2>2, PgAssumption DEF GCFire, TypeOK
    <3> QED BY <2>2, <3>1 DEF GCFire, TypeOK, OtherTypes
  <2>3. CASE GCExit \/ Close \/ PoolShut \/ PoolClose \/ UNCHANGED vars
    BY <2>3 DEF GCExit, Close, PoolShut, PoolClose, vars, TypeOK, OtherTypes
  <2> QED BY <2>1, <2>2, <2>3
<1>3. TableTypes' /\ ReadTypes' /\ ThreadTypes'
  BY <1>1, TypesSplit DEF TableTypes, ReadTypes, ThreadTypes
<1> QED BY <1>2, <1>3, TypesSplitNext

LEMMA TypeStep == ASSUME TypeOK, Stages, [Next]_vars PROVE TypeOK'
BY NextCases, PutType, DeleteType, BeginType, UpdateType, CommitType, EndType, IncrementType,
   AnnounceType, ScrapeType, GCDeleteType, QuietType

LEMMA StagesStep == ASSUME TypeOK, Stages, [Next]_vars PROVE Stages'
<1>1. ASSUME UNCHANGED <<pc, call>> PROVE Stages'
  BY <1>1 DEF Stages
<1>2. ASSUME NEW t \in Thread, Return(t) PROVE Stages'
  <2>1. pc'[t] = "idle" /\ \A u \in Thread : u # t => pc'[u] = pc[u] /\ call'[u] = call[u]
    BY <1>2, Returns
  <2> QED BY <2>1 DEF Stages
<1>3. ASSUME NEW t \in Thread, NEW w \in PCs, Go(t, w),
             \/ pc[t] \in {"update", "increment"} /\ w \in {"increment", "commit"}
             \/ pc[t] = "seeders" /\ w = "leechers"
             \/ pc[t] = "count" /\ w = "downloads"
      PROVE  Stages'
  <2>1. /\ pc'[t] = w /\ UNCHANGED call
        /\ \A u \in Thread : u # t => pc'[u] = pc[u]
    BY <1>3, GoOn
  <2> QED BY <1>3, <2>1 DEF Stages
<1>4. ASSUME NEW t \in Thread, NEW c \in Call, Begin(t, c) PROVE Stages'
  <2>1. /\ pc'[t] = First(c) /\ call'[t] = c
        /\ \A u \in Thread : u # t => pc'[u] = pc[u] /\ call'[u] = call[u]
    BY <1>4, Begins
  <2>2. First(c) \in PCs \ {"increment", "commit", "downloads"}
    BY Firsts
  <2> QED BY <2>1, <2>2, Firsts DEF Stages, PCs
<1>5. ASSUME NEW t \in Thread, Put(t) \/ Delete(t) \/ Commit(t) \/ GetDownloads(t) \/ Die(t)
                               \/ Rollback(t)
      PROVE  Stages'
  BY <1>2, <1>5 DEF Put, Delete, Commit, GetDownloads, Die, Rollback
<1>6. ASSUME NEW t \in Thread, Update(t) PROVE Stages'
  BY <1>2, <1>3, <1>6 DEF Update, PCs
<1>7. ASSUME NEW t \in Thread, Increment(t) PROVE Stages'
  BY <1>3, <1>7 DEF Increment, PCs
<1>8. ASSUME NEW t \in Thread, Count(t) PROVE Stages'
  BY <1>2, <1>3, <1>8 DEF Count, PCs
<1>9. ASSUME NEW t \in Thread, Announce(t) PROVE Stages'
  <2>1. CASE pc[t] = "seeders"
    BY <1>2, <1>3, <1>9, <2>1 DEF Announce, Query, PCs
  <2>2. CASE pc[t] = "leechers" /\ Query(t, "leecher")
    BY <1>2, <2>2 DEF Query
  <2> QED BY <1>9, <2>1, <2>2 DEF Announce
<1>10. Tick \/ GCFire \/ GCDelete \/ GCExit \/ Close \/ PoolShut \/ PoolClose \/ UNCHANGED vars
          => UNCHANGED <<pc, call>>
  BY DEF Tick, GCFire, GCDelete, GCExit, Close, PoolShut, PoolClose, vars
<1> QED BY NextCases, <1>1, <1>4, <1>5, <1>6, <1>7, <1>8, <1>9, <1>10

----------------------------------------------------------------------------
(* Graduations and downloads.                                              *)

\* What Scraping and GraduationsCounted say of a thread at w, on an info hash
\* with g graduations, that has seen m of them and got n downloads.
Seen(w, g, m, n) ==
    /\ w = "downloads" => m <= g
    /\ w \notin {"idle", "downloads"} => m = 0
    /\ w = "idle" => m <= n

\* Steps of one thread that may add a graduation.
LEMMA SeenFrame ==
    ASSUME TypeOK, TypeOK', Scraping, GraduationsCounted, NEW t \in Thread,
           \A ih \in InfoHash : /\ graduated[ih] <= graduated'[ih]
                                /\ graduated'[ih] <= downloads'[ih],
           \A u \in Thread : u # t => /\ pc'[u] = pc[u] /\ call'[u] = call[u]
                                      /\ shown'[u] = shown[u] /\ snatched'[u] = snatched[u],
           Seen(pc'[t], graduated'[call'[t].ih], shown'[t], snatched'[t])
    PROVE  Scraping' /\ GraduationsCounted'
<1>1. ASSUME NEW u \in Thread, u # t, pc[u] = "downloads"
      PROVE  shown[u] <= graduated'[call[u].ih]
  <2>1. call[u].ih \in InfoHash
    BY CallFields DEF TypeOK
  <2>2. shown[u] <= graduated[call[u].ih]
    BY <1>1 DEF Scraping
  <2>3. shown[u] \in Nat /\ graduated[call[u].ih] \in Nat /\ graduated'[call[u].ih] \in Nat
    BY <2>1 DEF TypeOK
  <2>4. graduated[call[u].ih] <= graduated'[call[u].ih]
    BY <2>1
  <2> QED BY SMTT(60), <2>2, <2>3, <2>4
<1>2. ASSUME NEW u \in Thread
      PROVE  Seen(pc'[u], graduated'[call'[u].ih], shown'[u], snatched'[u])
  <2>1. CASE u # t
    BY <1>1, <2>1 DEF Seen, Scraping, GraduationsCounted
  <2> QED BY <2>1
<1> QED BY <1>2 DEF Seen, Scraping, GraduationsCounted

LEMMA ScrapeStep ==
    ASSUME TypeOK, TypeOK', Stages, Scraping, GraduationsCounted, [Next]_vars
    PROVE  Scraping' /\ GraduationsCounted'
<1>1. \A ih \in InfoHash : /\ graduated[ih] \in Nat /\ downloads[ih] \in Nat
                           /\ graduated[ih] <= graduated[ih] /\ graduated[ih] <= downloads[ih]
  BY SMTT(60) DEF TypeOK, GraduationsCounted
<1>2. \A u \in Thread : shown[u] \in Nat /\ snatched[u] \in Nat /\ 0 <= snatched[u]
  BY SMTT(60) DEF TypeOK
<1>3. ASSUME UNCHANGED <<pc, call, graduated, downloads, shown, snatched>>
      PROVE  Scraping' /\ GraduationsCounted'
  BY <1>3 DEF Scraping, GraduationsCounted
<1>4. ASSUME NEW t \in Thread, UNCHANGED <<graduated, downloads, shown, snatched>>,
             pc[t] \notin {"idle", "downloads"},
             Return(t) \/ \E w \in PCs \ {"downloads", "idle"} : Go(t, w)
      PROVE  Scraping' /\ GraduationsCounted'
  <2>1. shown[t] = 0
    BY <1>4 DEF Scraping
  <2>2. /\ pc'[t] # "downloads"
        /\ \A u \in Thread : u # t => pc'[u] = pc[u] /\ call'[u] = call[u]
    BY <1>4, Returns, GoOn
  <2>3. Seen(pc'[t], graduated'[call'[t].ih], shown'[t], snatched'[t])
    BY <1>2, <1>4, <2>1, <2>2 DEF Seen
  <2> QED BY <1>1, <1>4, <2>2, <2>3, SeenFrame
<1>5. ASSUME NEW t \in Thread, Put(t) \/ Delete(t) \/ Update(t) \/ Increment(t)
                \/ Announce(t) \/ (pc[t] \in {"increment", "commit"} /\ Rollback(t))
      PROVE  Scraping' /\ GraduationsCounted'
  <2>1. UNCHANGED <<graduated, downloads, shown, snatched>> /\ pc[t] \notin {"idle", "downloads"}
    BY <1>5 DEF Put, Delete, Update, Increment, Announce, Rollback
  <2>2. Return(t) \/ \E w \in PCs \ {"downloads", "idle"} : Go(t, w)
    BY <1>5 DEF Put, Delete, Update, Increment, Announce, Query, Rollback, PCs
  <2> QED BY <1>4, <2>1, <2>2
<1>6. ASSUME NEW t \in Thread, Commit(t) PROVE Scraping' /\ GraduationsCounted'
  <2> DEFINE ih == call[t].ih
  <2>1. ih \in InfoHash
    BY CallFields DEF TypeOK
  <2>2. PICK d \in {0, 1} : graduated' = [graduated EXCEPT ![ih] = graduated[ih] + d]
    BY <1>6 DEF Commit
  <2>3. downloads' = [downloads EXCEPT ![ih] = downloads[ih] + 1]
    BY <1>6 DEF Commit
  <2>4. graduated \in [InfoHash -> Nat] /\ downloads \in [InfoHash -> Nat]
    BY DEF TypeOK
  <2>5. \A x \in InfoHash : graduated[x] <= graduated'[x] /\ graduated'[x] <= downloads'[x]
    <3> HIDE DEF ih
    <3> QED BY SMTT(60), <1>1, <2>1, <2>2, <2>3, <2>4
  <2>6. /\ pc'[t] = "idle" /\ UNCHANGED <<shown, snatched>> /\ shown[t] = 0
        /\ \A u \in Thread : u # t => pc'[u] = pc[u] /\ call'[u] = call[u]
    BY <1>6, Returns DEF Commit, Scraping
  <2>7. Seen(pc'[t], graduated'[call'[t].ih], shown'[t], snatched'[t])
    BY <1>2, <2>6 DEF Seen
  <2> QED BY <2>5, <2>6, <2>7, SeenFrame
<1>7. ASSUME NEW t \in Thread, Count(t) PROVE Scraping' /\ GraduationsCounted'
  <2>1. CASE Return(t) /\ UNCHANGED shown
    BY <1>4, <1>7, <2>1 DEF Count
  <2>2. CASE shown' = [shown EXCEPT ![t] = graduated[call[t].ih]] /\ Go(t, "downloads")
    <3>1. /\ pc'[t] = "downloads" /\ UNCHANGED <<call, graduated, downloads, snatched>>
          /\ \A u \in Thread : u # t => pc'[u] = pc[u]
      BY <1>7, <2>2, GoOn DEF Count, PCs
    <3>2. /\ shown'[t] = graduated[call[t].ih]
          /\ \A u \in Thread : u # t => shown'[u] = shown[u]
      BY <2>2 DEF TypeOK
    <3>3. call[t].ih \in InfoHash
      BY CallFields DEF TypeOK
    <3>4. Seen(pc'[t], graduated'[call'[t].ih], shown'[t], snatched'[t])
      BY <1>1, <3>1, <3>2, <3>3 DEF Seen
    <3> QED BY <1>1, <3>1, <3>2, <3>4, SeenFrame
  <2> QED BY <1>7, <2>1, <2>2 DEF Count
<1>8. ASSUME NEW t \in Thread, GetDownloads(t) PROVE Scraping' /\ GraduationsCounted'
  <2>1. /\ pc'[t] = "idle" /\ UNCHANGED <<graduated, downloads>>
        /\ \A u \in Thread : u # t => pc'[u] = pc[u] /\ call'[u] = call[u]
    BY <1>8, Returns DEF GetDownloads
  <2>2. \A u \in Thread : u # t => shown'[u] = shown[u] /\ snatched'[u] = snatched[u]
    BY <1>8 DEF GetDownloads, TypeOK
  <2>3. shown'[t] <= snatched'[t]
    <3>1. CASE snatched' = [snatched EXCEPT ![t] = downloads[call[t].ih]] /\ UNCHANGED shown
      <4>1. call[t].ih \in InfoHash /\ shown[t] <= graduated[call[t].ih]
        BY <1>8, CallFields DEF GetDownloads, Scraping, TypeOK
      <4>2. shown'[t] = shown[t] /\ snatched'[t] = downloads[call[t].ih]
        BY <3>1 DEF TypeOK
      <4>3. graduated[call[t].ih] \in Nat /\ downloads[call[t].ih] \in Nat
            /\ graduated[call[t].ih] <= downloads[call[t].ih]
        BY <1>1, <4>1
      <4> QED BY SMTT(60), <1>2, <4>1, <4>2, <4>3
    <3>2. CASE shown' = [shown EXCEPT ![t] = 0] /\ UNCHANGED snatched
      <4>1. shown'[t] = 0 /\ snatched'[t] = snatched[t]
        BY <3>2 DEF TypeOK
      <4> QED BY <1>2, <4>1
    <3> QED BY <1>8, <3>1, <3>2 DEF GetDownloads
  <2>4. Seen(pc'[t], graduated'[call'[t].ih], shown'[t], snatched'[t])
    BY <2>1, <2>3 DEF Seen
  <2> QED BY <1>1, <2>1, <2>2, <2>4, SeenFrame
<1>9. ASSUME NEW t \in Thread, Die(t) PROVE Scraping' /\ GraduationsCounted'
  <2>1. /\ pc'[t] = "idle" /\ UNCHANGED <<graduated, downloads, snatched>>
        /\ \A u \in Thread : u # t => pc'[u] = pc[u] /\ call'[u] = call[u]
    BY <1>9, Returns DEF Die
  <2>2. shown'[t] = 0 /\ \A u \in Thread : u # t => shown'[u] = shown[u]
    BY <1>9, TypesSplit DEF Die, ReadTypes
  <2>3. Seen(pc'[t], graduated'[call'[t].ih], shown'[t], snatched'[t])
    BY <1>2, <2>1, <2>2 DEF Seen
  <2> QED BY <1>1, <2>1, <2>2, <2>3, SeenFrame
<1>10. ASSUME NEW t \in Thread, NEW c \in Call, Begin(t, c)
       PROVE  Scraping' /\ GraduationsCounted'
  <2>1. pc'[t] \in PCs \ {"idle", "downloads"}
    BY <1>10, Begins, Firsts
  <2>2. /\ UNCHANGED <<graduated, downloads>> /\ shown'[t] = 0
        /\ \A u \in Thread : u # t => /\ pc'[u] = pc[u] /\ call'[u] = call[u]
                                      /\ shown'[u] = shown[u] /\ snatched'[u] = snatched[u]
    <3>1. /\ UNCHANGED <<graduated, downloads>> /\ shown' = [shown EXCEPT ![t] = 0]
          /\ snatched' = [snatched EXCEPT ![t] = 0]
      BY <1>10 DEF Begin
    <3>2. shown \in [Thread -> Nat] /\ snatched \in [Thread -> Nat]
      BY TypesSplit DEF ReadTypes
    <3> QED BY <1>10, <3>1, <3>2, Begins
  <2>3. Seen(pc'[t], graduated'[call'[t].ih], shown'[t], snatched'[t])
    BY <2>1, <2>2 DEF Seen
  <2> QED BY <1>1, <2>2, <2>3, SeenFrame
<1>11. Tick \/ GCFire \/ GCDelete \/ GCExit \/ Close \/ PoolShut \/ PoolClose \/ UNCHANGED vars
          => UNCHANGED <<pc, call, graduated, downloads, shown, snatched>>
  BY DEF Tick, GCFire, GCDelete, GCExit, Close, PoolShut, PoolClose, vars
<1> QED BY NextCases, <1>3, <1>5, <1>6, <1>7, <1>8, <1>9, <1>10, <1>11

----------------------------------------------------------------------------
(* The answers of AnnouncePeers.                                           *)

\* What the counting of peers needs of finite sets; proved at the end.
AddLaw(r) ==
    \A S \in SUBSET Peer, A \in SUBSET ((Role \ {r}) \X Peer) :
        Cardinality(A \cup ({r} \X S)) = Cardinality(A) + Cardinality(S)
CountingLaws ==
    /\ Cardinality({}) = 0
    /\ \A A \in SUBSET (Role \X Peer) : Cardinality(A) \in Nat
    /\ \A S \in SUBSET Peer : Cardinality(S) \in Nat
    /\ \A r \in Role : AddLaw(r)
    /\ \A S \in SUBSET Peer : \A T \in SUBSET S : Cardinality(T) = Cardinality(S) => T = S

\* What Asking and AnnounceAnswer say of a thread at w with call c, the answer
\* o, complete if f, and the peers st that stayed in the rows ro.
Settled(w, c, o, f, st, ro) ==
    /\ (w # "idle" /\ c.op # "AnnouncePeers") => o = {} /\ st = {}
    /\ w \in {"seeders", "leechers"} =>
          /\ \A x \in st : ro[c.ih][x[2]] = x[1] /\ Is6[AddrPort[x[2]]] = c.v6
          /\ o \subseteq {"seeder"} \X Peer /\ Cardinality(o) <= c.numWant
    /\ w = "seeders" => o = {}
    /\ (w = "leechers" /\ f /\ Cardinality(o) < c.numWant) =>
          \A x \in st : x[1] = "seeder" => x \in o
    /\ (w = "idle" /\ c.op = "AnnouncePeers") =>
          /\ Cardinality(o) <= c.numWant
          /\ (f /\ Cardinality(o) < c.numWant) => st \subseteq o

AllSettled == \A t \in Thread : Settled(pc[t], call[t], out[t], full[t], stayed[t], role)

LEMMA SettledIff == AllSettled <=> Asking /\ AnnounceAnswer
BY DEF AllSettled, Settled, Asking, AnnounceAnswer

\* Rows go and change.
LEMMA SettledRows ==
    ASSUME NEW w, NEW c, NEW o, NEW f, NEW st, NEW ro, Settled(w, c, o, f, st, ro),
           NEW st2, NEW ro2, st2 \subseteq st,
           (st2 = st /\ ro2 = ro) \/ \A x \in st2 : ro2[c.ih][x[2]] = x[1]
    PROVE  Settled(w, c, o, f, st2, ro2)
BY DEF Settled

\* What a step does to the rows: it leaves them alone or says who has stayed.
RowsMove(u) ==
    /\ stayed'[u] \subseteq stayed[u]
    /\ \/ stayed'[u] = stayed[u] /\ role' = role
       \/ \A x \in stayed'[u] : role'[call[u].ih][x[2]] = x[1]

LEMMA RowsMoved ==
    ASSUME TypeOK, NEW u \in Thread, UNCHANGED <<role, stayed>> \/ \E new : SetRoles(new)
    PROVE  RowsMove(u)
BY RolesSet DEF RowsMove

\* Steps of one thread.
LEMMA SettledFrame ==
    ASSUME AllSettled, NEW t \in Thread,
           \A u \in Thread : u # t => /\ pc'[u] = pc[u] /\ call'[u] = call[u]
                                      /\ out'[u] = out[u] /\ full'[u] = full[u] /\ RowsMove(u),
           Settled(pc'[t], call'[t], out'[t], full'[t], stayed'[t], role')
    PROVE  AllSettled'
<1>1. ASSUME NEW u \in Thread, u # t
      PROVE  Settled(pc'[u], call'[u], out'[u], full'[u], stayed'[u], role')
  <2>1. Settled(pc[u], call[u], out[u], full[u], stayed[u], role)
    BY DEF AllSettled
  <2>2. Settled(pc[u], call[u], out[u], full[u], stayed'[u], role')
    BY <1>1, <2>1, SettledRows DEF RowsMove
  <2> QED BY <1>1, <2>2
<1> QED BY <1>1 DEF AllSettled

\* Calls that answer with no peers.
LEMMA OtherCall ==
    ASSUME CountingLaws, TypeOK, Stages, AllSettled, NEW t \in Thread,
           UNCHANGED <<role, stayed>> \/ \E new : SetRoles(new),
           UNCHANGED <<out, full>>, pc[t] # "idle", call[t].op # "AnnouncePeers",
           Return(t) \/ \E w \in PCs \ {"idle", "seeders", "leechers"} : Go(t, w)
    PROVE  AllSettled'
<1>1. out'[t] = {} /\ stayed'[t] = {}
  <2>1. out[t] = {} /\ stayed[t] = {}
    BY DEF AllSettled, Settled
  <2> QED BY <2>1, RowsMoved DEF RowsMove
<1>2. \A u \in Thread : u # t => /\ pc'[u] = pc[u] /\ call'[u] = call[u]
                                 /\ out'[u] = out[u] /\ full'[u] = full[u] /\ RowsMove(u)
  BY Returns, GoOn, RowsMoved
<1>3. pc'[t] \notin {"seeders", "leechers"} /\ call'[t] \in Call
  BY Returns, GoOn
<1>4. call'[t].op = "AnnouncePeers" => Cardinality({}) <= call'[t].numWant
  <2>1. call'[t].op = "AnnouncePeers" => call'[t].numWant \in Nat
    BY <1>3, CallFields
  <2>2. Cardinality({}) = 0
    BY DEF CountingLaws
  <2> QED BY SMTT(60), <2>1, <2>2
<1>5. Settled(pc'[t], call'[t], out'[t], full'[t], stayed'[t], role')
  BY <1>1, <1>3, <1>4 DEF Settled
<1> QED BY <1>2, <1>5, SettledFrame

\* A query of S of the rows in R, for peers with role r, after the answer o.
LEMMA Fetched ==
    ASSUME CountingLaws, NEW r \in Role, NEW o \in SUBSET ((Role \ {r}) \X Peer),
           NEW R \in SUBSET Peer, NEW S \in SUBSET R, NEW want \in Nat,
           Cardinality(o) <= want,
           Cardinality(S) <= IF want - Cardinality(o) < Cardinality(R)
                             THEN want - Cardinality(o) ELSE Cardinality(R)
    PROVE  /\ Cardinality(o \cup ({r} \X S)) <= want
           /\ (/\ Cardinality(S) = IF want - Cardinality(o) < Cardinality(R)
                                   THEN want - Cardinality(o) ELSE Cardinality(R)
               /\ Cardinality(o \cup ({r} \X S)) < want) => S = R /\ Cardinality(o) < want
<1>1. /\ Cardinality(o) \in Nat /\ Cardinality(R) \in Nat /\ Cardinality(S) \in Nat
  <2>1. o \in SUBSET (Role \X Peer) /\ S \in SUBSET Peer
    OBVIOUS
  <2> QED BY <2>1 DEF CountingLaws
<1>2. Cardinality(o \cup ({r} \X S)) = Cardinality(o) + Cardinality(S)
  <2>1. S \in SUBSET Peer
    OBVIOUS
  <2>2. AddLaw(r)
    BY DEF CountingLaws
  <2> QED BY <2>1, <2>2 DEF AddLaw
<1>3. Cardinality(S) = Cardinality(R) => S = R
  BY DEF CountingLaws
<1>4. Cardinality(o \cup ({r} \X S)) <= want
  BY SMTT(60), <1>1, <1>2
<1>5. ASSUME Cardinality(S) = IF want - Cardinality(o) < Cardinality(R)
                              THEN want - Cardinality(o) ELSE Cardinality(R),
             Cardinality(o \cup ({r} \X S)) < want
      PROVE  Cardinality(S) = Cardinality(R) /\ Cardinality(o) < want
  BY SMTT(60), <1>1, <1>2, <1>5
<1> QED BY <1>3, <1>4, <1>5

LEMMA QuerySettled ==
    ASSUME CountingLaws, TypeOK, Stages, AllSettled, NEW t \in Thread, Announce(t)
    PROVE  AllSettled'
<1> DEFINE c == call[t]
           want == call[t].numWant
<1>1. /\ c \in Call /\ c.op = "AnnouncePeers" /\ want \in Nat /\ c.ih \in InfoHash
  <2>1. c \in Call /\ c.op = "AnnouncePeers"
    BY DEF Announce, Stages, TypeOK
  <2> QED BY <2>1, CallFields
<1>2. Settled(pc[t], c, out[t], full[t], stayed[t], role)
  BY DEF AllSettled
<1>3. PICK r \in Role : /\ Query(t, r)
                        /\ pc[t] = IF r = "seeder" THEN "seeders" ELSE "leechers"
  BY DEF Announce, Role
<1> DEFINE R == Rows(c.ih, r, c.v6)
           n == IF want - Cardinality(out[t]) < Cardinality(R)
                THEN want - Cardinality(out[t]) ELSE Cardinality(R)
<1>4. PICK S \in SUBSET R, err \in BOOLEAN :
         /\ \/ Done /\ Cardinality(S) = n /\ ~err /\ UNCHANGED full
            \/ /\ Fail /\ Cardinality(S) <= n
               /\ full' = [full EXCEPT ![t] = FALSE]
            \/ /\ ~Acquirable /\ S = {} /\ err /\ UNCHANGED fails
               /\ full' = [full EXCEPT ![t] = FALSE]
         /\ out' = [out EXCEPT ![t] = out[t] \cup ({r} \X S)]
         /\ IF r = "leecher" \/ err THEN Return(t) ELSE Go(t, "leechers")
  BY <1>3 DEF Query, Left
<1>5. R \in SUBSET Peer /\ R = {p \in Peer : role[c.ih][p] = r /\ Is6[AddrPort[p]] = c.v6}
  BY DEF Rows
<1>6. /\ out[t] \in SUBSET ((Role \ {r}) \X Peer) /\ Cardinality(out[t]) <= want
      /\ r = "seeder" => out[t] = {}
      /\ \A x \in stayed[t] : role[c.ih][x[2]] = x[1] /\ Is6[AddrPort[x[2]]] = c.v6
      /\ (r = "leecher" /\ full[t] /\ Cardinality(out[t]) < want) =>
            \A x \in stayed[t] : x[1] = "seeder" => x \in out[t]
  BY <1>2, <1>3 DEF Settled, Role
<1>7. /\ out'[t] = out[t] \cup ({r} \X S)
      /\ \A u \in Thread : u # t => out'[u] = out[u]
  <2>1. out \in [Thread -> SUBSET (Role \X Peer)]
    BY DEF TypeOK
  <2> QED BY <1>4, <2>1
<1>8. /\ full'[t] => Cardinality(S) = n /\ ~err /\ full[t]
      /\ \A u \in Thread : u # t => full'[u] = full[u]
  <2>1. full \in [Thread -> BOOLEAN]
    BY DEF TypeOK
  <2> QED BY <1>4, <2>1
<1>9. /\ pc'[t] = IF r = "leecher" \/ err THEN "idle" ELSE "leechers"
      /\ call'[t] = c /\ \A u \in Thread : u # t => pc'[u] = pc[u] /\ call'[u] = call[u]
  BY <1>1, <1>4, Returns, GoOn DEF PCs
<1>10. UNCHANGED <<role, stayed>>
  BY DEF Announce
<1>11. Cardinality(S) <= n
  <2>1. /\ Cardinality(R) \in Nat /\ Cardinality(S) \in Nat /\ Cardinality(out[t]) \in Nat
        /\ Cardinality({}) = 0
    <3>1. S \in SUBSET Peer /\ out[t] \in SUBSET (Role \X Peer)
      BY <1>5 DEF TypeOK
    <3> QED BY <1>5, <3>1 DEF CountingLaws
  <2>2. Cardinality(S) <= n \/ Cardinality(S) = n \/ S = {}
    BY <1>4
  <2> HIDE DEF R, c, want
  <2> QED BY SMTT(60), <1>1, <1>6, <2>1, <2>2
<1>12. /\ Cardinality(out'[t]) <= want
       /\ (Cardinality(S) = n /\ Cardinality(out'[t]) < want)
             => S = R /\ Cardinality(out[t]) < want
  <2>1. /\ want \in Nat /\ R \in SUBSET Peer /\ Cardinality(out[t]) <= want
        /\ out[t] \in SUBSET ((Role \ {r}) \X Peer)
    BY <1>1, <1>5, <1>6
  <2> HIDE DEF R, c, want
  <2>2. /\ Cardinality(out[t] \cup ({r} \X S)) <= want
        /\ (Cardinality(S) = n /\ Cardinality(out[t] \cup ({r} \X S)) < want)
              => S = R /\ Cardinality(out[t]) < want
    BY SMTT(60), <1>11, <2>1, Fetched
  <2> QED BY <1>7, <2>2
<1>13. ASSUME full'[t], Cardinality(out'[t]) < want, NEW x \in stayed[t],
              x[1] = r \/ (r = "leecher" /\ x[1] = "seeder")
       PROVE  x \in out'[t]
  <2>1. x \in Role \X Peer
    BY DEF TypeOK
  <2>2. S = R /\ Cardinality(out[t]) < want /\ full[t]
    BY <1>8, <1>12, <1>13
  <2>3. CASE x[1] = r
    <3>1. x[2] \in R
      BY <1>5, <1>6, <2>1, <2>3
    <3>2. x = <<r, x[2]>>
      BY SMTT(60), <2>1, <2>3
    <3> QED BY <1>7, <2>2, <3>1, <3>2
  <2>4. CASE r = "leecher" /\ x[1] = "seeder"
    BY <1>6, <1>7, <2>2, <2>4
  <2> QED BY <1>13, <2>3, <2>4
<1>14. Settled(pc'[t], call'[t], out'[t], full'[t], stayed'[t], role')
  <2>1. CASE r = "leecher"
    <3>1. (full'[t] /\ Cardinality(out'[t]) < want) => stayed'[t] \subseteq out'[t]
      <4>1. \A x \in stayed[t] : x[1] \in {"seeder", "leecher"}
        <5>1. stayed[t] \in SUBSET (Role \X Peer)
          BY DEF TypeOK
        <5> QED BY SMTT(60), <5>1 DEF Role
      <4> QED BY <1>10, <1>13, <2>1, <4>1
    <3> QED BY <1>1, <1>9, <1>12, <2>1, <3>1 DEF Settled
  <2>2. CASE r = "seeder" /\ err
    <3>1. ~full'[t] /\ pc'[t] = "idle"
      BY <1>8, <1>9, <2>2
    <3> QED BY <1>1, <1>9, <1>12, <3>1 DEF Settled
  <2>3. CASE r = "seeder" /\ ~err
    <3>1. pc'[t] = "leechers"
      BY <1>9, <2>3
    <3>2. out'[t] \subseteq {"seeder"} \X Peer
      BY <1>5, <1>6, <1>7, <2>3
    <3>3. (full'[t] /\ Cardinality(out'[t]) < want) =>
             \A x \in stayed'[t] : x[1] = "seeder" => x \in out'[t]
      BY <1>10, <1>13, <2>3
    <3> QED BY <1>1, <1>6, <1>9, <1>10, <1>12, <3>1, <3>2, <3>3 DEF Settled
  <2> QED BY <2>1, <2>2, <2>3 DEF Role
<1> QED BY <1>7, <1>8, <1>9, <1>10, <1>14, RowsMoved, SettledFrame

LEMMA BeginSettled ==
    ASSUME CountingLaws, TypeOK, AllSettled, NEW t \in Thread, NEW c \in Call, Begin(t, c)
    PROVE  AllSettled'
<1>1. /\ pc'[t] \in PCs \ {"idle", "downloads"} /\ call'[t] = c
      /\ \A u \in Thread : u # t => pc'[u] = pc[u] /\ call'[u] = call[u]
  BY Begins, Firsts
<1>2. pc'[t] = "leechers" => c.forSeeder
  BY Begins, Firsts
<1>3. /\ out'[t] = {} /\ UNCHANGED role
      /\ \A u \in Thread : u # t => out'[u] = out[u] /\ full'[u] = full[u]
  <2>1. out \in [Thread -> SUBSET (Role \X Peer)] /\ full \in [Thread -> BOOLEAN]
    BY TypesSplit DEF ReadTypes
  <2>2. /\ out' = [out EXCEPT ![t] = {}] /\ full' = [full EXCEPT ![t] = TRUE]
        /\ UNCHANGED role
    BY DEF Begin
  <2> QED BY <2>1, <2>2
<1> DEFINE asked == ({"leecher"} \X Rows(c.ih, "leecher", c.v6))
                    \cup (IF c.forSeeder THEN {}
                          ELSE {"seeder"} \X Rows(c.ih, "seeder", c.v6))
<1>4. /\ stayed'[t] = IF c.op # "AnnouncePeers" THEN {} ELSE asked
      /\ \A u \in Thread : u # t => stayed'[u] = stayed[u]
  <2>1. stayed \in [Thread -> SUBSET (Role \X Peer)]
    BY TypesSplit DEF ReadTypes
  <2>2. stayed' = [stayed EXCEPT ![t] = IF c.op # "AnnouncePeers" THEN {} ELSE asked]
    BY DEF Begin
  <2> HIDE DEF asked
  <2> QED BY <2>1, <2>2
<1>5. /\ \A x \in asked : role[c.ih][x[2]] = x[1] /\ Is6[AddrPort[x[2]]] = c.v6
      /\ c.forSeeder => \A x \in asked : x[1] = "leecher"
  BY DEF Rows
<1>6. c.op = "AnnouncePeers" => Cardinality({}) <= c.numWant
  <2>1. c.op = "AnnouncePeers" => c.numWant \in Nat
    BY CallFields
  <2>2. Cardinality({}) = 0
    BY DEF CountingLaws
  <2> QED BY SMTT(60), <2>1, <2>2
<1>7. pc'[t] \in {"seeders", "leechers"} => c.op = "AnnouncePeers"
  BY Begins, Firsts
<1>8. Settled(pc'[t], call'[t], out'[t], full'[t], stayed'[t], role')
  <2> HIDE DEF asked
  <2>1. CASE c.op # "AnnouncePeers"
    BY <1>1, <1>3, <1>4, <1>7, <2>1 DEF Settled
  <2>2. CASE c.op = "AnnouncePeers"
    <3>1. pc'[t] = "leechers" => \A x \in asked : x[1] # "seeder"
      BY <1>2, <1>5
    <3> QED BY <1>1, <1>3, <1>4, <1>5, <1>6, <2>2, <3>1 DEF Settled
  <2> QED BY <2>1, <2>2
<1>9. \A u \in Thread : u # t => RowsMove(u)
  BY <1>3, <1>4 DEF RowsMove
<1> QED BY <1>1, <1>3, <1>8, <1>9, SettledFrame

LEMMA DieSettled ==
    ASSUME CountingLaws, TypeOK, Stages, AllSettled, NEW t \in Thread, Die(t)
    PROVE  AllSettled'
<1>1. /\ pc'[t] = "idle" /\ UNCHANGED <<role, stayed, out>>
      /\ \A u \in Thread : u # t => pc'[u] = pc[u] /\ call'[u] = call[u]
      /\ call'[t] = IF call[t].op = "AnnouncePeers" THEN call[t] ELSE NoCall
  BY Returns DEF Die
<1>2. ~full'[t] /\ \A u \in Thread : u # t => full'[u] = full[u]
  BY TypesSplit DEF Die, ReadTypes
<1>3. ASSUME call'[t].op = "AnnouncePeers" PROVE Cardinality(out[t]) <= call'[t].numWant
  <2>1. CASE call[t].op = "AnnouncePeers"
    <3>1. pc[t] \in {"seeders", "leechers"}
      BY <2>1 DEF Die, Stages, TypeOK
    <3> QED BY <1>1, <2>1, <3>1 DEF AllSettled, Settled
  <2>2. CASE call[t].op # "AnnouncePeers"
    <3>1. out[t] = {} /\ call'[t] = NoCall
      BY <1>1, <2>2 DEF Die, AllSettled, Settled
    <3>2. call'[t].numWant \in Nat
      BY <1>3, <3>1, NoCallType, CallFields
    <3>3. Cardinality({}) = 0
      BY DEF CountingLaws
    <3> QED BY SMTT(60), <3>1, <3>2, <3>3
  <2> QED BY <2>1, <2>2
<1>4. Settled(pc'[t], call'[t], out'[t], full'[t], stayed'[t], role')
  BY <1>1, <1>2, <1>3 DEF Settled
<1> QED BY <1>1, <1>2, <1>4, RowsMoved, SettledFrame

LEMMA SettledStep ==
    ASSUME CountingLaws, TypeOK, Stages, AllSettled, [Next]_vars
    PROVE  AllSettled'
<1>1. ASSUME NEW t \in Thread, Put(t) \/ Delete(t) \/ Update(t) \/ Increment(t) \/ Commit(t)
                \/ Count(t) \/ GetDownloads(t)
                \/ (pc[t] \in {"increment", "commit"} /\ Rollback(t))
      PROVE  AllSettled'
  <2>1. pc[t] \in {"put", "delete", "update", "increment", "commit", "count", "downloads"}
    BY <1>1 DEF Put, Delete, Update, Increment, Commit, Count, GetDownloads
  <2>2. pc[t] # "idle" /\ call[t].op # "AnnouncePeers"
    BY <2>1 DEF Stages
  <2>3. UNCHANGED <<role, stayed>> \/ \E new : SetRoles(new)
    BY <1>1 DEF Put, Delete, Update, Increment, Commit, Count, GetDownloads, Rollback
  <2>4. UNCHANGED <<out, full>>
    BY <1>1 DEF Put, Delete, Update, Increment, Commit, Count, GetDownloads, Rollback
  <2>5. Return(t) \/ \E w \in PCs \ {"idle", "seeders", "leechers"} : Go(t, w)
    BY <1>1 DEF Put, Delete, Update, Increment, Commit, Count, GetDownloads, Rollback, PCs
  <2> QED BY <2>2, <2>3, <2>4, <2>5, OtherCall
<1>2. ASSUME UNCHANGED <<pc, call, out, full>>,
             UNCHANGED <<role, stayed>> \/ \E new : SetRoles(new)
      PROVE  AllSettled'
  <2>1. ASSUME NEW u \in Thread
        PROVE  Settled(pc'[u], call'[u], out'[u], full'[u], stayed'[u], role')
    <3>1. Settled(pc[u], call[u], out[u], full[u], stayed[u], role)
      BY DEF AllSettled
    <3>2. RowsMove(u)
      BY <1>2, RowsMoved
    <3>3. Settled(pc[u], call[u], out[u], full[u], stayed'[u], role')
      BY <3>1, <3>2, SettledRows DEF RowsMove
    <3> QED BY <1>2, <3>3
  <2> QED BY <2>1 DEF AllSettled
<1>3. Tick \/ GCFire \/ GCDelete \/ GCExit \/ Close \/ PoolShut \/ PoolClose \/ UNCHANGED vars
         => /\ UNCHANGED <<pc, call, out, full>>
            /\ UNCHANGED <<role, stayed>> \/ \E new : SetRoles(new)
  BY DEF Tick, GCFire, GCDelete, DeleteStale, GCExit, Close, PoolShut, PoolClose, vars
<1> QED BY NextCases, <1>1, <1>2, <1>3, QuerySettled, BeginSettled, DieSettled

----------------------------------------------------------------------------
(* Theorems.                                                               *)

LEMMA TypeInit == Init => TypeOK /\ Stages
<1> SUFFICES ASSUME Init PROVE TypeOK /\ Stages
  OBVIOUS
<1>1. /\ 0 \in Nat /\ 0 \in 0 .. MaxTime /\ 0 \in 0 .. MaxCalls /\ 0 \in 0 .. MaxFails
      /\ 0 \in -PeerLifetime .. MaxTime
  BY SMTT(60), PgAssumption
<1>2. TableTypes
  BY <1>1 DEF Init, TableTypes
<1>3. ThreadTypes
  BY <1>1, NoCallType DEF Init, ThreadTypes, PCs
<1>4. ReadTypes
  BY <1>1 DEF Init, ReadTypes
<1>5. OtherTypes
  BY <1>1 DEF Init, OtherTypes
<1>6. Stages
  BY DEF Init, Stages
<1> QED BY <1>2, <1>3, <1>4, <1>5, <1>6, TypesSplit

LEMMA StagesInvariant == Spec => [](TypeOK /\ Stages)
<1>1. TypeOK /\ Stages /\ [Next]_vars => (TypeOK /\ Stages)'
  BY TypeStep, StagesStep
<1> QED BY <1>1, TypeInit, PTL DEF Spec

\* The variables of the PostgreSQL store keep their types, and only rows of a
\* transaction that has yet to end are locked, whatever fails and whoever dies.
THEOREM TypeCorrect == Spec => []TypeOK
BY StagesInvariant, PTL

LEMMA ScrapeInvariant == Spec => []ScrapeInv
<1>1. Init => Scraping /\ GraduationsCounted
  BY SMTT(60) DEF Init, Scraping, GraduationsCounted
<1>2. TypeOK /\ Stages /\ TypeOK' /\ Scraping /\ GraduationsCounted /\ [Next]_vars
         => (Scraping /\ GraduationsCounted)'
  BY ScrapeStep
<1>3. TypeOK /\ Stages /\ Scraping /\ GraduationsCounted => ScrapeInv
  BY DEF ScrapeInv
<1> QED BY <1>1, <1>2, <1>3, StagesInvariant, PTL DEF Spec

\* Every graduation that GraduateLeecher's batch committed is a download, and a
\* ScrapeSwarm that saw the seeder shows its download, for any number of
\* goroutines and wherever a statement fails or a goroutine dies.
THEOREM GraduationsCorrect == Spec => []GraduationsCounted
<1>1. ScrapeInv => GraduationsCounted
  BY DEF ScrapeInv
<1> QED BY <1>1, ScrapeInvariant, PTL

INSTANCE FiniteSetTheorems

LEMMA Counted == CountingLaws
<1>1. IsFiniteSet(Peer) /\ IsFiniteSet(Role)
  <2>1. Role = ({} \cup {"seeder"}) \cup {"leecher"}
    BY DEF Role
  <2>2. IsFiniteSet({} \cup {"seeder"})
    BY FS_EmptySet, FS_AddElement
  <2> QED BY <2>1, <2>2, FS_AddElement, PgAssumption
<1>2. IsFiniteSet(Role \X Peer)
  BY <1>1, FS_Product
<1>3. \A A \in SUBSET (Role \X Peer) : IsFiniteSet(A) /\ Cardinality(A) \in Nat
  BY <1>2, FS_Subset, FS_CardinalityType
<1>4. \A S \in SUBSET Peer : IsFiniteSet(S) /\ Cardinality(S) \in Nat
  BY <1>1, FS_Subset, FS_CardinalityType
<1>5. ASSUME NEW r \in Role, NEW S \in SUBSET Peer, NEW A \in SUBSET ((Role \ {r}) \X Peer)
      PROVE  Cardinality(A \cup ({r} \X S)) = Cardinality(A) + Cardinality(S)
  <2> DEFINE B == {r} \X S
  <2>1. IsFiniteSet(A) /\ Cardinality(A) \in Nat /\ IsFiniteSet(S) /\ Cardinality(S) \in Nat
    <3>1. A \in SUBSET (Role \X Peer)
      OBVIOUS
    <3> QED BY <1>3, <1>4, <3>1
  <2>2. IsFiniteSet({r}) /\ Cardinality({r}) = 1
    BY FS_Singleton
  <2>3. IsFiniteSet(B) /\ Cardinality(B) = 1 * Cardinality(S)
    BY <2>1, <2>2, FS_Product
  <2>4. A \cap B = {}
    BY SMTT(60)
  <2>5. Cardinality({}) = 0
    BY FS_EmptySet
  <2> HIDE DEF B
  <2>6. Cardinality(A \cup B) = Cardinality(A) + Cardinality(B) - Cardinality(A \cap B)
    BY <2>1, <2>3, FS_Union
  <2>7. Cardinality(A \cup B) = Cardinality(A) + Cardinality(B) - 0
    BY <2>4, <2>5, <2>6
  <2> DEFINE a == Cardinality(A)
             b == Cardinality(B)
             d == Cardinality(S)
             all == Cardinality(A \cup B)
  <2>8. a \in Nat /\ b = 1 * d /\ d \in Nat /\ all = a + b - 0
    BY <2>1, <2>3, <2>7
  <2>9. all = a + d
    <3> HIDE DEF a, b, d, all
    <3> QED BY SMTT(60), <2>8
  <2> QED BY <2>9 DEF B
<1>6. ASSUME NEW S \in SUBSET Peer, NEW T \in SUBSET S, Cardinality(T) = Cardinality(S)
      PROVE  T = S
  BY <1>4, <1>6, FS_Subset
<1> QED BY <1>3, <1>4, <1>5, <1>6, FS_EmptySet DEF CountingLaws, AddLaw

LEMMA AnnounceInvariant == Spec => []AnnounceInv
<1>1. Init => AllSettled
  <2> SUFFICES ASSUME Init, NEW t \in Thread
               PROVE  Settled(pc[t], call[t], out[t], full[t], stayed[t], role)
    BY DEF AllSettled
  <2>1. pc[t] = "idle" /\ call[t] = NoCall /\ out[t] = {} /\ stayed[t] = {}
    BY DEF Init
  <2>2. NoCall.op = "AnnouncePeers" => NoCall.numWant \in Nat
    BY NoCallType, CallFields
  <2>3. Cardinality({}) = 0
    BY Counted DEF CountingLaws
  <2>4. NoCall.op = "AnnouncePeers" => Cardinality({}) <= NoCall.numWant
    BY SMTT(60), <2>2, <2>3
  <2> QED BY <2>1, <2>4 DEF Settled
<1>2. TypeOK /\ Stages /\ AllSettled /\ [Next]_vars => AllSettled'
  BY SettledStep, Counted
<1>3. TypeOK /\ Stages /\ AllSettled => AnnounceInv
  BY SettledIff DEF AnnounceInv
<1> QED BY <1>1, <1>2, <1>3, StagesInvariant, PTL DEF Spec

\* AnnouncePeers answers with at most numWant peers over both of its queries,
\* and a short answer leaves out no peer that kept its role while the call ran
\* unless a query failed, whatever rows come, change and go in between.
THEOREM AnnounceAnswerCorrect == Spec => []AnnounceAnswer
<1>1. AnnounceInv => AnnounceAnswer
  BY DEF AnnounceInv
<1> QED BY <1>1, AnnounceInvariant, PTL
====
