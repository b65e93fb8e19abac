----------------------- MODULE TorrentApprovalProofs -----------------------
(***************************************************************************)
(* Theorems about TorrentApproval: its types, what the storage lists of    *)
(* the directory, and the verdicts of announces, for any number of files,  *)
(* torrents and announces and whatever fails or is restarted.              *)
(***************************************************************************)
EXTENDS TorrentApproval, TLAPS

USE ZenonT(60)

EventType == [change : {"Added", "Removed"}, torrent : Torrent, file : File]
WorkType == {"Put", "Delete"} \X Key

----------------------------------------------------------------------------
(* Queues.                                                                 *)

\* Taking the head of a queue.
LEMMA HeadTail ==
    ASSUME NEW S, NEW s \in Seq(S), s # <<>>
    PROVE  /\ Head(s) \in S /\ Tail(s) \in Seq(S)
           /\ Items(s) = {Head(s)} \cup Items(Tail(s))
<1>1. Head(s) \in S /\ Tail(s) \in Seq(S)
  BY SMTT(60)
<1>2. ASSUME NEW x \in Items(s) PROVE x = Head(s) \/ x \in Items(Tail(s))
  <2>1. PICK i \in 1 .. Len(s) : x = s[i]
    BY SMTT(60), <1>2 DEF Items
  <2>2. CASE i = 1
    BY SMTT(60), <2>1, <2>2
  <2>3. CASE i # 1
    <3>a. DOMAIN Tail(s) = 1 .. Len(s) - 1
      BY SMTT(60)
    <3>b. \A j \in 1 .. Len(s) - 1 : Tail(s)[j] = s[j + 1]
      BY SMTT(60)
    <3>1. \A j \in 1 .. Len(s) - 1 : j \in DOMAIN Tail(s) /\ Tail(s)[j] = s[j + 1]
      BY <3>a, <3>b
    <3>2. i - 1 \in 1 .. Len(s) - 1 /\ (i - 1) + 1 = i
      BY SMTT(60), <2>3
    <3> QED
      BY <2>1, <3>1, <3>2 DEF Items
  <2> QED
    BY SMTT(60), <2>2, <2>3
<1>3. Head(s) \in Items(s)
  BY SMTT(60), 1 \in DOMAIN s DEF Items
<1>4. ASSUME NEW x \in Items(Tail(s)) PROVE x \in Items(s)
  <2>1. PICK i \in DOMAIN Tail(s) : x = Tail(s)[i]
    BY SMTT(60), <1>4 DEF Items
  <2>2. i + 1 \in DOMAIN s /\ Tail(s)[i] = s[i + 1]
    BY SMTT(60), <2>1
  <2> QED
    BY SMTT(60), <2>1, <2>2 DEF Items
<1> QED
  BY SMTT(60), <1>1, <1>2, <1>3, <1>4

LEMMA ItemsType ==
    ASSUME NEW S, NEW s \in Seq(S) PROVE Items(s) \subseteq S
BY SMTT(60) DEF Items

LEMMA ItemsEmpty == Items(<<>>) = {}
BY SMTT(60) DEF Items

\* Two queues in a row.
LEMMA ItemsConcat ==
    ASSUME NEW S, NEW s \in Seq(S), NEW u \in Seq(S)
    PROVE  s \o u \in Seq(S) /\ Items(s \o u) = Items(s) \cup Items(u)
<1>1. s \o u \in Seq(S)
  BY SMTT(60)
<1>2. ASSUME NEW x \in Items(s \o u) PROVE x \in Items(s) \cup Items(u)
  <2>1. PICK i \in 1 .. Len(s) + Len(u) : x = (s \o u)[i]
    BY SMTT(60), <1>2 DEF Items
  <2>2. CASE i <= Len(s)
    <3>1. i \in DOMAIN s /\ x = s[i]
      BY SMTT(60), <2>1, <2>2
    <3> QED
      BY SMTT(60), <3>1 DEF Items
  <2>3. CASE ~(i <= Len(s))
    <3>1. i - Len(s) \in DOMAIN u /\ x = u[i - Len(s)]
      BY SMTT(60), <2>1, <2>3
    <3> QED
      BY SMTT(60), <3>1 DEF Items
  <2> QED
    BY SMTT(60), <2>2, <2>3
<1>3. ASSUME NEW x \in Items(s) PROVE x \in Items(s \o u)
  <2>1. PICK i \in DOMAIN s : x = s[i]
    BY SMTT(60), <1>3 DEF Items
  <2>2. i \in DOMAIN (s \o u) /\ (s \o u)[i] = s[i]
    BY SMTT(60), <2>1
  <2> QED
    BY SMTT(60), <2>1, <2>2 DEF Items
<1>4. ASSUME NEW x \in Items(u) PROVE x \in Items(s \o u)
  <2>1. PICK i \in DOMAIN u : x = u[i]
    BY SMTT(60), <1>4 DEF Items
  <2>2. i + Len(s) \in DOMAIN (s \o u) /\ (s \o u)[i + Len(s)] = u[i]
    BY SMTT(60), <2>1
  <2> QED
    BY SMTT(60), <2>1, <2>2 DEF Items
<1> QED
  BY SMTT(60), <1>1, <1>2, <1>3, <1>4

----------------------------------------------------------------------------
(* Types.                                                                  *)

ReportSet(change, T, at) == {Report(change, t, at[t]) : t \in T}

\* An order of some torrents, as a queue of reports.
LEMMA OrderReports ==
    ASSUME NEW T \in SUBSET Torrent, Cardinality(T) \in Nat, NEW s \in Orders(T),
           NEW change \in {"Added", "Removed"}, NEW at, \A t \in T : at[t] \in File
    PROVE  /\ Reports(change, s, at) \in Seq(EventType)
           /\ Items(Reports(change, s, at)) = ReportSet(change, T, at)
<1>1. s \in [1 .. Cardinality(T) -> T] /\ \A t \in T : \E i \in DOMAIN s : s[i] = t
  BY SMTT(60) DEF Orders
<1>2. \A t \in T : Report(change, t, at[t]) \in EventType
  BY SMTT(60) DEF Report, EventType
<1> DEFINE R == Reports(change, s, at)
<1>3. R = [i \in 1 .. Cardinality(T) |-> Report(change, s[i], at[s[i]])]
  BY SMTT(60), <1>1 DEF Reports
<1>4. \A i \in 1 .. Cardinality(T) : Report(change, s[i], at[s[i]]) \in EventType
  BY <1>1, <1>2
<1>5. R \in Seq(EventType)
  BY SMTT(60), <1>3, <1>4
<1>6. DOMAIN R = DOMAIN s /\ \A i \in DOMAIN s : R[i] = Report(change, s[i], at[s[i]])
  BY SMTT(60), <1>1, <1>3
<1> HIDE DEF R
<1>7. ASSUME NEW x \in Items(R) PROVE \E t \in T : x = Report(change, t, at[t])
  <2>1. PICK i \in DOMAIN R : x = R[i]
    BY <1>7 DEF Items
  <2>2. s[i] \in T
    BY <1>1, <1>6, <2>1
  <2> QED
    BY <1>6, <2>1, <2>2
<1>8. ASSUME NEW t \in T PROVE Report(change, t, at[t]) \in Items(R)
  BY <1>1, <1>6 DEF Items
<1> QED
  BY <1>5, <1>7, <1>8 DEF R, ReportSet

\* The storage operations of a report.
LEMMA ReportWork ==
    ASSUME NEW t \in Torrent, NEW got \in Torrent, NEW op \in {"Put", "Delete"}
    PROVE  LET w == [i \in DOMAIN Hashes(t, got) |-> <<op, Hashes(t, got)[i]>>]
           IN  /\ w \in Seq(WorkType)
               /\ Items(w) = {<<op, <<"v1", t>>>>, <<op, <<"v2", got>>>>, <<op, <<"v2to1", got>>>>}
<1> DEFINE h == Hashes(t, got)
           w == [i \in DOMAIN h |-> <<op, h[i]>>]
<1>1. /\ DOMAIN h = 1 .. 3
      /\ h[1] = <<"v1", t>> /\ h[2] = <<"v2", got>> /\ h[3] = <<"v2to1", got>>
  BY SMTT(60) DEF Hashes
<1>2. <<"v1", t>> \in Key /\ <<"v2", got>> \in Key /\ <<"v2to1", got>> \in Key
  BY DEF Key
<1> HIDE DEF h
<1>3. \A i \in 1 .. 3 : i = 1 \/ i = 2 \/ i = 3
  BY SMTT(60)
<1>4. \A i \in 1 .. 3 : h[i] \in Key
  BY <1>1, <1>2, <1>3
<1>5. \A i \in 1 .. 3 : <<op, h[i]>> \in WorkType
  BY <1>4 DEF WorkType
<1>6. w = [i \in 1 .. 3 |-> <<op, h[i]>>]
  BY <1>1
<1>7. w \in Seq(WorkType)
  BY SMTT(60), <1>5, <1>6
<1>8. 1 \in 1 .. 3 /\ 2 \in 1 .. 3 /\ 3 \in 1 .. 3
  BY SMTT(60)
<1>9. /\ DOMAIN w = 1 .. 3
      /\ w[1] = <<op, h[1]>> /\ w[2] = <<op, h[2]>> /\ w[3] = <<op, h[3]>>
  BY <1>6, <1>8
<1> HIDE DEF w
<1>10. \A x : x \in Items(w) <=> x = w[1] \/ x = w[2] \/ x = w[3]
  BY <1>3, <1>8, <1>9 DEF Items
<1>11. Items(w) = {<<op, <<"v1", t>>>>, <<op, <<"v2", got>>>>, <<op, <<"v2to1", got>>>>}
  BY <1>1, <1>9, <1>10
<1> QED
  BY <1>7, <1>11 DEF w, h

\* The keys Approved looks for.
LookupSet(k) == {Lookups(k)[i] : i \in DOMAIN Lookups(k)}

LEMMA LookupKeys ==
    ASSUME NEW k
    PROVE  LookupSet(k) = IF k[1] = "v2" THEN {k, <<"v2to1", k[2]>>} ELSE {k}
<1>1. CASE k[1] = "v2"
  <2>1. /\ DOMAIN Lookups(k) = {1, 2}
        /\ Lookups(k)[1] = k /\ Lookups(k)[2] = <<"v2to1", k[2]>>
    BY SMTT(60), <1>1 DEF Lookups
  <2> QED
    BY <1>1, <2>1 DEF LookupSet
<1>2. CASE k[1] # "v2"
  <2>1. DOMAIN Lookups(k) = {1} /\ Lookups(k)[1] = k
    BY SMTT(60), <1>2 DEF Lookups
  <2> QED
    BY <1>2, <2>1 DEF LookupSet
<1> QED
  BY SMTT(60), <1>1, <1>2

LEMMA ListedKey ==
    ASSUME NEW k, NEW S PROVE Listed(k, S) <=> \E x \in LookupSet(k) : x \in S
BY DEF Listed, LookupSet

LEMMA KeyParts == ASSUME NEW k \in Key PROVE k[2] \in Torrent /\ <<"v2to1", k[2]>> \in Key
BY SMTT(60) DEF Key

\* What the lemmas use of finite sets; it is proved before the theorems.
Finite == \A T \in SUBSET Torrent : Cardinality(T) \in Nat

\* What Scan hands over, and which of it.
LEMMA ScanReports ==
    ASSUME TypeOK, Scan, Finite
    PROVE  /\ known' \in [Torrent -> File \cup {NoFile}]
           /\ events' \in Seq(EventType)
           /\ Items(events') =
                  ReportSet("Removed", {t \in Torrent : known[t] # NoFile /\ known'[t] = NoFile}, known)
                  \cup ReportSet("Added", {t \in Torrent : known[t] = NoFile /\ known'[t] # NoFile}, known')
<1> DEFINE Lost(new) == {t \in Torrent : known[t] # NoFile /\ new[t] = NoFile}
           Found(new) == {t \in Torrent : known[t] = NoFile /\ new[t] # NoFile}
<1>0. PICK new \in [Torrent -> File \cup {NoFile}] :
         /\ \E gone \in Orders(Lost(new)), added \in Orders(Found(new)) :
               events' = Reports("Removed", gone, known) \o Reports("Added", added, new)
         /\ known' = new
  BY DEF Scan
<1>1. PICK gone \in Orders(Lost(new)), added \in Orders(Found(new)) :
         events' = Reports("Removed", gone, known) \o Reports("Added", added, new)
  BY <1>0
<1>2. known \in [Torrent -> File \cup {NoFile}]
  BY DEF TypeOK
<1>3. /\ Lost(new) \in SUBSET Torrent /\ \A t \in Lost(new) : known[t] \in File
      /\ Found(new) \in SUBSET Torrent /\ \A t \in Found(new) : new[t] \in File
  BY <1>0, <1>2
<1>4. Cardinality(Lost(new)) \in Nat /\ Cardinality(Found(new)) \in Nat
  BY <1>3 DEF Finite
<1> HIDE DEF Lost, Found
<1>5. /\ Reports("Removed", gone, known) \in Seq(EventType)
      /\ Items(Reports("Removed", gone, known)) = ReportSet("Removed", Lost(new), known)
  BY <1>3, <1>4, OrderReports
<1>6. /\ Reports("Added", added, new) \in Seq(EventType)
      /\ Items(Reports("Added", added, new)) = ReportSet("Added", Found(new), new)
  BY <1>3, <1>4, OrderReports
<1>7. /\ events' \in Seq(EventType)
      /\ Items(events') = Items(Reports("Removed", gone, known)) \cup Items(Reports("Added", added, new))
  <2> DEFINE a == Reports("Removed", gone, known)
             b == Reports("Added", added, new)
  <2>1. a \in Seq(EventType) /\ b \in Seq(EventType) /\ events' = a \o b
    BY <1>1, <1>5, <1>6
  <2> HIDE DEF a, b
  <2>2. a \o b \in Seq(EventType) /\ Items(a \o b) = Items(a) \cup Items(b)
    BY <2>1, ItemsConcat
  <2> QED
    BY <2>1, <2>2 DEF a, b
<1> QED
  BY <1>0, <1>5, <1>6, <1>7 DEF Lost, Found

\* What Load makes of the report it takes.
LEMMA LoadWork ==
    ASSUME TypeOK, Load
    PROVE  LET e == Head(events)
               got == dir[e.file]
               op == IF e.change = "Added" THEN "Put" ELSE "Delete"
           IN  /\ e \in EventType /\ e \in Items(events)
               /\ events' \in Seq(EventType) /\ Items(events) = {e} \cup Items(events')
               /\ got \in Torrent \cup {NoTorrent}
               /\ work' \in Seq(WorkType)
               /\ \/ work' = <<>> /\ (got = NoTorrent \/ e.change = "Removed")
                  \/ /\ got \in Torrent
                     /\ Items(work') = {<<op, <<"v1", e.torrent>>>>, <<op, <<"v2", got>>>>,
                                        <<op, <<"v2to1", got>>>>}
<1> DEFINE e == Head(events)
           got == dir[e.file]
           op == IF e.change = "Added" THEN "Put" ELSE "Delete"
           keys == Hashes(e.torrent, got)
<1>1. events \in Seq(EventType) /\ events # <<>> /\ events' = Tail(events)
  BY DEF TypeOK, Load, EventType
<1>2. e \in EventType /\ events' \in Seq(EventType) /\ Items(events) = {e} \cup Items(events')
  BY <1>1, HeadTail
<1>3. e.torrent \in Torrent /\ e.file \in File /\ e.change \in {"Added", "Removed"}
  BY SMTT(60), <1>2 DEF EventType
<1>4. got \in Torrent \cup {NoTorrent}
  BY <1>3 DEF TypeOK
<1>5. work' = IF got = NoTorrent \/ (e.change = "Removed" /\ ~conf.ctx) THEN <<>>
              ELSE [i \in DOMAIN keys |-> <<op, keys[i]>>]
  BY DEF Load
<1>6. op \in {"Put", "Delete"}
  OBVIOUS
<1> HIDE DEF e, got, op
<1>7. CASE got = NoTorrent \/ (e.change = "Removed" /\ ~conf.ctx)
  <2>1. work' = <<>>
    BY <1>5, <1>7
  <2>2. work' \in Seq(WorkType)
    BY SMTT(60), <2>1
  <2> QED
    BY <1>2, <1>4, <1>7, <2>1, <2>2 DEF e, got, op
<1>8. CASE ~(got = NoTorrent \/ (e.change = "Removed" /\ ~conf.ctx))
  <2>1. got \in Torrent
    BY <1>4, <1>8
  <2>2. work' = [i \in DOMAIN keys |-> <<op, keys[i]>>]
    BY <1>5, <1>8
  <2>3. /\ work' \in Seq(WorkType)
        /\ Items(work') = {<<op, <<"v1", e.torrent>>>>, <<op, <<"v2", got>>>>,
                           <<op, <<"v2to1", got>>>>}
    BY <1>3, <1>6, <2>1, <2>2, ReportWork
  <2> QED
    BY <1>2, <1>4, <2>1, <2>3 DEF e, got, op
<1> QED
  BY <1>7, <1>8

\* The types in two parts: what the watcher and the process have, and what the
\* announces have.
WatchType ==
    /\ conf \in Config
    /\ dir \in [File -> Torrent \cup {NoTorrent}]
    /\ known \in [Torrent -> File \cup {NoFile}]
    /\ events \in Seq(EventType) /\ work \in Seq(WorkType)
    /\ err \in BOOLEAN /\ store \subseteq Key /\ missed \subseteq Torrent
    /\ main \in {"build", "up", "failed", "closed"}
    /\ ops \in 0 .. MaxOps /\ fails \in 0 .. MaxFails

ReadType ==
    /\ rpc \in [Reader -> {"idle", "lookup", "lookup2", "done"}]
    /\ rkey \in [Reader -> Key \cup {NoKey}]
    /\ contains \in [Reader -> BOOLEAN] /\ seen \in [Reader -> BOOLEAN]
    /\ steady \in [Reader -> SUBSET Key] /\ failed \in [Reader -> BOOLEAN]

LEMMA TypeParts == TypeOK <=> WatchType /\ ReadType
BY DEF TypeOK, WatchType, ReadType, EventType, WorkType

LEMMA FailType == ASSUME WatchType, Fail PROVE fails' \in 0 .. MaxFails
BY SMTT(60), ApprovalAssumption DEF WatchType, Fail

LEMMA InitType == ASSUME Init PROVE TypeOK
<1>1. events \in Seq(EventType) /\ work \in Seq(WorkType)
  BY SMTT(60) DEF Init, NotBuilt
<1>2. 0 \in 0 .. MaxOps /\ 0 \in 0 .. MaxFails
  BY SMTT(60), ApprovalAssumption
<1>3. WatchType
  BY <1>1, <1>2, ApprovalAssumption DEF Init, NotBuilt, WatchType
<1>4. ReadType
  BY DEF Init, NotBuilt, ReadType
<1> QED
  BY SMTT(60), <1>3, <1>4, TypeParts

LEMMA ListedKeysType == ListedKeys \subseteq Key
BY ApprovalAssumption DEF ListedKeys, Key

LEMMA EmptyQueues == <<>> \in Seq(EventType) /\ <<>> \in Seq(WorkType)
BY SMTT(60)

\* Taking a storage operation.
LEMMA StoreHead ==
    ASSUME WatchType, work # <<>>
    PROVE  /\ Head(work) \in WorkType /\ Tail(work) \in Seq(WorkType)
           /\ Items(work) = {Head(work)} \cup Items(Tail(work))
           /\ Head(work)[2] \in Key
           /\ Head(work) = <<Head(work)[1], Head(work)[2]>>
           /\ Head(work)[1] \in {"Put", "Delete"}
<1>1. /\ Head(work) \in WorkType /\ Tail(work) \in Seq(WorkType)
      /\ Items(work) = {Head(work)} \cup Items(Tail(work))
  BY HeadTail DEF WatchType
<1>2. \A w \in WorkType : w[2] \in Key /\ w = <<w[1], w[2]>> /\ w[1] \in {"Put", "Delete"}
  BY SMTT(60) DEF WorkType
<1> QED
  BY <1>1, <1>2

\* The torrents of the storage operations in hand.
LEMMA WorkTorrents ==
    ASSUME WatchType
    PROVE  {work[i][2][2] : i \in DOMAIN work} \subseteq Torrent
<1>1. \A w \in WorkType : w[2][2] \in Torrent
  BY SMTT(60) DEF WorkType, Key
<1>2. \A i \in DOMAIN work : work[i] \in WorkType
  BY SMTT(60) DEF WatchType
<1> QED
  BY <1>1, <1>2

LEMMA WatchStep ==
    ASSUME TypeOK, Finite, Next PROVE WatchType'
<1> USE TypeParts
<1>0. WatchType /\ ReadType
  OBVIOUS
<1>1. ASSUME NEW f \in File, Change(f) PROVE WatchType'
  <2>1. ops' \in 0 .. MaxOps
    BY SMTT(60), <1>0, <1>1, ApprovalAssumption DEF WatchType, Change
  <2>2. PICK t \in Torrent \cup {NoTorrent} : dir' = [dir EXCEPT ![f] = t]
    BY <1>1 DEF Change
  <2>3. dir' \in [File -> Torrent \cup {NoTorrent}]
    BY <1>0, <2>2 DEF WatchType
  <2> QED
    BY <1>0, <1>1, <2>1, <2>3 DEF WatchType, Change, watchVars
<1>2. CASE Scan
  BY <1>0, <1>2, ScanReports DEF WatchType, Scan
<1>3. CASE Load
  <2> DEFINE e == Head(events)
             got == dir[e.file]
  <2>1. /\ events' \in Seq(EventType) /\ work' \in Seq(WorkType)
        /\ e \in EventType /\ got \in Torrent \cup {NoTorrent}
    BY <1>3, LoadWork
  <2>2. e.torrent \in Torrent
    BY SMTT(60), <2>1 DEF EventType
  <2>3. err' = (got = NoTorrent)
    BY <1>3 DEF Load
  <2>4. \/ missed' = missed \ {got} \/ missed' = missed \cup {e.torrent}
        \/ missed' = missed \cup ({got} \ {e.torrent, NoTorrent})
    BY <1>3 DEF Load
  <2> HIDE DEF e, got
  <2>5. missed' \subseteq Torrent /\ err' \in BOOLEAN
    BY <1>0, <2>1, <2>2, <2>3, <2>4 DEF WatchType
  <2> QED
    BY <1>0, <1>3, <2>1, <2>5 DEF WatchType, Load
<1>4. CASE Store
  <2>1. work # <<>> /\ UNCHANGED <<conf, dir, known, events, err, main, ops>>
    BY <1>4 DEF Store
  <2>2. CASE /\ store' = IF Head(work)[1] = "Put" THEN store \cup {Head(work)[2]}
                        ELSE store \ {Head(work)[2]}
             /\ work' = Tail(work) /\ UNCHANGED <<fails, missed>>
    <3>1. work' \in Seq(WorkType) /\ store' \subseteq Key
      BY <1>0, <2>1, <2>2, StoreHead DEF WatchType
    <3> QED
      BY <1>0, <2>1, <2>2, <3>1 DEF WatchType
  <2>3. CASE /\ Fail /\ work' = <<>> /\ UNCHANGED store
             /\ missed' = missed \cup {work[i][2][2] : i \in DOMAIN work}
    <3>1. fails' \in 0 .. MaxFails
      BY <1>0, <2>3, FailType
    <3>2. missed' \subseteq Torrent
      BY <1>0, <2>3, WorkTorrents DEF WatchType
    <3> QED
      BY <1>0, <2>1, <2>3, <3>1, <3>2, EmptyQueues DEF WatchType
  <2> QED
    BY <1>4, <2>2, <2>3 DEF Store
<1>5. CASE BuildList
  <2>1. UNCHANGED <<conf, dir, watchVars, ops>>
    BY <1>5 DEF BuildList
  <2>2. CASE main' = "up" /\ store' = store \cup ListedKeys /\ UNCHANGED fails
    BY <1>0, <2>1, <2>2, ListedKeysType DEF WatchType, watchVars
  <2>3. ASSUME NEW D \in SUBSET ListedKeys, store' = store \cup D, main' = "failed", Fail
        PROVE  WatchType'
    BY <1>0, <2>1, <2>3, FailType, ListedKeysType DEF WatchType, watchVars
  <2> QED
    BY <1>5, <2>2, <2>3 DEF BuildList
<1>6. CASE Built
  BY <1>0, <1>6 DEF WatchType, Built, watchVars
<1>7. CASE Close
  BY <1>0, <1>7 DEF WatchType, Close, watchVars
<1>8. CASE Restart
  <2>1. fails' \in 0 .. MaxFails
    BY <1>0, <1>8, FailType DEF Restart
  <2>2. store' \subseteq Key
    BY <1>0, <1>8 DEF WatchType, Restart
  <2> QED
    BY <1>0, <1>8, <2>1, <2>2, EmptyQueues DEF WatchType, Restart
<1>9. ASSUME NEW r \in Reader, NEW k \in Key, Announce(r, k) PROVE WatchType'
  BY <1>0, <1>9 DEF WatchType, Announce, watchVars
<1>10. ASSUME NEW r \in Reader, ContainsKey(r) \/ ContainsV2(r) \/ Return(r) PROVE WatchType'
  <2>1. fails' \in 0 .. MaxFails
    <3>1. CASE Fail
      BY SMTT(60), <1>0, <3>1, FailType
    <3>2. CASE UNCHANGED fails
      BY <1>0, <3>2 DEF WatchType
    <3> QED
      BY <1>10, <3>1, <3>2 DEF ContainsKey, ContainsV2, Return
  <2>2. UNCHANGED <<conf, dir, watchVars, store, main, ops>>
    BY <1>10 DEF ContainsKey, ContainsV2, Return
  <2> QED
    BY <1>0, <2>1, <2>2 DEF WatchType, watchVars
<1> QED
  BY <1>1, <1>2, <1>3, <1>4, <1>5, <1>6, <1>7, <1>8, <1>9, <1>10 DEF Next

\* The steps of other parts that the announces see.
LEMMA ReadFrame == ASSUME ReadType, UNCHANGED readVars PROVE ReadType'
BY DEF ReadType, readVars

LEMMA ReadObserve == ASSUME ReadType, Observe PROVE ReadType'
BY DEF ReadType, Observe

LEMMA ReadIdle == ASSUME Idle PROVE ReadType'
BY DEF ReadType, Idle

LEMMA ReadStep ==
    ASSUME TypeOK, Next PROVE ReadType'
<1>0. ReadType
  BY SMTT(60), TypeParts
<1>1. CASE UNCHANGED readVars
  BY SMTT(60), <1>0, <1>1, ReadFrame
<1>2. CASE Observe
  BY SMTT(60), <1>0, <1>2, ReadObserve
<1>3. CASE Idle
  BY SMTT(60), <1>3, ReadIdle
<1>4. ASSUME NEW r \in Reader, NEW k \in Key, Announce(r, k) PROVE ReadType'
  <2>1. Listed(k, store) \in BOOLEAN
    BY DEF Listed
  <2>2. LookupSet(k) \in SUBSET Key
    BY LookupKeys, KeyParts
  <2>3. /\ rpc' \in [Reader -> {"idle", "lookup", "lookup2", "done"}]
        /\ rkey' \in [Reader -> Key \cup {NoKey}]
    BY <1>0, <1>4 DEF ReadType, Announce
  <2>4. seen' \in [Reader -> BOOLEAN]
    BY <1>0, <1>4, <2>1 DEF ReadType, Announce
  <2>5. steady' \in [Reader -> SUBSET Key]
    <3> DEFINE S == LookupSet(k) \cap store
    <3>1. S \in SUBSET Key /\ steady' = [steady EXCEPT ![r] = S]
      BY <1>4, <2>2 DEF Announce, LookupSet
    <3> HIDE DEF S
    <3> QED
      BY <1>0, <3>1 DEF ReadType
  <2> QED
    BY <1>0, <1>4, <2>3, <2>4, <2>5 DEF ReadType, Announce
<1>5. ASSUME NEW r \in Reader, ContainsKey(r) PROVE ReadType'
  <2>1. rpc' \in [Reader -> {"idle", "lookup", "lookup2", "done"}]
    BY <1>0, <1>5 DEF ReadType, ContainsKey
  <2>a. PICK b \in BOOLEAN : b = (rkey[r] \in store)
    <3>1. CASE rkey[r] \in store
      <4>1. TRUE = (rkey[r] \in store)
        BY SMTT(60), <3>1
      <4> QED
        BY <4>1
    <3>2. CASE rkey[r] \notin store
      <4>1. FALSE = (rkey[r] \in store)
        BY SMTT(60), <3>2
      <4> QED
        BY <4>1
    <3> QED
      BY <3>1, <3>2
  <2>2. /\ contains' = [contains EXCEPT ![r] = b] \/ UNCHANGED contains
        /\ failed' = [failed EXCEPT ![r] = TRUE] \/ UNCHANGED failed
    BY <1>5, <2>a DEF ContainsKey
  <2>3. contains' \in [Reader -> BOOLEAN] /\ failed' \in [Reader -> BOOLEAN]
    BY <1>0, <2>2 DEF ReadType
  <2> QED
    BY <1>0, <1>5, <2>1, <2>3 DEF ReadType, ContainsKey
<1>6. ASSUME NEW r \in Reader, ContainsV2(r) PROVE ReadType'
  <2>1. contains' \in [Reader -> BOOLEAN] /\ failed' \in [Reader -> BOOLEAN]
    BY <1>0, <1>6 DEF ReadType, ContainsV2, Or
  <2> QED
    BY <1>0, <1>6, <2>1 DEF ReadType, ContainsV2
<1>7. ASSUME NEW r \in Reader, Return(r) PROVE ReadType'
  BY <1>0, <1>7 DEF ReadType, Return
<1>8. UNCHANGED readVars \/ Observe \/ Idle
        \/ \E r \in Reader : (\E k \in Key : Announce(r, k)) \/ ContainsKey(r) \/ ContainsV2(r) \/ Return(r)
  BY DEF Next, Change, Scan, Load, Store, BuildList, Built, Close, Restart
<1> QED
  BY <1>1, <1>2, <1>3, <1>4, <1>5, <1>6, <1>7, <1>8

LEMMA TypeStep == ASSUME TypeOK, Finite, [Next]_vars PROVE TypeOK'
<1>1. CASE Next
  <2>1. WatchType' /\ ReadType'
    BY <1>1, WatchStep, ReadStep
  <2> QED
    BY <2>1 DEF TypeOK, WatchType, ReadType, EventType, WorkType
<1>2. CASE UNCHANGED vars
  BY <1>2 DEF TypeOK, vars, watchVars, readVars
<1> QED
  BY <1>1, <1>2

----------------------------------------------------------------------------
(* The storage follows the directory.                                      *)

\* A torrent stays open when nothing it depends on is lost.
LEMMA OpenFrame ==
    ASSUME NEW t, Open(t), missed \subseteq missed', known' = known, Items(events') = Items(events)
    PROVE  Open(t)'
BY DEF Open, ToAdd

LEMMA FollowingFrame ==
    ASSUME Following, UNCHANGED <<conf, known, events, work, missed>>, store \subseteq store',
           conf.source = "list" /\ main' \in {"up", "closed"} =>
               main \in {"up", "closed"} \/ ListedKeys \subseteq store'
    PROVE  Following'
<1>1. \A t : Open(t)' <=> Open(t)
  BY DEF Open, ToAdd
<1> QED
  BY <1>1 DEF Following

LEMMA ScanFollowing ==
    ASSUME TypeOK, Following, Finite, Scan
    PROVE  Following'
<1>1. Items(events') =
         ReportSet("Removed", {t \in Torrent : known[t] # NoFile /\ known'[t] = NoFile}, known)
         \cup ReportSet("Added", {t \in Torrent : known[t] = NoFile /\ known'[t] # NoFile}, known')
  BY SMTT(60), ScanReports
<1>2. Items(events) = {} /\ UNCHANGED <<conf, work, missed, store, main>> /\ conf.source # "list"
  BY SMTT(60), ItemsEmpty DEF Scan
<1>3. ASSUME NEW e \in Items(events'), e.change = "Removed" PROVE known'[e.torrent] = NoFile
  <2>1. PICK t \in Torrent : \/ known'[t] = NoFile /\ e = Report("Removed", t, known[t])
                             \/ e = Report("Added", t, known'[t])
    BY <1>1, <1>3 DEF ReportSet
  <2> QED
    BY SMTT(60), <1>3, <2>1 DEF Report
<1>4. ASSUME NEW t \in Torrent, Open(t) PROVE Open(t)'
  <2>1. t \in missed \/ known[t] = NoFile
    BY <1>2, <1>4 DEF Open, ToAdd
  <2>2. CASE known[t] = NoFile /\ known'[t] # NoFile
    <3>1. Report("Added", t, known'[t]) \in Items(events')
      BY <1>1, <2>2 DEF ReportSet
    <3>2. Report("Added", t, known'[t]).change = "Added" /\ Report("Added", t, known'[t]).torrent = t
      BY SMTT(60) DEF Report
    <3> QED
      BY <3>1, <3>2 DEF Open, ToAdd
  <2> QED
    BY <1>2, <2>1, <2>2 DEF Open
<1> QED
  BY <1>2, <1>3, <1>4 DEF Following

LEMMA LoadFollowing ==
    ASSUME TypeOK, Following, Load
    PROVE  Following'
<1>a. PICK e : e = Head(events)
  BY SMTT(60)
<1>b. PICK got : got = dir[e.file]
  BY SMTT(60)
<1>5. PICK op : op = IF e.change = "Added" THEN "Put" ELSE "Delete"
  BY SMTT(60)
<1>1. /\ e \in EventType /\ e \in Items(events)
      /\ Items(events) = {e} \cup Items(events')
      /\ got \in Torrent \cup {NoTorrent}
      /\ \/ work' = <<>> /\ (got = NoTorrent \/ e.change = "Removed")
         \/ /\ got \in Torrent
            /\ Items(work') = {<<op, <<"v1", e.torrent>>>>, <<op, <<"v2", got>>>>,
                               <<op, <<"v2to1", got>>>>}
  BY <1>a, <1>b, <1>5, LoadWork
<1>2. e.torrent \in Torrent /\ e.change \in {"Added", "Removed"}
  BY SMTT(60), <1>1 DEF EventType
<1>3. /\ UNCHANGED <<conf, known, store, main>> /\ work = <<>> /\ events # <<>>
      /\ missed' = IF e.change = "Added"
                   THEN IF got = e.torrent THEN missed \ {got} ELSE missed \cup {e.torrent}
                   ELSE missed \cup ({got} \ {e.torrent, NoTorrent})
  BY <1>a, <1>b DEF Load
<1>4. Items(work) = {} /\ conf.source # "list" /\ NoTorrent \notin Torrent
  BY <1>3, ItemsEmpty, ApprovalAssumption DEF Following
<1>6. CASE e.change = "Added"
  <2>1. op = "Put"
    BY SMTT(60), <1>5, <1>6
  <2>2. ASSUME NEW t \in Torrent, Open(t), t # e.torrent PROVE Open(t)'
    BY <1>1, <1>3, <1>6, <2>2 DEF Open, ToAdd
  <2>3. \A v \in Versions, t \in Torrent : <<"Delete", <<v, t>>>> \notin Items(work')
    BY SMTT(60), <1>1, <2>1, ItemsEmpty
  <2>4. CASE got = e.torrent
    <3>1. \A v \in Versions : <<"Put", <<v, e.torrent>>>> \in Items(work')
      BY <1>1, <1>2, <1>4, <1>6, <2>1, <2>4 DEF Versions
    <3> QED
      BY <1>1, <1>3, <1>4, <2>2, <2>3, <3>1 DEF Following
  <2>5. CASE got # e.torrent
    <3>1. Open(e.torrent)'
      BY <1>3, <1>6, <2>5 DEF Open
    <3> QED
      BY <1>1, <1>3, <1>4, <2>2, <2>3, <3>1 DEF Following
  <2> QED
    BY SMTT(60), <2>4, <2>5
<1>7. CASE e.change = "Removed"
  <2>1. op = "Delete"
    BY SMTT(60), <1>5, <1>7
  <2>2. ASSUME NEW t \in Torrent, Open(t) PROVE Open(t)'
    BY <1>1, <1>3, <1>7, <2>2 DEF Open, ToAdd
  <2>3. Open(e.torrent)'
    BY <1>1, <1>3, <1>7 DEF Following, Open
  <2>4. got \in Torrent => Open(got)'
    BY <1>3, <1>4, <1>7, <2>3 DEF Open
  <2>5. ASSUME NEW v \in Versions, NEW t \in Torrent, <<"Delete", <<v, t>>>> \in Items(work')
        PROVE  Open(t)'
    <3>1. t = e.torrent \/ t = got
      BY SMTT(60), <1>1, <2>5, ItemsEmpty
    <3> QED
      BY <2>3, <2>4, <3>1
  <2> QED
    BY <1>1, <1>3, <1>4, <2>2, <2>5 DEF Following
<1> QED
  BY <1>2, <1>6, <1>7

LEMMA StoreFollowing ==
    ASSUME TypeOK, Following, Store
    PROVE  Following'
<1>0. WatchType
  BY SMTT(60), TypeParts
<1>1. /\ work # <<>> /\ conf.source # "list"
      /\ UNCHANGED <<conf, known, events, main>>
  BY DEF Store, Following
<1>2. PICK w : w = Head(work)
  BY SMTT(60)
<1>3. /\ Items(work) = {w} \cup Items(Tail(work)) /\ w = <<w[1], w[2]>>
      /\ w[1] \in {"Put", "Delete"}
  BY <1>0, <1>1, <1>2, StoreHead
<1>4. CASE /\ store' = IF w[1] = "Put" THEN store \cup {w[2]} ELSE store \ {w[2]}
           /\ work' = Tail(work) /\ UNCHANGED missed
  <2>1. \A t : Open(t)' <=> Open(t)
    BY <1>1, <1>4 DEF Open, ToAdd
  <2>2. Items(work') \subseteq Items(work)
    BY <1>3, <1>4
  <2>3. ASSUME NEW v \in Versions, NEW t \in Torrent
        PROVE  Open(t)' \/ <<v, t>> \in store' \/ <<"Put", <<v, t>>>> \in Items(work')
    <3>1. CASE w[1] = "Put"
      <4>1. <<"Put", <<v, t>>>> = w => <<v, t>> = w[2]
        BY SMTT(60)
      <4> QED
        BY <1>3, <1>4, <2>1, <3>1, <4>1 DEF Following
    <3>2. CASE w[1] = "Delete"
      <4>1. <<"Put", <<v, t>>>> # w
        BY SMTT(60), <3>2
      <4>2. <<v, t>> = w[2] => Open(t)
        BY <1>3, <3>2 DEF Following
      <4>3. store' = store \ {w[2]}
        BY <1>4, <3>2
      <4> QED
        BY <1>3, <1>4, <2>1, <4>1, <4>2, <4>3 DEF Following
    <3> QED
      BY <1>3, <3>1, <3>2
  <2> QED
    BY <1>1, <2>1, <2>2, <2>3 DEF Following
<1>5. CASE /\ work' = <<>> /\ UNCHANGED store
           /\ missed' = missed \cup {work[i][2][2] : i \in DOMAIN work}
  <2>1. \A t : Open(t) => Open(t)'
    BY <1>1, <1>5 DEF Open, ToAdd
  <2>2. Items(work') = {}
    BY <1>5, ItemsEmpty
  <2>3. ASSUME NEW v \in Versions, NEW t \in Torrent, <<"Put", <<v, t>>>> \in Items(work)
        PROVE  t \in missed'
    <3>1. PICK i \in DOMAIN work : work[i] = <<"Put", <<v, t>>>>
      BY <2>3 DEF Items
    <3>2. work[i][2][2] = t
      BY SMTT(60), <3>1
    <3> QED
      BY <1>5, <3>1, <3>2
  <2>4. \A v \in Versions, t \in Torrent : Open(t)' \/ <<v, t>> \in store'
    BY <1>5, <2>1, <2>3 DEF Following, Open
  <2> QED
    BY <1>1, <2>2, <2>4 DEF Following
<1> QED
  BY <1>2, <1>4, <1>5 DEF Store

LEMMA RestartFollowing ==
    ASSUME Restart
    PROVE  Following'
<1>1. \A t \in Torrent : Open(t)'
  BY DEF Restart, Open
<1>2. Items(events') = {} /\ main' = "build" /\ events' = <<>> /\ work' = <<>>
  BY ItemsEmpty DEF Restart
<1> QED
  BY <1>1, <1>2 DEF Following

LEMMA FollowingStep ==
    ASSUME TypeOK, Following, Finite, [Next]_vars
    PROVE  Following'
<1>1. ASSUME NEW f \in File, Change(f) PROVE Following'
  BY <1>1, FollowingFrame DEF Change, watchVars
<1>2. CASE BuildList
  <2>1. store \subseteq store' /\ (main' = "up" => ListedKeys \subseteq store')
    BY <1>2 DEF BuildList
  <2>2. main' \in {"up", "failed"} /\ UNCHANGED <<conf, watchVars>>
    BY <1>2 DEF BuildList
  <2> QED
    BY <2>1, <2>2, FollowingFrame DEF watchVars
<1>3. CASE Built
  <2>1. conf.source # "list"
    BY SMTT(60), <1>3 DEF Built
  <2> QED
    BY <1>3, <2>1, FollowingFrame DEF Built, watchVars
<1>4. CASE Close
  BY <1>4, FollowingFrame DEF Close, watchVars
<1>5. ASSUME NEW r \in Reader, (\E k \in Key : Announce(r, k)) \/ ContainsKey(r) \/ ContainsV2(r) \/ Return(r)
      PROVE  Following'
  <2>1. UNCHANGED <<conf, watchVars, store, main>>
    BY <1>5 DEF Announce, ContainsKey, ContainsV2, Return
  <2> QED
    BY <2>1, FollowingFrame DEF watchVars
<1>6. CASE UNCHANGED vars
  BY <1>6, FollowingFrame DEF vars, watchVars
<1> QED
  BY <1>1, <1>2, <1>3, <1>4, <1>5, <1>6, ScanFollowing, LoadFollowing, StoreFollowing,
     RestartFollowing DEF Next

LEMMA FollowingListed == ASSUME Following PROVE DirectoryListed
<1>1. ASSUME conf.source = "directory", events = <<>>, work = <<>>,
             NEW t \in Torrent \ missed, known[t] # NoFile, NEW v \in Versions
      PROVE  <<v, t>> \in store
  <2>1. Items(events) = {} /\ Items(work) = {}
    BY <1>1, ItemsEmpty
  <2> QED
    BY <1>1, <2>1 DEF Following, Open, ToAdd
<1>2. ASSUME conf.source = "list", main = "up", NEW t \in Torrent
      PROVE  (t \in ListV1 => <<"v1", t>> \in store) /\ (t \in ListV2 => <<"v2to1", t>> \in store)
  BY <1>2 DEF Following, ListedKeys
<1> QED
  BY <1>1, <1>2 DEF DirectoryListed, InDir, Versions

----------------------------------------------------------------------------
(* Verdicts.                                                               *)

\* What Verdict says of the state of one announce and the storage.
LEMMA VerdictFrame ==
    ASSUME NEW r, Verdict(r), store' = store, rpc'[r] = rpc[r], rkey'[r] = rkey[r],
           contains'[r] = contains[r], seen'[r] = seen[r], steady'[r] = steady[r],
           failed'[r] = failed[r]
    PROVE  Verdict(r)'
BY DEF Verdict, Listed

\* The storage changes under an announce.
LEMMA VerdictObserve ==
    ASSUME ReadType, NEW r \in Reader, Verdict(r), Observe
    PROVE  Verdict(r)'
<1>1. /\ seen'[r] = (seen[r] \/ (rpc[r] \in {"lookup", "lookup2"} /\ Listed(rkey[r], store')))
      /\ steady'[r] = steady[r] \cap store'
      /\ UNCHANGED <<rpc, rkey, contains, failed>>
  BY DEF Observe
<1>2. seen[r] \in BOOLEAN
  BY DEF ReadType
<1>3. Listed(rkey[r], store)' <=> Listed(rkey[r], store')
  BY <1>1 DEF Listed
<1> QED
  BY <1>1, <1>2, <1>3 DEF Verdict

LEMMA VerdictIdle == ASSUME NEW r \in Reader, Idle PROVE Verdict(r)'
<1>1. rpc'[r] = "idle" /\ ~contains'[r] /\ ~failed'[r]
  BY DEF Idle
<1> QED
  BY SMTT(60), <1>1 DEF Verdict

LEMMA VerdictAnnounce ==
    ASSUME ReadType, NEW r \in Reader, NEW k \in Key, Verdict(r), Announce(r, k)
    PROVE  Verdict(r)'
<1>1. /\ rpc[r] = "idle" /\ rpc'[r] = "lookup" /\ rkey'[r] = k
      /\ seen'[r] = Listed(k, store)
      /\ UNCHANGED <<store, contains, failed>>
  BY DEF ReadType, Announce
<1>2. steady'[r] = LookupSet(k) \cap store
  BY DEF ReadType, Announce, LookupSet
<1>3. ~contains'[r] /\ ~failed'[r]
  BY SMTT(60), <1>1 DEF Verdict
<1>4. \A x \in steady'[r] : x = k \/ (k[1] = "v2" /\ x = <<"v2to1", k[2]>>)
  BY <1>2, LookupKeys
<1>5. Listed(rkey[r], store)' <=> Listed(k, store)
  BY <1>1 DEF Listed
<1> QED
  BY SMTT(60), <1>1, <1>2, <1>3, <1>4, <1>5 DEF Verdict

LEMMA VerdictContains ==
    ASSUME ReadType, NEW r \in Reader, Verdict(r), ContainsKey(r)
    PROVE  Verdict(r)'
<1>1. /\ rpc[r] = "lookup" /\ UNCHANGED <<store, rkey, seen, steady>>
      /\ ~contains[r] /\ ~failed[r]
  BY SMTT(60) DEF ContainsKey, Verdict
<1>2. Listed(rkey[r], store)' <=> Listed(rkey[r], store)
  BY <1>1 DEF Listed
<1>3. CASE /\ contains' = [contains EXCEPT ![r] = rkey[r] \in store] /\ UNCHANGED failed
           /\ rpc' = [rpc EXCEPT ![r] = IF rkey[r][1] = "v2" THEN "lookup2" ELSE "done"]
  <2>a. contains'[r] <=> rkey[r] \in store
    BY <1>3 DEF ReadType
  <2>b. rpc'[r] = IF rkey[r][1] = "v2" THEN "lookup2" ELSE "done"
    BY <1>3 DEF ReadType
  <2>c. ~failed'[r]
    BY <1>1, <1>3
  <2>1. /\ contains'[r] <=> rkey[r] \in store
        /\ rpc'[r] = IF rkey[r][1] = "v2" THEN "lookup2" ELSE "done"
        /\ ~failed'[r]
    BY <2>a, <2>b, <2>c
  <2>2. rkey[r] \in store => seen[r]
    BY <1>1, ListedKey, LookupKeys DEF Verdict
  <2> QED
    BY SMTT(60), <1>1, <1>2, <2>1, <2>2 DEF Verdict
<1>4. CASE /\ failed' = [failed EXCEPT ![r] = TRUE] /\ UNCHANGED contains
           /\ rpc' = [rpc EXCEPT ![r] = "done"]
  <2>1. failed'[r] /\ rpc'[r] = "done" /\ ~contains'[r]
    BY SMTT(60), <1>1, <1>4 DEF ReadType
  <2> QED
    BY SMTT(60), <1>1, <2>1 DEF Verdict
<1> QED
  BY <1>3, <1>4 DEF ContainsKey

LEMMA VerdictContainsV2 ==
    ASSUME ReadType, NEW r \in Reader, Verdict(r), ContainsV2(r)
    PROVE  Verdict(r)'
<1> DEFINE k2 == <<"v2to1", rkey[r][2]>>
<1>1. /\ rpc[r] = "lookup2" /\ UNCHANGED <<store, rkey, seen, steady>>
      /\ ~failed[r] /\ rkey[r][1] = "v2" /\ rpc' = [rpc EXCEPT ![r] = "done"]
  BY SMTT(60) DEF ContainsV2, Verdict
<1>2. rpc'[r] = "done" /\ contains[r] \in BOOLEAN
  BY <1>1 DEF ReadType
<1>3. k2 \in store => seen[r]
  BY <1>1, ListedKey, LookupKeys DEF Verdict
<1>4. CASE contains' = [contains EXCEPT ![r] = Or(@, k2 \in store)] /\ UNCHANGED failed
  <2>a. contains'[r] <=> contains[r] \/ k2 \in store
    BY <1>4 DEF ReadType, Or
  <2>1. (contains'[r] <=> contains[r] \/ k2 \in store) /\ ~failed'[r]
    BY <1>1, <1>4, <2>a
  <2>2. steady[r] = {} \/ contains'[r]
    BY <1>1, <2>1 DEF Verdict
  <2> QED
    BY SMTT(60), <1>1, <1>2, <1>3, <2>1, <2>2 DEF Verdict
<1>5. CASE contains' = [contains EXCEPT ![r] = Or(@, FALSE)] /\ failed' = [failed EXCEPT ![r] = TRUE]
  <2>1. (contains'[r] <=> contains[r]) /\ failed'[r]
    BY SMTT(60), <1>2, <1>5 DEF ReadType, Or
  <2> QED
    BY SMTT(60), <1>1, <1>2, <2>1 DEF Verdict
<1> QED
  BY <1>4, <1>5 DEF ContainsV2

LEMMA VerdictReturn ==
    ASSUME ReadType, NEW r \in Reader, Return(r)
    PROVE  Verdict(r)'
<1>1. rpc'[r] = "idle" /\ ~contains'[r] /\ ~failed'[r]
  BY SMTT(60) DEF ReadType, Return
<1> QED
  BY SMTT(60), <1>1 DEF Verdict

\* A step of another announce.
LEMMA VerdictOther ==
    ASSUME ReadType, NEW r \in Reader, NEW s \in Reader, s # r, Verdict(s),
           (\E k \in Key : Announce(r, k)) \/ ContainsKey(r) \/ ContainsV2(r) \/ Return(r)
    PROVE  Verdict(s)'
<1>1. store' = store
  BY DEF Announce, ContainsKey, ContainsV2, Return
<1>2. rpc'[s] = rpc[s] /\ rkey'[s] = rkey[s]
  BY DEF ReadType, Announce, ContainsKey, ContainsV2, Return
<1>3. contains'[s] = contains[s] /\ failed'[s] = failed[s]
  BY DEF ReadType, Announce, ContainsKey, ContainsV2, Return
<1>4. seen'[s] = seen[s] /\ steady'[s] = steady[s]
  BY DEF ReadType, Announce, ContainsKey, ContainsV2, Return
<1> QED
  BY <1>1, <1>2, <1>3, <1>4, VerdictFrame

LEMMA VerdictStep ==
    ASSUME TypeOK, \A r \in Reader : Verdict(r), [Next]_vars, NEW s \in Reader
    PROVE  Verdict(s)'
<1>0. ReadType /\ Verdict(s)
  BY SMTT(60), TypeParts
<1>1. CASE UNCHANGED readVars /\ UNCHANGED store
  BY <1>0, <1>1, VerdictFrame DEF readVars
<1>2. CASE Observe
  BY SMTT(60), <1>0, <1>2, VerdictObserve
<1>3. CASE Idle
  BY SMTT(60), <1>3, VerdictIdle
<1>4. ASSUME NEW r \in Reader, (\E k \in Key : Announce(r, k)) \/ ContainsKey(r) \/ ContainsV2(r) \/ Return(r)
      PROVE  Verdict(s)'
  <2>1. CASE s = r
    BY <1>0, <1>4, <2>1, VerdictAnnounce, VerdictContains, VerdictContainsV2, VerdictReturn
  <2>2. CASE s # r
    BY <1>0, <1>4, <2>2, VerdictOther
  <2> QED
    BY SMTT(60), <2>1, <2>2
<1>5. (UNCHANGED readVars /\ UNCHANGED store) \/ Observe \/ Idle
        \/ \E r \in Reader : (\E k \in Key : Announce(r, k)) \/ ContainsKey(r) \/ ContainsV2(r) \/ Return(r)
  BY DEF Next, Change, Scan, Load, Store, BuildList, Built, Close, Restart, vars
<1> QED
  BY <1>1, <1>2, <1>3, <1>4, <1>5

----------------------------------------------------------------------------
(* The theorems.                                                           *)

INSTANCE FiniteSetTheorems

LEMMA FiniteTorrents == Finite
BY ApprovalAssumption, FS_Subset, FS_CardinalityType DEF Finite

\* The types hold in every reachable state: only hashes of torrents get into
\* the storage, never what is left of a file that could not be loaded.
THEOREM TypeCorrect == Spec => []TypeOK
<1>1. TypeOK /\ [Next]_vars => TypeOK'
  BY TypeStep, FiniteTorrents
<1> QED
  BY <1>1, InitType, PTL DEF Spec

\* The invariant behind DirectoryListed is inductive.
LEMMA DirectoryInvariant == Spec => []DirectoryInv
<1>1. Init => DirectoryInv
  <2>1. ASSUME Init PROVE Following
    <3>1. Items(events) = {} /\ Items(work) = {} /\ main = "build" /\ events = <<>> /\ work = <<>>
      BY <2>1, ItemsEmpty DEF Init, NotBuilt
    <3>2. \A t \in Torrent : Open(t)
      BY <2>1 DEF Init, NotBuilt, Open
    <3> QED
      BY <3>1, <3>2 DEF Following
  <2> QED
    BY <2>1, InitType DEF DirectoryInv
<1>2. DirectoryInv /\ [Next]_vars => DirectoryInv'
  BY TypeStep, FollowingStep, FiniteTorrents DEF DirectoryInv
<1> QED
  BY <1>1, <1>2, PTL DEF Spec

\* The storage follows the directory: once the goroutine of the directory
\* container has caught up, whatever was added, replaced and removed and in
\* whatever order, every torrent the watcher knows of is listed under all its
\* hashes unless one of its reports met another file or a call of the storage
\* failed; and a list container that is up lists all its hashes.
THEOREM DirectoryCorrect == Spec => []DirectoryListed
<1>1. DirectoryInv => DirectoryListed
  BY FollowingListed DEF DirectoryInv
<1> QED
  BY <1>1, DirectoryInvariant, PTL

\* The verdicts of Approved are sound while the storage changes under its two
\* lookups: what one key listed all along is found unless a lookup failed, and
\* what is found was listed at some time during the call.
THEOREM VerdictCorrect == Spec => []VerdictSound
<1>1. Init => VerdictInv
  <2>1. ASSUME Init, NEW r \in Reader PROVE Verdict(r)
    <3>1. rpc[r] = "idle" /\ ~contains[r] /\ ~failed[r]
      BY <2>1 DEF Init, NotBuilt
    <3> QED
      BY SMTT(60), <3>1 DEF Verdict
  <2> QED
    BY <2>1, InitType DEF VerdictInv
<1>2. VerdictInv /\ [Next]_vars => VerdictInv'
  <2>1. ASSUME VerdictInv, [Next]_vars PROVE TypeOK' /\ \A r \in Reader : Verdict(r)'
    BY <2>1, TypeStep, VerdictStep, FiniteTorrents DEF VerdictInv
  <2> QED
    BY <2>1 DEF VerdictInv
<1>3. VerdictInv => VerdictSound
  <2>1. ASSUME VerdictInv, NEW r \in Reader, rpc[r] = "done"
        PROVE  /\ contains[r] => seen[r]
               /\ (steady[r] # {} /\ ~failed[r]) => contains[r]
               /\ (~Invert /\ Approved(r)) => seen[r]
    <3>1. Verdict(r) /\ contains[r] \in BOOLEAN /\ Invert \in BOOLEAN
      BY <2>1, ApprovalAssumption DEF VerdictInv, TypeOK
    <3>2. ~Invert /\ Approved(r) => contains[r]
      BY SMTT(60), <3>1 DEF Approved
    <3> QED
      BY SMTT(60), <2>1, <3>1, <3>2 DEF Verdict
  <2> QED
    BY <2>1 DEF VerdictSound
<1> QED
  BY <1>1, <1>2, <1>3, PTL DEF Spec
====
