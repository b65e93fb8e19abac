-------------------------- MODULE TorrentApproval --------------------------
(***************************************************************************)
(* The torrent approval hook with its directory container                  *)
(* (middleware/torrentapproval).  A watcher reports torrent files that     *)
(* come and go; a goroutine loads the file of each report and puts three   *)
(* hashes of it to the data storage, or deletes them; announces look their *)
(* hash up there.  The watcher (dirwatch) is external: it scans the        *)
(* directory, compares with its last scan by torrent, and hands over what  *)
(* has changed, removals first, before it scans again.                     *)
(***************************************************************************)
EXTENDS Naturals, Sequences, FiniteSets

CONSTANTS
    File,           \* paths in the directory
    Torrent,        \* contents of torrent files
    NoFile, NoTorrent,
    Reader,         \* bound: announces at a time
    ListV1, ListV2, \* the hash_list of the list container: torrents by either hash
    Invert,         \* black list
    StartDirs,      \* bound: what the directory may hold at first
    Wanted,         \* bound: torrents that are announced
    MaxOps,         \* bound: changes of the directory
    MaxFails        \* bound: storage calls that fail, and restarts

\* The hashes a torrent is announced with: v1, v2, and v2 truncated.
Key == {"v1", "v2", "v2to1"} \X Torrent

Config == [source : {"list", "directory"}, preserve : BOOLEAN, ctx : BOOLEAN]

ASSUME ApprovalAssumption ==
    /\ NoFile \notin File /\ NoTorrent \notin Torrent /\ IsFiniteSet(Torrent)
    /\ ListV1 \subseteq Torrent /\ ListV2 \subseteq Torrent
    /\ StartDirs \subseteq [File -> Torrent \cup {NoTorrent}] /\ Wanted \subseteq Torrent
    /\ Invert \in BOOLEAN /\ MaxOps \in Nat /\ MaxFails \in Nat

VARIABLES
    conf,       \* source, preserve and whether storage_ctx is set
    dir,        \* what is in the directory
    known,      \* the watcher's last scan: torrent to file
    events,     \* reports not taken yet
    work,       \* the storage operations of the report in hand
    err,        \* build's err, which the goroutine writes too
    store,      \* the keys in the storage context
    main,       \* "build", "up", "failed" or "closed"
    ops, fails,
    rpc, rkey, contains,    \* the announces
    seen,       \* history: their hash was listed at some time meanwhile
    steady,     \* history: one of their keys was listed all the time
    failed,     \* history: a lookup of theirs failed
    missed      \* history: torrents whose report met another file than its own

watchVars == <<known, events, work, err, missed>>
readVars == <<rpc, rkey, contains, seen, steady, failed>>
vars == <<conf, dir, watchVars, store, main, ops, fails, readVars>>

\* Mutant: the truncated hash is not stored.
HashesShort(t, got) == <<<<"v1", t>>, <<"v2", got>>>>

\* The keys of a report: the v1 hash is the report's, the others are made from
\* the file that was loaded.
Hashes(t, got) == <<<<"v1", t>>, <<"v2", got>>, <<"v2to1", got>>>>
InDir == {t \in Torrent : \E f \in File : dir[f] = t}

NoKey == <<"v1", NoTorrent>>

\* The keys Approved looks for, in this order.
Lookups(k) == IF k[1] = "v2" THEN <<k, <<"v2to1", k[2]>>>> ELSE <<k>>
Listed(k, S) == \E i \in DOMAIN Lookups(k) : Lookups(k)[i] \in S

NotBuilt ==
    /\ conf \in Config
    /\ dir \in StartDirs
    /\ known = [t \in Torrent |-> NoFile]
    /\ events = <<>> /\ work = <<>> /\ err = FALSE /\ missed = {}
    /\ store = {} /\ ops = 0 /\ fails = 0
    /\ rpc = [r \in Reader |-> "idle"]
    /\ rkey = [r \in Reader |-> NoKey]
    /\ contains = [r \in Reader |-> FALSE]
    /\ seen = [r \in Reader |-> FALSE]
    /\ steady = [r \in Reader |-> {}]
    /\ failed = [r \in Reader |-> FALSE]

Init == NotBuilt /\ main = "build"

Fail == fails < MaxFails /\ fails' = fails + 1

\* Somebody adds, replaces or removes a torrent file.
Change(f) ==
    /\ ops < MaxOps
    /\ ops' = ops + 1
    /\ \E t \in (Torrent \cup {NoTorrent}) \ {dir[f]} : dir' = [dir EXCEPT ![f] = t]
    /\ UNCHANGED <<conf, watchVars, store, main, fails, readVars>>

----------------------------------------------------------------------------
(* The watcher and its goroutine.                                          *)

\* Any order of a set of torrents, and the reports of a change to them.
Orders(S) == {s \in [1 .. Cardinality(S) -> S] : \A t \in S : \E i \in DOMAIN s : s[i] = t}

Report(change, t, f) == [change |-> change, torrent |-> t, file |-> f]
Reports(change, s, at) == [i \in DOMAIN s |-> Report(change, s[i], at[s[i]])]

Scan ==
    /\ conf.source = "directory" /\ main \in {"build", "up"} /\ events = <<>>
    /\ \E new \in [Torrent -> File \cup {NoFile}] :
          /\ \A t \in Torrent : IF t \in InDir THEN new[t] \in File /\ dir[new[t]] = t
                                ELSE new[t] = NoFile
          /\ \E gone \in Orders({t \in Torrent : known[t] # NoFile /\ new[t] = NoFile}),
                added \in Orders({t \in Torrent : known[t] = NoFile /\ new[t] # NoFile}) :
                events' = Reports("Removed", gone, known) \o Reports("Added", added, new)
          /\ known' = new
    /\ UNCHANGED <<conf, dir, work, err, missed, store, main, ops, fails, readVars>>

\* Mutant: a file that cannot be loaded is tried again.
LoadAgain ==
    /\ main # "failed" /\ work = <<>> /\ events # <<>>
    /\ LET e == Head(events)
           got == dir[e.file]
       IN  /\ events' = IF got = NoTorrent THEN events ELSE Tail(events)
           /\ err' = (got = NoTorrent)
           /\ work' = IF got = NoTorrent \/ e.change = "Removed" THEN <<>>
                      ELSE [i \in DOMAIN Hashes(e.torrent, got) |->
                               <<"Put", Hashes(e.torrent, got)[i]>>]
           /\ missed' = IF got # e.torrent /\ got # NoTorrent THEN missed \cup {e.torrent, got}
                        ELSE missed \ {got}
    /\ UNCHANGED <<conf, dir, known, store, main, ops, fails, readVars>>

\* The next report: the file is loaded, as it is by now.  Close ends the watcher
\* and does not wait for this goroutine.  A removal deletes
\* from c.StorageCtx, which is not the context in use when none is configured.
Load ==
    /\ main # "failed" /\ work = <<>> /\ events # <<>>
    /\ LET e == Head(events)
           got == dir[e.file]
           keys == Hashes(e.torrent, got)
       IN  /\ events' = Tail(events)
           /\ err' = (got = NoTorrent)
           /\ work' = IF got = NoTorrent \/ (e.change = "Removed" /\ ~conf.ctx) THEN <<>>
                      ELSE [i \in DOMAIN keys |->
                               <<IF e.change = "Added" THEN "Put" ELSE "Delete", keys[i]>>]
           /\ missed' = IF e.change = "Added"
                        THEN IF got = e.torrent THEN missed \ {got} ELSE missed \cup {e.torrent}
                        ELSE missed \cup ({got} \ {e.torrent, NoTorrent})
    /\ UNCHANGED <<conf, dir, known, store, main, ops, fails, readVars>>

\* The announces under way see the storage change.
Observe ==
    /\ seen' = [r \in Reader |-> seen[r] \/ (rpc[r] \in {"lookup", "lookup2"} /\ Listed(rkey[r], store'))]
    /\ steady' = [r \in Reader |-> steady[r] \cap store']
    /\ UNCHANGED <<rpc, rkey, contains, failed>>

\* Put and Delete, key by key as the memory storage does it; an error ends the
\* call and is only logged.
Store ==
    /\ main # "failed" /\ work # <<>>
    /\ \/ /\ LET w == Head(work)
             IN  store' = IF w[1] = "Put" THEN store \cup {w[2]} ELSE store \ {w[2]}
          /\ work' = Tail(work)
          /\ Observe
          /\ UNCHANGED <<fails, missed>>
       \/ /\ Fail
          /\ work' = <<>>
          /\ missed' = missed \cup {work[i][2][2] : i \in DOMAIN work}
          /\ UNCHANGED <<store, readVars>>
    /\ UNCHANGED <<conf, dir, known, events, err, main, ops>>

ListedKeys == ({"v1"} \X ListV1) \cup ({"v2", "v2to1"} \X ListV2)

\* The list container puts its hashes, truncated ones included, in one call.  A
\* hash that is none ends build before the call, a failing call may have put
\* some of the keys.
BuildList ==
    /\ conf.source = "list" /\ main = "build"
    /\ \/ /\ main' = "up"
          /\ store' = store \cup ListedKeys
          /\ UNCHANGED fails
       \/ /\ ListedKeys # {}
          /\ Fail
          /\ main' = "failed"
          /\ \E D \in SUBSET ListedKeys : store' = store \cup D
    /\ Observe
    /\ UNCHANGED <<conf, dir, watchVars, ops>>

\* build returns err, which the goroutine it has started may have set: then the
\* hook is not made and the process does not start.
Built ==
    /\ conf.source = "directory" /\ main = "build"
    /\ main' = IF err THEN "failed" ELSE "up"
    /\ UNCHANGED <<conf, dir, watchVars, store, ops, fails, readVars>>

Close ==
    /\ main = "up"
    /\ main' = "closed"
    /\ UNCHANGED <<conf, dir, watchVars, store, ops, fails, readVars>>

\* No announce is under way.
Idle ==
    /\ rpc' = [r \in Reader |-> "idle"]
    /\ rkey' = [r \in Reader |-> NoKey]
    /\ contains' = [r \in Reader |-> FALSE]
    /\ seen' = [r \in Reader |-> FALSE]
    /\ steady' = [r \in Reader |-> {}]
    /\ failed' = [r \in Reader |-> FALSE]

\* The process ends anywhere and is started again.
Restart ==
    /\ Fail
    /\ main' = "build"
    /\ known' = [t \in Torrent |-> NoFile]
    /\ events' = <<>> /\ work' = <<>> /\ err' = FALSE /\ missed' = {}
    /\ store' = IF conf.preserve THEN store ELSE {}
    /\ Idle
    /\ UNCHANGED <<conf, dir, ops>>

----------------------------------------------------------------------------
(* HandleAnnounce.                                                         *)

Announce(r, k) ==
    /\ main = "up" /\ rpc[r] = "idle"
    /\ rpc' = [rpc EXCEPT ![r] = "lookup"]
    /\ rkey' = [rkey EXCEPT ![r] = k]
    /\ seen' = [seen EXCEPT ![r] = Listed(k, store)]
    /\ steady' = [steady EXCEPT ![r] = {Lookups(k)[i] : i \in DOMAIN Lookups(k)} \cap store]
    /\ UNCHANGED <<conf, dir, watchVars, store, main, ops, fails, contains, failed>>

\* Mutant: the second answer replaces the first.
OrLast(first, second) == second

Or(first, second) == first \/ second

\* Approved: Contains of the hash, then, for a long one, of its truncated form.
\* An error of the first ends it; one of the second counts as "not there".
ContainsKey(r) ==
    LET k == rkey[r]
    IN  /\ rpc[r] = "lookup"
        /\ \/ /\ contains' = [contains EXCEPT ![r] = k \in store]
              /\ rpc' = [rpc EXCEPT ![r] = IF k[1] = "v2" THEN "lookup2" ELSE "done"]
              /\ UNCHANGED <<fails, failed>>
           \/ /\ Fail
              /\ failed' = [failed EXCEPT ![r] = TRUE]
              /\ rpc' = [rpc EXCEPT ![r] = "done"]
              /\ UNCHANGED contains
        /\ UNCHANGED <<conf, dir, watchVars, store, main, ops, rkey, seen, steady>>

ContainsV2(r) ==
    /\ rpc[r] = "lookup2"
    /\ \/ /\ contains' = [contains EXCEPT ![r] = Or(@, <<"v2to1", rkey[r][2]>> \in store)]
          /\ UNCHANGED <<fails, failed>>
       \/ /\ Fail
          /\ failed' = [failed EXCEPT ![r] = TRUE]
          /\ contains' = [contains EXCEPT ![r] = Or(@, FALSE)]
    /\ rpc' = [rpc EXCEPT ![r] = "done"]
    /\ UNCHANGED <<conf, dir, watchVars, store, main, ops, rkey, seen, steady>>

\* The verdict is returned, and r may be the next announce.
Return(r) ==
    /\ rpc[r] = "done"
    /\ rpc' = [rpc EXCEPT ![r] = "idle"]
    /\ rkey' = [rkey EXCEPT ![r] = NoKey]
    /\ contains' = [contains EXCEPT ![r] = FALSE]
    /\ seen' = [seen EXCEPT ![r] = FALSE]
    /\ steady' = [steady EXCEPT ![r] = {}]
    /\ failed' = [failed EXCEPT ![r] = FALSE]
    /\ UNCHANGED <<conf, dir, watchVars, store, main, ops, fails>>

Approved(r) == contains[r] # Invert

Next ==
    \/ \E f \in File : Change(f)
    \/ Scan \/ Load \/ Store \/ BuildList \/ Built \/ Close \/ Restart
    \/ \E r \in Reader : (\E k \in Key : k[2] \in Wanted /\ Announce(r, k)) \/ ContainsKey(r) \/ ContainsV2(r) \/ Return(r)

Spec == Init /\ [][Next]_vars

\* The watcher, its goroutine and the start of the process are not held up.
Fairness ==
    /\ WF_vars(Scan) /\ WF_vars(Load) /\ WF_vars(Store)
    /\ WF_vars(BuildList) /\ WF_vars(Built)

FairSpec == Spec /\ Fairness

----------------------------------------------------------------------------
(* Properties.                                                             *)

\* Every variable has its type; above all, only hashes of torrents get into
\* the storage, never what is left of a file that could not be loaded.
TypeOK ==
    /\ conf \in Config
    /\ dir \in [File -> Torrent \cup {NoTorrent}]
    /\ known \in [Torrent -> File \cup {NoFile}]
    /\ events \in Seq([change : {"Added", "Removed"}, torrent : Torrent, file : File])
    /\ work \in Seq({"Put", "Delete"} \X Key)
    /\ err \in BOOLEAN /\ store \subseteq Key /\ missed \subseteq Torrent
    /\ main \in {"build", "up", "failed", "closed"}
    /\ ops \in 0 .. MaxOps /\ fails \in 0 .. MaxFails
    /\ rpc \in [Reader -> {"idle", "lookup", "lookup2", "done"}]
    /\ rkey \in [Reader -> Key \cup {NoKey}]
    /\ contains \in [Reader -> BOOLEAN] /\ seen \in [Reader -> BOOLEAN]
    /\ steady \in [Reader -> SUBSET Key] /\ failed \in [Reader -> BOOLEAN]

\* The storage follows the directory: whatever was added, replaced and removed,
\* in whatever order, and across restarts, once the goroutine has caught up
\* every torrent that is in the directory is listed under all three hashes,
\* unless one of its reports met another file than the one it was about.  And
\* a list container that is up lists all its hashes.
DirectoryListed ==
    /\ (conf.source = "directory" /\ main = "up" /\ events = <<>> /\ work = <<>>)
          => \A t \in InDir \ missed :
                known[t] # NoFile => {<<v, t>> : v \in {"v1", "v2", "v2to1"}} \subseteq store
    /\ (conf.source = "list" /\ main = "up")
          => \A t \in Torrent : /\ t \in ListV1 => <<"v1", t>> \in store
                               /\ t \in ListV2 => <<"v2to1", t>> \in store

\* Approved is right while the storage changes under its two lookups: a hash
\* that one key listed all along is found unless a lookup failed, and a hash is
\* found only if it was listed at some time during the call, so that a white
\* list approves nothing else whatever fails.
VerdictSound ==
    \A r \in Reader : (rpc[r] = "done" /\ main = "up") =>
        /\ contains[r] => seen[r]
        /\ (steady[r] # {} /\ ~failed[r]) => contains[r]
        /\ (~Invert /\ Approved(r)) => seen[r]

\* A torrent file that stays in the directory is listed in the end, however
\* many other files fail to load before it.
AddedListed ==
    \A t \in Torrent :
        (conf.source = "directory" /\ main = "up" /\ t \in InDir)
            ~> (<<"v2to1", t>> \in store \/ t \notin InDir \/ t \in missed \/ main # "up")

----------------------------------------------------------------------------
(* The inductive invariants behind DirectoryListed and VerdictSound.       *)

Versions == {"v1", "v2", "v2to1"}
Items(s) == {s[i] : i \in DOMAIN s}
ToAdd(t) == \E e \in Items(events) : e.change = "Added" /\ e.torrent = t

\* Nothing is promised of a torrent: a report met another file, the watcher
\* does not know it, or the report of it is still to be taken.
Open(t) == t \in missed \/ known[t] = NoFile \/ ToAdd(t)

\* Of every other torrent each hash is in the storage or about to be put, and
\* the report in hand deletes none of them.
Following ==
    /\ \A e \in Items(events) : e.change = "Removed" => known[e.torrent] = NoFile
    /\ \A v \in Versions, t \in Torrent : <<"Delete", <<v, t>>>> \in Items(work) => Open(t)
    /\ \A v \in Versions, t \in Torrent :
          Open(t) \/ <<v, t>> \in store \/ <<"Put", <<v, t>>>> \in Items(work)
    /\ conf.source = "list" => /\ events = <<>> /\ work = <<>>
                               /\ main \in {"up", "closed"} => ListedKeys \subseteq store

DirectoryInv == TypeOK /\ Following

\* How far announce r has got: what is listed has been seen, what was listed
\* all along still is, and a first answer of yes is kept for the second.
Verdict(r) ==
    LET k == rkey[r]
    IN  /\ rpc[r] \in {"lookup", "lookup2"} =>
              /\ Listed(k, store) => seen[r]
              /\ steady[r] \subseteq store
              /\ \A x \in steady[r] : x = k \/ (k[1] = "v2" /\ x = <<"v2to1", k[2]>>)
        /\ rpc[r] # "done" => ~failed[r]
        /\ rpc[r] \in {"idle", "lookup"} => ~contains[r]
        /\ rpc[r] = "lookup2" => k[1] = "v2" /\ (k \in steady[r] => contains[r])
        /\ contains[r] => seen[r]
        /\ (rpc[r] = "done" /\ ~failed[r]) => (steady[r] = {} \/ contains[r])

VerdictInv == TypeOK /\ \A r \in Reader : Verdict(r)
====
