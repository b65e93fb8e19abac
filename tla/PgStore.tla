------------------------------ MODULE PgStore ------------------------------
(***************************************************************************)
(* The PostgreSQL peer store (storage/pg/storage.go) with the queries of   *)
(* dist/example_config_pg.yaml.  A statement outside of a transaction is   *)
(* one step; the statements of a batch are steps of their own, hold the    *)
(* locks of the rows they change and take effect together when the batch   *)
(* is committed.  A statement may fail, before or after it took effect,    *)
(* and a goroutine may die between two of them.                            *)
(***************************************************************************)
EXTENDS Integers, FiniteSets

CONSTANTS
    InfoHash, Peer,
    AddrPort,      \* AddrPort[p]: address and port of the peer
    Is6,           \* Is6[a]: the address is IPv6
    Thread,        \* goroutines that call the store
    Call,          \* the calls the threads may make
    PeerLifetime,
    MaxTime,       \* bound: the clock stops here
    MaxCalls,      \* bound: this many calls begin
    MaxFails       \* bound: this many statements fail or goroutines die

WriteOps == {"PutSeeder", "PutLeecher", "DeleteSeeder", "DeleteLeecher", "GraduateLeecher"}
CallType ==
    [op : WriteOps, ih : InfoHash, p : Peer]
        \cup [op : {"AnnouncePeers"}, ih : InfoHash, forSeeder : BOOLEAN, numWant : Nat, v6 : BOOLEAN]
        \cup [op : {"ScrapeSwarm"}, ih : InfoHash]

ASSUME PgAssumption ==
    /\ IsFiniteSet(InfoHash) /\ IsFiniteSet(Peer) /\ IsFiniteSet(Thread)
    /\ \A p \in Peer : Is6[AddrPort[p]] \in BOOLEAN
    /\ Call \subseteq CallType /\ Call # {}
    /\ PeerLifetime \in Nat /\ MaxTime \in Nat /\ MaxCalls \in Nat /\ MaxFails \in Nat

NoCall == CHOOSE c \in Call : TRUE

VARIABLES
    now, begun, fails,
    role,       \* mo_peers: is_seeder of the row of ih and p, if there is one
    created,    \*           and its time
    downloads,  \* mo_downloads
    pc, call, since,
    changed,    \* the rows a transaction has made seeders of, and locked
    out,        \* AnnouncePeers: the peers so far, with their role
    full,       \* history: no query of the call failed
    stayed,     \* history: peers asked for that kept their role since a call began
    snatched,   \* ScrapeSwarm: the downloads
    graduated,  \* history: graduations that made a seeder of a leecher
    shown,      \* history: graduations when ScrapeSwarm counted the peers
    gcPc, gcCutoff,
    pool        \* "open", "closing" after Close, then "shut" and "closed" by Pool.Close

tableVars == <<role, created, downloads, graduated>>
threadVars == <<pc, call, since, changed>>
readVars == <<out, full, snatched, shown>>
gcVars == <<gcPc, gcCutoff>>
vars == <<now, begun, fails, tableVars, threadVars, readVars, stayed, gcVars, pool>>

Role == {"seeder", "leecher"}
roleOf(op) == IF op \in {"PutSeeder", "DeleteSeeder"} THEN "seeder" ELSE "leecher"
Rows(ih, r, v6) == {p \in Peer : role[ih][p] = r /\ Is6[AddrPort[p]] = v6}

Init ==
    /\ now = 0 /\ begun = 0 /\ fails = 0
    /\ role = [ih \in InfoHash |-> [p \in Peer |-> "none"]]
    /\ created = [ih \in InfoHash |-> [p \in Peer |-> 0]]
    /\ downloads = [ih \in InfoHash |-> 0]
    /\ graduated = [ih \in InfoHash |-> 0]
    /\ pc = [t \in Thread |-> "idle"]
    /\ call = [t \in Thread |-> NoCall]
    /\ since = [t \in Thread |-> 0]
    /\ changed = [t \in Thread |-> {}]
    /\ out = [t \in Thread |-> {}]
    /\ full = [t \in Thread |-> TRUE]
    /\ stayed = [t \in Thread |-> {}]
    /\ snatched = [t \in Thread |-> 0]
    /\ shown = [t \in Thread |-> 0]
    /\ gcPc = "select" /\ gcCutoff = 0
    /\ pool = "open"

Tick ==
    /\ now < MaxTime
    /\ now' = now + 1
    /\ UNCHANGED <<begun, fails, tableVars, threadVars, readVars, stayed, gcVars, pool>>

----------------------------------------------------------------------------
(* Statements.                                                             *)

Fail == fails < MaxFails /\ fails' = fails + 1

\* A statement needs a connection of the pool.
Acquirable == pool \in {"open", "closing"}
Done == Acquirable /\ UNCHANGED fails
Failed == Fail \/ (~Acquirable /\ UNCHANGED fails)

\* A transaction holds the rows it has changed until it ends.
Locked(ih, p) == \E t \in Thread : call[t].ih = ih /\ p \in changed[t]

\* Rows come, go and change; the peers of the running calls have not stayed.
SetRoles(new) ==
    /\ role' = new
    /\ stayed' = [t \in Thread |->
          {x \in stayed[t] : new[call[t].ih][x[2]] = x[1]}]

Begin(t, c) ==
    /\ pc[t] = "idle" /\ begun < MaxCalls
    /\ begun' = begun + 1
    /\ pc' = [pc EXCEPT ![t] =
          CASE c.op \in {"PutSeeder", "PutLeecher"} -> "put"
            [] c.op \in {"DeleteSeeder", "DeleteLeecher"} -> "delete"
            [] c.op = "GraduateLeecher" -> "update"
            [] c.op = "AnnouncePeers" -> IF c.forSeeder THEN "leechers" ELSE "seeders"
            [] c.op = "ScrapeSwarm" -> "count"]
    /\ call' = [call EXCEPT ![t] = c]
    /\ since' = [since EXCEPT ![t] = now]
    /\ out' = [out EXCEPT ![t] = {}]
    /\ full' = [full EXCEPT ![t] = TRUE]
    /\ snatched' = [snatched EXCEPT ![t] = 0]
    /\ shown' = [shown EXCEPT ![t] = 0]
    /\ stayed' = [stayed EXCEPT ![t] =
          IF c.op # "AnnouncePeers" THEN {}
          ELSE ({"leecher"} \X Rows(c.ih, "leecher", c.v6))
                 \cup (IF c.forSeeder THEN {} ELSE {"seeder"} \X Rows(c.ih, "seeder", c.v6))]
    /\ UNCHANGED <<now, fails, tableVars, changed, gcVars, pool>>

Go(t, next) == pc' = [pc EXCEPT ![t] = next] /\ UNCHANGED <<call, since>>
Return(t) ==
    /\ pc' = [pc EXCEPT ![t] = "idle"]
    /\ since' = [since EXCEPT ![t] = 0]
    /\ call' = IF call[t].op = "AnnouncePeers" THEN call ELSE [call EXCEPT ![t] = NoCall]

\* putPeer: the row is inserted, or gets the role and the time of this call.
Put(t) ==
    LET c == call[t]
    IN  /\ pc[t] = "put"
        /\ \/ /\ Acquirable /\ ~Locked(c.ih, c.p)
              /\ SetRoles([role EXCEPT ![c.ih][c.p] = roleOf(c.op)])
              /\ \E m \in since[t] .. now : created' = [created EXCEPT ![c.ih][c.p] = m]
              /\ Done \/ Fail
           \/ Failed /\ UNCHANGED <<role, created, stayed>>
        /\ Return(t)
        /\ UNCHANGED <<now, begun, downloads, graduated, changed, readVars, gcVars, pool>>

\* delPeer: no row of that role is no error.
Delete(t) ==
    LET c == call[t]
        match == role[c.ih][c.p] = roleOf(c.op)
    IN  /\ pc[t] = "delete"
        /\ \/ /\ Acquirable /\ (match => ~Locked(c.ih, c.p))
              /\ SetRoles(IF match THEN [role EXCEPT ![c.ih][c.p] = "none"] ELSE role)
              /\ created' = IF match THEN [created EXCEPT ![c.ih][c.p] = 0] ELSE created
              /\ Done \/ Fail
           \/ Failed /\ UNCHANGED <<role, created, stayed>>
        /\ Return(t)
        /\ UNCHANGED <<now, begun, downloads, graduated, changed, readVars, gcVars, pool>>

----------------------------------------------------------------------------
(* GraduateLeecher: txBatch of two statements.                             *)

\* The leechers the graduate query matches: its condition on the peer ID
\* compares the column with itself.
Graduates(c) == {p \in Peer : role[c.ih][p] = "leecher" /\ AddrPort[p] = AddrPort[c.p]}

\* Mutant: the statements are not in a transaction.
UpdateAlone(t) ==
    LET c == call[t]
    IN  /\ pc[t] = "update"
        /\ SetRoles([role EXCEPT ![c.ih] = [p \in Peer |->
                        IF p \in Graduates(c) THEN "seeder" ELSE @[p]]])
        /\ graduated' = [graduated EXCEPT ![c.ih] = @ + IF Graduates(c) = {} THEN 0 ELSE 1]
        /\ Done /\ Go(t, "increment")
        /\ UNCHANGED <<now, begun, created, downloads, changed, readVars, gcVars, pool>>

\* Begin, and the first statement, which waits for rows another one holds.
Update(t) ==
    LET c == call[t]
    IN  /\ pc[t] = "update"
        /\ \/ /\ \A p \in Graduates(c) : ~Locked(c.ih, p)
              /\ changed' = [changed EXCEPT ![t] = Graduates(c)]
              /\ Done /\ Go(t, "increment")
           \/ Failed /\ Return(t) /\ UNCHANGED changed
        /\ UNCHANGED <<now, begun, tableVars, readVars, stayed, gcVars, pool>>

\* Rollback, by the code after an error or by the server.
Rollback(t) ==
    /\ Fail
    /\ changed' = [changed EXCEPT ![t] = {}]
    /\ Return(t)
    /\ UNCHANGED <<now, begun, tableVars, readVars, stayed, gcVars, pool>>

\* The second statement, which waits for a transaction that has counted.
Increment(t) ==
    /\ pc[t] = "increment"
    /\ \A u \in Thread : pc[u] = "commit" => call[u].ih # call[t].ih
    /\ Go(t, "commit")
    /\ UNCHANGED <<now, begun, fails, tableVars, changed, readVars, stayed, gcVars, pool>>

\* Both take effect, whether or not the answer arrives.
Commit(t) ==
    LET ih == call[t].ih
    IN  /\ pc[t] = "commit"
        /\ SetRoles([role EXCEPT ![ih] = [p \in Peer |->
                        IF p \in changed[t] THEN "seeder" ELSE @[p]]])
        /\ downloads' = [downloads EXCEPT ![ih] = @ + 1]
        /\ graduated' = [graduated EXCEPT ![ih] = @ + IF changed[t] = {} THEN 0 ELSE 1]
        /\ changed' = [changed EXCEPT ![t] = {}]
        /\ UNCHANGED fails \/ Fail
        /\ Return(t)
        /\ UNCHANGED <<now, begun, created, readVars, gcVars, pool>>

----------------------------------------------------------------------------
(* AnnouncePeers and ScrapeSwarm.                                          *)

\* Mutant: the peers got already are not taken off.
LeftAll(c, peers) == c.numWant

\* The peers still wanted.
Left(c, peers) == c.numWant - Cardinality(peers)

\* getPeers: as many rows as are wanted.  When a query fails, rows do not scan
\* or the connection breaks there may be fewer of them, with an error or not;
\* after an error the leechers are not asked for.
Query(t, r) ==
    LET c == call[t]
        rows == Rows(c.ih, r, c.v6)
        left == Left(c, out[t])
        n == IF left < Cardinality(rows) THEN left ELSE Cardinality(rows)
    IN  \E S \in SUBSET rows, err \in BOOLEAN :
          /\ \/ Done /\ Cardinality(S) = n /\ ~err /\ UNCHANGED full
             \/ /\ Fail /\ Cardinality(S) <= n
                /\ full' = [full EXCEPT ![t] = FALSE]
             \/ /\ ~Acquirable /\ S = {} /\ err /\ UNCHANGED fails
                /\ full' = [full EXCEPT ![t] = FALSE]
          /\ out' = [out EXCEPT ![t] = @ \cup ({r} \X S)]
          /\ IF r = "leecher" \/ err THEN Return(t) ELSE Go(t, "leechers")

Announce(t) ==
    /\ \/ pc[t] = "seeders" /\ Query(t, "seeder")
       \/ pc[t] = "leechers" /\ Query(t, "leecher")
    /\ UNCHANGED <<now, begun, tableVars, changed, snatched, shown, stayed, gcVars, pool>>

\* countPeers: one statement counts seeders and leechers ...
Count(t) ==
    /\ pc[t] = "count"
    /\ \/ /\ Done
          /\ shown' = [shown EXCEPT ![t] = graduated[call[t].ih]]
          /\ Go(t, "downloads")
       \/ Failed /\ Return(t) /\ UNCHANGED shown
    /\ UNCHANGED <<now, begun, tableVars, changed, out, full, snatched, stayed, gcVars, pool>>

\* ... and another gets the downloads.
GetDownloads(t) ==
    /\ pc[t] = "downloads"
    /\ \/ /\ Done
          /\ snatched' = [snatched EXCEPT ![t] = downloads[call[t].ih]]
          /\ UNCHANGED shown
       \/ /\ Failed
          /\ shown' = [shown EXCEPT ![t] = 0]
          /\ UNCHANGED snatched
    /\ Return(t)
    /\ UNCHANGED <<now, begun, tableVars, changed, out, full, stayed, gcVars, pool>>

\* The goroutine dies with its process; another one takes its place.
Die(t) ==
    /\ pc[t] # "idle" /\ Fail
    /\ Return(t)
    /\ changed' = [changed EXCEPT ![t] = {}]
    /\ full' = [full EXCEPT ![t] = FALSE]
    /\ shown' = [shown EXCEPT ![t] = 0]
    /\ UNCHANGED <<now, begun, tableVars, out, snatched, stayed, gcVars, pool>>

----------------------------------------------------------------------------
(* The collector and Close.                                                *)

\* The timer fires.
GCFire ==
    /\ gcPc = "select"
    /\ gcPc' = "delete"
    /\ gcCutoff' = now - PeerLifetime
    /\ UNCHANGED <<now, begun, fails, tableVars, threadVars, readVars, stayed, pool>>

Stale(ih, p, cutoff) == role[ih][p] # "none" /\ created[ih][p] <= cutoff

DeleteStale ==
    /\ \A ih \in InfoHash, p \in Peer : Stale(ih, p, gcCutoff) => ~Locked(ih, p)
    /\ SetRoles([ih \in InfoHash |-> [p \in Peer |->
          IF Stale(ih, p, gcCutoff) THEN "none" ELSE role[ih][p]]])
    /\ created' = [ih \in InfoHash |-> [p \in Peer |->
          IF Stale(ih, p, gcCutoff) THEN 0 ELSE created[ih][p]]]

\* Mutant: an error ends the goroutine.
GCDeleteOrExit ==
    /\ gcPc = "delete"
    /\ \/ DeleteStale /\ Done /\ gcPc' = "select"
       \/ Failed /\ UNCHANGED <<role, created, stayed>> /\ gcPc' = "exited"
    /\ gcCutoff' = 0
    /\ UNCHANGED <<now, begun, downloads, graduated, threadVars, readVars, pool>>

\* The statement, which waits for the rows it is to delete; then the timer is
\* set again, whatever came of it.
GCDelete ==
    /\ gcPc = "delete"
    /\ \/ Acquirable /\ DeleteStale /\ (Done \/ Fail)
       \/ Failed /\ UNCHANGED <<role, created, stayed>>
    /\ gcPc' = "select" /\ gcCutoff' = 0
    /\ UNCHANGED <<now, begun, downloads, graduated, threadVars, readVars, pool>>

\* Close starts a goroutine and returns.
Close ==
    /\ pool = "open"
    /\ pool' = "closing"
    /\ UNCHANGED <<now, begun, fails, tableVars, threadVars, readVars, stayed, gcVars>>

\* Mutant: the channel is closed after the pool.
GCExitLast ==
    /\ gcPc = "select" /\ pool = "closed"
    /\ gcPc' = "exited"
    /\ UNCHANGED <<now, begun, fails, tableVars, threadVars, readVars, stayed, gcCutoff, pool>>

GCExit ==
    /\ gcPc = "select" /\ pool # "open"
    /\ gcPc' = "exited"
    /\ UNCHANGED <<now, begun, fails, tableVars, threadVars, readVars, stayed, gcCutoff, pool>>

\* wg.Wait, then Pool.Close: no new connections ...
PoolShut ==
    /\ pool = "closing" /\ gcPc = "exited"
    /\ pool' = "shut"
    /\ UNCHANGED <<now, begun, fails, tableVars, threadVars, readVars, stayed, gcVars>>

\* ... and, when those of the transactions are back, none at all.
PoolClose ==
    /\ pool = "shut"
    /\ \A t \in Thread : pc[t] \notin {"increment", "commit"}
    /\ pool' = "closed"
    /\ UNCHANGED <<now, begun, fails, tableVars, threadVars, readVars, stayed, gcVars>>

----------------------------------------------------------------------------
ThreadStep(t) ==
    \/ Put(t) \/ Delete(t) \/ Update(t) \/ Increment(t) \/ Commit(t)
    \/ Announce(t) \/ Count(t) \/ GetDownloads(t)

Next ==
    \/ Tick
    \/ \E t \in Thread : \/ ThreadStep(t) \/ Die(t)
                         \/ pc[t] \in {"increment", "commit"} /\ Rollback(t)
                         \/ \E c \in Call : Begin(t, c)
    \/ GCFire \/ GCDelete \/ GCExit
    \/ Close \/ PoolShut \/ PoolClose

Spec == Init /\ [][Next]_vars

\* Goroutines are scheduled, the timer fires, the clock goes on; a select with
\* both channels ready takes either, and the closed one again and again.
FairSpec ==
    /\ Spec
    /\ WF_vars(Tick)
    /\ \A t \in Thread : WF_vars(ThreadStep(t))
    /\ WF_vars(GCFire) /\ WF_vars(GCDelete) /\ SF_vars(GCExit)
    /\ WF_vars(PoolShut) /\ WF_vars(PoolClose)

----------------------------------------------------------------------------
(* Properties.                                                             *)

\* The variables have their types; a row that is locked is one the transaction
\* of its goroutine has yet to commit.
TypeOK ==
    /\ now \in 0 .. MaxTime /\ begun \in 0 .. MaxCalls /\ fails \in 0 .. MaxFails
    /\ role \in [InfoHash -> [Peer -> Role \cup {"none"}]]
    /\ created \in [InfoHash -> [Peer -> 0 .. MaxTime]]
    /\ downloads \in [InfoHash -> Nat] /\ graduated \in [InfoHash -> Nat]
    /\ pc \in [Thread -> {"idle", "put", "delete", "update", "increment", "commit", "seeders",
                          "leechers", "count", "downloads"}]
    /\ call \in [Thread -> Call] /\ since \in [Thread -> 0 .. MaxTime]
    /\ changed \in [Thread -> SUBSET Peer]
    /\ \A t \in Thread : changed[t] # {} => pc[t] \in {"increment", "commit"}
    /\ out \in [Thread -> SUBSET (Role \X Peer)] /\ full \in [Thread -> BOOLEAN]
    /\ stayed \in [Thread -> SUBSET (Role \X Peer)]
    /\ snatched \in [Thread -> Nat] /\ shown \in [Thread -> Nat]
    /\ gcPc \in {"select", "delete", "exited"} /\ gcCutoff \in -PeerLifetime .. MaxTime
    /\ pool \in {"open", "closing", "shut", "closed"}

\* Every graduation that made a seeder of a leecher is counted as a download,
\* whatever fails between the two statements; and a scrape that saw its seeder
\* shows its download.
GraduationsCounted ==
    /\ \A ih \in InfoHash : graduated[ih] <= downloads[ih]
    /\ \A t \in Thread : pc[t] = "idle" => shown[t] <= snatched[t]

\* An answer has at most numWant peers; when it has fewer, and no query failed,
\* it has every peer asked for that kept its role while the call ran.
AnnounceAnswer ==
    \A t \in Thread :
        (pc[t] = "idle" /\ call[t].op = "AnnouncePeers") =>
            /\ Cardinality(out[t]) <= call[t].numWant
            /\ (full[t] /\ Cardinality(out[t]) < call[t].numWant) => stayed[t] \subseteq out[t]

\* A peer that is too old is collected, again and again, though statements fail
\* and rows are locked, until the store is closed.
StaleCollected ==
    \A ih \in InfoHash, p \in Peer :
        Stale(ih, p, now - PeerLifetime) ~> (~Stale(ih, p, now - PeerLifetime) \/ pool # "open")

\* After Close the pool is closed in the end, although that waits for the
\* collector, which may be waiting for rows of a transaction, and for every
\* transaction that has begun.  Close itself returns at once and a goroutine of
\* its own does this, so main may end the process first; it calls Close once (a
\* second call would close s.closed again and panic).
CloseEnds == pool = "closing" ~> pool = "closed"

----------------------------------------------------------------------------
(* The inductive invariants behind GraduationsCounted and AnnounceAnswer.  *)

\* Who is where with which call.
Stages ==
    \A t \in Thread :
        /\ pc[t] = "put" => call[t].op \in {"PutSeeder", "PutLeecher"}
        /\ pc[t] = "delete" => call[t].op \in {"DeleteSeeder", "DeleteLeecher"}
        /\ pc[t] \in {"update", "increment", "commit"} => call[t].op = "GraduateLeecher"
        /\ pc[t] \in {"seeders", "leechers"} => call[t].op = "AnnouncePeers"
        /\ pc[t] \in {"count", "downloads"} => call[t].op = "ScrapeSwarm"

\* Downloads only grow, so those a scrape gets are no fewer than there were
\* graduations when it counted the peers.
Scraping ==
    \A t \in Thread :
        /\ pc[t] = "downloads" => shown[t] <= graduated[call[t].ih]
        /\ pc[t] \notin {"idle", "downloads"} => shown[t] = 0

\* The peers that stayed are those of the query to come, or have been got.
Asking ==
    \A t \in Thread :
        /\ (pc[t] # "idle" /\ call[t].op # "AnnouncePeers") => out[t] = {} /\ stayed[t] = {}
        /\ pc[t] \in {"seeders", "leechers"} =>
              /\ \A x \in stayed[t] : /\ role[call[t].ih][x[2]] = x[1]
                                      /\ Is6[AddrPort[x[2]]] = call[t].v6
              /\ out[t] \subseteq {"seeder"} \X Peer /\ Cardinality(out[t]) <= call[t].numWant
        /\ pc[t] = "seeders" => out[t] = {}
        /\ (pc[t] = "leechers" /\ full[t] /\ Cardinality(out[t]) < call[t].numWant) =>
              \A x \in stayed[t] : x[1] = "seeder" => x \in out[t]

\* The conjunctions that every step preserves.
ScrapeInv == TypeOK /\ Stages /\ Scraping /\ GraduationsCounted
AnnounceInv == TypeOK /\ Stages /\ Asking /\ AnnounceAnswer
====
