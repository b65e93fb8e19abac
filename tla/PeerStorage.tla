---------------------------- MODULE PeerStorage ----------------------------
(***************************************************************************)
(* What one call of a peer storage does when no other call runs, as        *)
(* operators on a database: for every info hash a set of seeders and a set *)
(* of leechers, of both address families.  The calls of the in-memory      *)
(* store, taken one at a time.                                             *)
(***************************************************************************)
EXTENDS Naturals, FiniteSets, SequencesExt

CONSTANTS
    Hash,    \* the info hashes
    Peer,    \* the peers: an ID and an address
    Is6      \* Is6[p]: the peer's address is IPv6

Kind == {"seeders", "leechers"}
Database == [Hash -> [Kind -> SUBSET Peer]]
Empty == [ih \in Hash |-> [k \in Kind |-> {}]]

PutSeeder(db, ih, p) == [db EXCEPT ![ih]["seeders"] = @ \cup {p}]
PutLeecher(db, ih, p) == [db EXCEPT ![ih]["leechers"] = @ \cup {p}]
DeleteSeeder(db, ih, p) == [db EXCEPT ![ih]["seeders"] = @ \ {p}]
DeleteLeecher(db, ih, p) == [db EXCEPT ![ih]["leechers"] = @ \ {p}]
GraduateLeecher(db, ih, p) == PutSeeder(DeleteLeecher(db, ih, p), ih, p)

Apply(db, op, ih, p) ==
    CASE op = "PutSeeder" -> PutSeeder(db, ih, p)
      [] op = "PutLeecher" -> PutLeecher(db, ih, p)
      [] op = "DeleteSeeder" -> DeleteSeeder(db, ih, p)
      [] op = "DeleteLeecher" -> DeleteLeecher(db, ih, p)
      [] op = "GraduateLeecher" -> GraduateLeecher(db, ih, p)

\* The peers of one family and kind, and the ways to take at most n of them.
OfFamily(db, ih, k, v6) == {p \in db[ih][k] : Is6[p] = v6}
Take(S, n) == {T \in SUBSET S : \/ T = S /\ Cardinality(S) <= n
                                \/ Cardinality(T) = n}

\* The possible results of AnnouncePeers: leechers for a seeder, else seeders
\* and then leechers.
AnnouncePeers(db, ih, forSeeder, numWant, v6) ==
    LET S == IF forSeeder THEN {} ELSE OfFamily(db, ih, "seeders", v6)
        L == OfFamily(db, ih, "leechers", v6)
    IN  UNION {{SetToSeq(s) \o SetToSeq(l) : l \in Take(L, numWant - Cardinality(s))}
               : s \in Take(S, numWant)}

ScrapeSwarm(db, ih) == [incomplete |-> Cardinality(db[ih]["leechers"]),
                        complete |-> Cardinality(db[ih]["seeders"])]
====
