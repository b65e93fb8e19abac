----------------------------- MODULE SwarmStore -----------------------------
(***************************************************************************)
(* What the in-memory store promises while calls overlap, without shards,  *)
(* locks and swarm values: a table of peers and the times they were stored *)
(* at, which a call changes in one step, GraduateLeecher in two.  The      *)
(* collector may take a peer it saw to be stale, and may drop an info hash *)
(* it saw to have no peers.  A call that a drop overtakes is exposed: what *)
(* it writes may be lost.  Every other call takes effect exactly once.     *)
(***************************************************************************)
EXTENDS Integers, FiniteSets

CONSTANTS InfoHash, Peer, Thread, Is6, PeerLifeTime, Call

Kind == {"seeders", "leechers"}
Absent == -1

VARIABLES
    now,
    table,      \* table[ih][k][p]: when the peer was stored, or Absent
    call,
    phase,      \* what a thread's call has yet to do
    since,      \* when a put looked for its peer
    answer,     \* what AnnouncePeers has found
    exposed,    \* threads whose info hash was dropped during their call
    doomed,     \* peers the collector has seen to be stale
    seenEmpty   \* the sets of peers the collector has seen to be empty

vars == <<now, table, call, phase, since, answer, exposed, doomed, seenEmpty>>

First(op) ==
    CASE op \in {"PutSeeder", "PutLeecher"} -> "enter"
      [] op \in {"DeleteSeeder", "DeleteLeecher"} -> "remove"
      [] op = "GraduateLeecher" -> "leave"
      [] op = "AnnouncePeers" -> "read"

kindOf(op) == IF op \in {"PutLeecher", "DeleteLeecher"} THEN "leechers" ELSE "seeders"

\* The family a call is about: its peer's, for a write.
family(c) == IF c.op = "AnnouncePeers" THEN c.v6 ELSE Is6[c.p]

Stored(ih, v6, k) == {p \in Peer : Is6[p] = v6 /\ table[ih][k][p] # Absent}

Put(t, k, m) ==
    table' = IF t \in exposed THEN table ELSE [table EXCEPT ![call[t].ih][k][call[t].p] = m]

Return(t) == phase' = [phase EXCEPT ![t] = "idle"] /\ exposed' = exposed \ {t}

----------------------------------------------------------------------------
Init ==
    /\ now = 0
    /\ table = [ih \in InfoHash |-> [k \in Kind |-> [p \in Peer |-> Absent]]]
    /\ call \in [Thread -> Call]
    /\ phase = [t \in Thread |-> "idle"]
    /\ since = [t \in Thread |-> 0]
    /\ answer = [t \in Thread |-> {}]
    /\ exposed = {} /\ doomed = {} /\ seenEmpty = {}

Tick ==
    /\ now' = now + 1
    /\ UNCHANGED <<table, call, phase, since, answer, exposed, doomed, seenEmpty>>

Begin(t, c) ==
    /\ phase[t] = "idle"
    /\ call' = [call EXCEPT ![t] = c]
    /\ phase' = [phase EXCEPT ![t] = First(c.op)]
    /\ answer' = [answer EXCEPT ![t] = {}]
    /\ UNCHANGED <<now, table, since, exposed, doomed, seenEmpty>>

\* A deletion or an AnnouncePeers that finds no swarm: there is no peer either.
Nothing(t) ==
    /\ phase[t] \in {"remove", "read"} /\ t \notin exposed
    /\ \A k \in Kind : Stored(call[t].ih, family(call[t]), k) = {}
    /\ phase' = [phase EXCEPT ![t] = "idle"]
    /\ UNCHANGED <<now, table, call, since, answer, exposed, doomed, seenEmpty>>

Remove(t) ==
    /\ phase[t] = "remove"
    /\ Put(t, kindOf(call[t].op), Absent)
    /\ Return(t)
    /\ UNCHANGED <<now, call, since, answer, doomed, seenEmpty>>

Leave(t) ==
    /\ phase[t] = "leave"
    /\ Put(t, "leechers", Absent)
    /\ phase' = [phase EXCEPT ![t] = "enter"]
    /\ UNCHANGED <<now, call, since, answer, exposed, doomed, seenEmpty>>

Look(t) ==
    /\ phase[t] = "enter"
    /\ phase' = [phase EXCEPT ![t] = "write"]
    /\ since' = [since EXCEPT ![t] = now]
    /\ UNCHANGED <<now, table, call, answer, exposed, doomed, seenEmpty>>

\* The peer is stored with a time the clock showed during the call.
Write(t) ==
    /\ phase[t] = "write"
    /\ \E m \in since[t] .. now : Put(t, kindOf(call[t].op), m)
    /\ Return(t)
    /\ since' = [since EXCEPT ![t] = 0]
    /\ UNCHANGED <<now, call, answer, doomed, seenEmpty>>

\* The set of peers AnnouncePeers takes from next: never the seeders for a seeder.
reading(t) == IF call[t].forSeeder \/ phase[t] = "readLeechers" THEN "leechers" ELSE "seeders"

\* Peers are taken from one set at a time, until no more are wanted.
Read(t) ==
    LET c == call[t]
        k == reading(t)
        want == c.numWant - Cardinality(answer[t])
        most == IF want > 1 THEN want ELSE 1
    IN  /\ phase[t] \in {"read", "readLeechers"}
        /\ \E S \in SUBSET Peer : \E T \in SUBSET S :
              /\ t \notin exposed => S = Stored(c.ih, family(c), k)
              /\ Cardinality(T) = most \/ (T = S /\ Cardinality(T) < most)
              /\ answer' = [answer EXCEPT ![t] = @ \cup ({k} \X T)]
              /\ IF k = "seeders" /\ (T = {} \/ Cardinality(T) < c.numWant)
                 THEN phase' = [phase EXCEPT ![t] = "readLeechers"] /\ UNCHANGED exposed
                 ELSE Return(t)
        /\ UNCHANGED <<now, table, call, since, doomed, seenEmpty>>

----------------------------------------------------------------------------
(* The collector.                                                          *)

Doom(ih, v6, k) ==
    /\ doomed = {}
    /\ \E cutoff \in -PeerLifeTime .. now - PeerLifeTime :
          doomed' = {<<ih, k, p>> : p \in {q \in Stored(ih, v6, k) : table[ih][k][q] <= cutoff}}
    /\ UNCHANGED <<now, table, call, phase, since, answer, exposed, seenEmpty>>

Collect(x) ==
    /\ x \in doomed
    /\ doomed' = doomed \ {x}
    /\ table' = [table EXCEPT ![x[1]][x[2]][x[3]] = Absent]
    /\ UNCHANGED <<now, call, phase, since, answer, exposed, seenEmpty>>

See(ih, v6, k) ==
    /\ Stored(ih, v6, k) = {}
    /\ seenEmpty' = seenEmpty \cup {<<ih, v6, k>>}
    /\ UNCHANGED <<now, table, call, phase, since, answer, exposed, doomed>>

Forget ==
    /\ seenEmpty' = {}
    /\ UNCHANGED <<now, table, call, phase, since, answer, exposed, doomed>>

\* Peers stored since the collector looked go with the info hash.
Drop(ih, v6) ==
    /\ \A k \in Kind : <<ih, v6, k>> \in seenEmpty
    /\ table' = [table EXCEPT ![ih] =
                    [k \in Kind |-> [p \in Peer |-> IF Is6[p] = v6 THEN Absent ELSE @[k][p]]]]
    /\ \E E \in SUBSET {t \in Thread : /\ phase[t] # "idle"
                                       /\ call[t].ih = ih /\ family(call[t]) = v6} :
          exposed' = exposed \cup E
    /\ seenEmpty' = {}
    /\ UNCHANGED <<now, call, phase, since, answer, doomed>>

----------------------------------------------------------------------------
Next ==
    \/ Tick
    \/ \E t \in Thread : \/ \E c \in Call : Begin(t, c)
                         \/ Nothing(t) \/ Remove(t) \/ Leave(t) \/ Look(t) \/ Write(t) \/ Read(t)
    \/ \E ih \in InfoHash, v6 \in BOOLEAN, k \in Kind : Doom(ih, v6, k) \/ See(ih, v6, k)
    \/ \E x \in doomed : Collect(x)
    \/ Forget
    \/ \E ih \in InfoHash, v6 \in BOOLEAN : Drop(ih, v6)

Spec == Init /\ [][Next]_vars
====
