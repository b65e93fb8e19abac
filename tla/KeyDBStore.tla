----------------------------- MODULE KeyDBStore -----------------------------
(***************************************************************************)
(* The KeyDB peer store (storage/keydb/storage.go): the Redis store with   *)
(* sets in place of hashes and, in place of a collector, members that the  *)
(* server expires.  A step is one command; a command may fail, before or   *)
(* after it took effect, a goroutine may die between two commands, and     *)
(* Close ends the connection under the calls that are running.             *)
(***************************************************************************)
EXTENDS RedisConnection

CONSTANTS
    Is6,                    \* Is6[p]: the peer's address is IPv6
    Thread,                 \* goroutines that call the store
    Call,                   \* the calls the threads may make
    PeerLifetime,           \* of the configuration
    DefaultPeerLifetime,
    Second,                 \* a second, in the unit of the lifetimes
    MaxCalls,               \* bound: this many calls begin
    MaxFails                \* bound: this many commands fail or goroutines die

WriteOps == {"PutSeeder", "PutLeecher", "DeleteSeeder", "DeleteLeecher", "GraduateLeecher"}
CallType ==
    [op : WriteOps, ih : InfoHash, p : Peer]
        \cup [op : {"AnnouncePeers"}, ih : InfoHash, forSeeder : BOOLEAN, numWant : Nat, v6 : BOOLEAN]

ASSUME KeyDBAssumption ==
    /\ IsFiniteSet(InfoHash) /\ IsFiniteSet(Peer) /\ IsFiniteSet(Thread)
    /\ Is6 \in [Peer -> BOOLEAN]
    /\ Call \subseteq CallType /\ Call # {}
    /\ PeerLifetime \in Int /\ DefaultPeerLifetime \in Nat /\ Second \in Nat \ {0}
    /\ MaxCalls \in Nat /\ MaxFails \in Nat

NoCall == CHOOSE c \in Call : TRUE

\* newStore: a lifetime in seconds.
peerTTL == (IF PeerLifetime <= 0 THEN DefaultPeerLifetime ELSE PeerLifetime) \div Second

\* The time a member has left; none if it is not there, no end if it is never
\* to expire.
Absent == -1
NoEnd == peerTTL + 1

VARIABLES
    begun, fails,
    set,        \* CHI_{L,S}{4,6}_<HASH>: peer to the time it has left
    downloads,  \* CHI_D
    closed,
    pc, call,
    asked,      \* GetPeers: the keys not asked yet
    out,        \* the peers it has got, with the key they are from
    result,     \* how the last call ended
    stayed,     \* history: members of the keys of an announce since it began
    leaked      \* history: members that were left without an expiry

serverVars == <<set, downloads>>
threadVars == <<pc, call, asked, out, result>>
vars == <<begun, fails, serverVars, closed, threadVars, stayed, leaked>>

kindOf(op) == IF op \in {"PutLeecher", "DeleteLeecher"} THEN "leechers" ELSE "seeders"
keyOf(c, kind) == InfoHashKey(c.ih, kind, Is6[c.p])
Members(key) == {p \in Peer : set[key][p] # Absent}
Keys(s) == {s[i] : i \in DOMAIN s}

Init ==
    /\ begun = 0 /\ fails = 0
    /\ set = [key \in Key |-> [p \in Peer |-> Absent]]
    /\ downloads = [ih \in InfoHash |-> 0]
    /\ closed = FALSE
    /\ pc = [t \in Thread |-> "idle"]
    /\ call = [t \in Thread |-> NoCall]
    /\ asked = [t \in Thread |-> <<>>]
    /\ out = [t \in Thread |-> {}]
    /\ result = [t \in Thread |-> "none"]
    /\ stayed = [t \in Thread |-> {}]
    /\ leaked = {}

----------------------------------------------------------------------------
(* The server.                                                             *)

\* Time passes for the members that are to expire.
Tick ==
    /\ \E key \in Key, p \in Peer : set[key][p] \in 1 .. peerTTL
    /\ set' = [key \in Key |-> [p \in Peer |->
          IF set[key][p] \in 1 .. peerTTL THEN set[key][p] - 1 ELSE set[key][p]]]
    /\ UNCHANGED <<begun, fails, downloads, closed, threadVars, stayed, leaked>>

\* The members of a set that are gone have not stayed, and are not leaked.
Gone(key, D) ==
    /\ stayed' = [t \in Thread |-> stayed[t] \ ({key} \X D)]
    /\ leaked' = leaked \ ({key} \X D)

\* The server takes away a member whose time is up.
Expire(key, p) ==
    /\ set[key][p] = 0
    /\ set' = [set EXCEPT ![key][p] = Absent]
    /\ Gone(key, {p})
    /\ UNCHANGED <<begun, fails, downloads, closed, threadVars>>

\* SADD leaves the expiry of a member alone.
SAdd(key, p) == set' = [set EXCEPT ![key][p] = IF @ = Absent THEN NoEnd ELSE @]

\* EXPIREMEMBER does nothing to a member that is not there.
ExpireMember(key, p) == set' = [set EXCEPT ![key][p] = IF @ = Absent THEN Absent ELSE peerTTL]

\* SMOVE; whether an expiry moves along is up to the server.
SMove(from, to, p) ==
    \E left \in {set[from][p], NoEnd} :
        set' = [set EXCEPT ![from][p] = Absent, ![to][p] = IF @ = Absent THEN left ELSE @]

----------------------------------------------------------------------------
(* The calls.                                                              *)

Fail == fails < MaxFails /\ fails' = fails + 1

Begin(t, c) ==
    /\ pc[t] = "idle" /\ begun < MaxCalls
    /\ begun' = begun + 1
    /\ pc' = [pc EXCEPT ![t] =
          CASE c.op \in {"PutSeeder", "PutLeecher"} -> "sadd"
            [] c.op \in {"DeleteSeeder", "DeleteLeecher"} -> "srem"
            [] c.op = "GraduateLeecher" -> "smove"
            [] c.op = "AnnouncePeers" -> "srandmember"]
    /\ call' = [call EXCEPT ![t] = c]
    /\ asked' = [asked EXCEPT ![t] = IF c.op = "AnnouncePeers"
                                     THEN PeerKeys(c.ih, c.forSeeder, c.v6) ELSE <<>>]
    /\ out' = [out EXCEPT ![t] = {}]
    /\ result' = [result EXCEPT ![t] = "none"]
    /\ stayed' = [stayed EXCEPT ![t] =
          {x \in Keys(asked'[t]) \X Peer : set[x[1]][x[2]] # Absent}]
    /\ UNCHANGED <<fails, serverVars, closed, leaked>>

\* The next command of thread t is sent, or its call returns.
Go(t, next) ==
    /\ pc' = [pc EXCEPT ![t] = next]
    /\ UNCHANGED <<call, asked, out, result>>
Return(t, res) ==
    /\ pc' = [pc EXCEPT ![t] = "idle"]
    /\ call' = [call EXCEPT ![t] = NoCall]
    /\ result' = [result EXCEPT ![t] = res]
    /\ UNCHANGED <<asked, out>>

\* A command fails: all of them do once the connection is closed.
Failed == (Fail \/ (closed /\ UNCHANGED fails))
Done == ~closed /\ UNCHANGED fails

\* A member that has no expiry is left so.
Leak(key, p) == leaked' = IF set'[key][p] = NoEnd THEN leaked \cup {<<key, p>>} ELSE leaked

\* Mutant: no EXPIREMEMBER follows.
AddOnly(t) ==
    LET c == call[t]
        key == keyOf(c, kindOf(c.op))
    IN  /\ pc[t] = "sadd"
        /\ Done /\ SAdd(key, c.p) /\ Return(t, "ok")
        /\ UNCHANGED <<begun, downloads, closed, stayed, leaked>>

\* addPeer: SADD ...
Add(t) ==
    LET c == call[t]
        key == keyOf(c, kindOf(c.op))
    IN  /\ pc[t] = "sadd"
        /\ \/ /\ ~closed /\ SAdd(key, c.p)
              /\ \/ Done /\ Go(t, "expire") /\ UNCHANGED leaked
                 \/ Fail /\ Return(t, "err") /\ Leak(key, c.p)
           \/ Failed /\ Return(t, "err") /\ UNCHANGED <<set, leaked>>
        /\ UNCHANGED <<begun, downloads, closed, stayed>>

\* ... and EXPIREMEMBER, which starts the peer's lifetime over.
SetExpiry(t) ==
    LET c == call[t]
        key == keyOf(c, kindOf(c.op))
    IN  /\ pc[t] = "expire"
        /\ \/ /\ ~closed /\ ExpireMember(key, c.p) /\ leaked' = leaked \ {<<key, c.p>>}
              /\ \/ Done /\ Return(t, "ok")
                 \/ Fail /\ Return(t, "err")
           \/ Failed /\ Return(t, "err") /\ UNCHANGED set /\ Leak(key, c.p)
        /\ UNCHANGED <<begun, downloads, closed, stayed>>

\* delPeer: SREM, whose reply of zero is ErrResourceDoesNotExist.
Remove(t) ==
    LET c == call[t]
        key == keyOf(c, kindOf(c.op))
    IN  /\ pc[t] = "srem"
        /\ \/ /\ ~closed /\ set' = [set EXCEPT ![key][c.p] = Absent] /\ Gone(key, {c.p})
              /\ \/ Done /\ Return(t, IF c.p \in Members(key) THEN "ok" ELSE "notExist")
                 \/ Fail /\ Return(t, "err")
           \/ Failed /\ Return(t, "err") /\ UNCHANGED <<set, stayed, leaked>>
        /\ UNCHANGED <<begun, downloads, closed>>

\* GraduateLeecher: SMOVE.  A peer that was moved is not given an expiry and
\* its download is not counted: both are done only after an error.
Move(t) ==
    LET c == call[t]
        from == keyOf(c, "leechers")
        to == keyOf(c, "seeders")
        moved == c.p \in Members(from)
    IN  /\ pc[t] = "smove"
        /\ \/ /\ ~closed
              /\ IF moved THEN SMove(from, to, c.p) ELSE UNCHANGED set
              /\ stayed' = [u \in Thread |-> stayed[u] \ {<<from, c.p>>}]
              /\ leaked' = (leaked \ {<<from, c.p>>})
                              \cup (IF moved /\ set'[to][c.p] = NoEnd THEN {<<to, c.p>>} ELSE {})
              /\ \/ Done /\ (IF moved THEN Return(t, "ok") ELSE Go(t, "gradAdd"))
                 \/ Fail /\ Return(t, "err")
           \/ Failed /\ Return(t, "err") /\ UNCHANGED <<set, stayed, leaked>>
        /\ UNCHANGED <<begun, downloads, closed>>

\* SADD of a peer that was no leecher; if that fails, EXPIREMEMBER ...
GradAdd(t) ==
    LET c == call[t]
        key == keyOf(c, "seeders")
    IN  /\ pc[t] = "gradAdd"
        /\ \/ /\ ~closed /\ SAdd(key, c.p) /\ Leak(key, c.p)
              /\ \/ Done /\ Return(t, "ok")
                 \/ Fail /\ Go(t, "gradExpire")
           \/ Failed /\ Go(t, "gradExpire") /\ UNCHANGED <<set, leaked>>
        /\ UNCHANGED <<begun, downloads, closed, stayed>>

GradExpire(t) ==
    LET c == call[t]
        key == keyOf(c, "seeders")
    IN  /\ pc[t] = "gradExpire"
        /\ \/ /\ ~closed /\ ExpireMember(key, c.p) /\ leaked' = leaked \ {<<key, c.p>>}
              /\ \/ Done /\ Go(t, "count")
                 \/ Fail /\ Return(t, "err")
           \/ Failed /\ Return(t, "err") /\ UNCHANGED <<set, leaked>>
        /\ UNCHANGED <<begun, downloads, closed, stayed>>

\* ... and HINCRBY, whose success is the call's.
Count(t) ==
    /\ pc[t] = "count"
    /\ \/ /\ ~closed /\ downloads' = [downloads EXCEPT ![call[t].ih] = @ + 1]
          /\ \/ Done /\ Return(t, "ok")
             \/ Fail /\ Return(t, "err")
       \/ Failed /\ Return(t, "err") /\ UNCHANGED downloads
    /\ UNCHANGED <<begun, set, closed, stayed, leaked>>

\* How GetPeers ends: an error counts only if there are no peers.
Ending(peers, failed) ==
    CASE peers # {} -> "ok" [] failed -> "err" [] OTHER -> "notExist"

\* Mutant: the second key is asked for as many peers as the first.
LeftAll(c, peers) == c.numWant

\* maxCount, which runs down.
Left(c, peers) == c.numWant - Cardinality(peers)

\* GetPeers: SRANDMEMBER of the next key, for the number of peers still wanted.
RandMember(t) ==
    LET c == call[t]
        key == Head(asked[t])
        left == Left(c, out[t])
    IN  /\ pc[t] = "srandmember"
        /\ \/ /\ ~closed /\ Done
              /\ \E S \in SUBSET Members(key) :
                    /\ Cardinality(S) = IF left < Cardinality(Members(key)) THEN left
                                        ELSE Cardinality(Members(key))
                    /\ out' = [out EXCEPT ![t] = @ \cup ({key} \X S)]
              /\ asked' = [asked EXCEPT ![t] = Tail(@)]
              /\ IF asked'[t] = <<>> \/ Left(c, out'[t]) <= 0
                 THEN /\ pc' = [pc EXCEPT ![t] = "idle"]
                      /\ result' = [result EXCEPT ![t] = Ending(out'[t], FALSE)]
                 ELSE UNCHANGED <<pc, result>>
              /\ UNCHANGED call
           \/ /\ Failed
              /\ pc' = [pc EXCEPT ![t] = "idle"]
              /\ result' = [result EXCEPT ![t] = Ending(out[t], TRUE)]
              /\ UNCHANGED <<call, asked, out>>
        /\ UNCHANGED <<begun, serverVars, closed, stayed, leaked>>

\* The goroutine dies with its process; another one takes its place.
Die(t) ==
    /\ pc[t] # "idle" /\ Fail
    /\ Return(t, "none")
    /\ UNCHANGED serverVars
    /\ IF pc[t] = "expire" THEN Leak(keyOf(call[t], kindOf(call[t].op)), call[t].p)
       ELSE UNCHANGED leaked
    /\ UNCHANGED <<begun, closed, stayed>>

\* Close of the client, which waits for nobody.
Close ==
    /\ ~closed
    /\ closed' = TRUE
    /\ UNCHANGED <<begun, fails, serverVars, threadVars, stayed, leaked>>

----------------------------------------------------------------------------
ThreadStep(t) ==
    \/ Add(t) \/ SetExpiry(t) \/ Remove(t) \/ Move(t) \/ GradAdd(t) \/ GradExpire(t) \/ Count(t)
    \/ RandMember(t)

Next ==
    \/ Tick
    \/ \E key \in Key, p \in Peer : Expire(key, p)
    \/ \E t \in Thread : ThreadStep(t) \/ Die(t) \/ \E c \in Call : Begin(t, c)
    \/ Close

Spec == Init /\ [][Next]_vars

\* Goroutines are scheduled, time passes and the server expires members.
FairSpec ==
    /\ Spec
    /\ WF_vars(Tick)
    /\ \A key \in Key, p \in Peer : WF_vars(Expire(key, p))
    /\ \A t \in Thread : WF_vars(ThreadStep(t))

----------------------------------------------------------------------------
(* Properties.                                                             *)

\* The variables have their types; no member has more than its lifetime left.
TypeOK ==
    /\ begun \in 0 .. MaxCalls /\ fails \in 0 .. MaxFails
    /\ set \in [Key -> [Peer -> Absent .. NoEnd]]
    /\ downloads \in [InfoHash -> Nat]
    /\ closed \in BOOLEAN
    /\ pc \in [Thread -> {"idle", "sadd", "expire", "srem", "smove", "gradAdd", "gradExpire",
                          "count", "srandmember"}]
    /\ call \in [Thread -> Call]
    /\ asked \in [Thread -> Seq(Key)] /\ \A t \in Thread : Len(asked[t]) <= 2
    /\ out \in [Thread -> SUBSET (Key \X Peer)]
    /\ result \in [Thread -> {"none", "ok", "err", "notExist"}]
    /\ stayed \in [Thread -> SUBSET (Key \X Peer)]
    /\ leaked \subseteq Key \X Peer

\* An answer of AnnouncePeers has at most numWant peers, over both keys; when
\* it has fewer and no command failed, it has every peer that stayed in a key
\* asked while the call ran, whoever else came, left or moved meanwhile.
AnnounceAnswer ==
    \A t \in Thread :
        (pc[t] = "idle" /\ call[t].op = "AnnouncePeers" /\ result[t] # "none") =>
            /\ Cardinality(out[t]) <= call[t].numWant
            /\ (asked[t] = <<>> /\ Cardinality(out[t]) < call[t].numWant)
                  => stayed[t] \subseteq out[t]

\* Once the calls have ended the sets empty without a collector, but for the
\* members that graduated, or whose call failed or died between SADD and
\* EXPIREMEMBER: whoever else put, moved or deleted a peer meanwhile, it is
\* left with an expiry.  That graduated peers are among the members left out is
\* what EveryPeerExpires is about.
PeersExpire == <>[](\A key \in Key, p \in Peer : set[key][p] # Absent => <<key, p>> \in leaked)

\* "uses KeyDB-specific command `EXPIREMEMBER`, so it does not need garbage
\* collection" (storage/keydb/storage.go:3-4): while the store is open and no
\* command fails, every peer expires in the end.
EveryPeerExpires == <>[](closed \/ \A key \in Key, p \in Peer : set[key][p] = Absent)

----------------------------------------------------------------------------
(* The inductive invariant behind AnnounceAnswer.                          *)

\* A goroutine sends only the commands of its call.
Stages ==
    \A t \in Thread :
        /\ pc[t] \in {"sadd", "expire"} => call[t].op \in {"PutSeeder", "PutLeecher"}
        /\ pc[t] = "srem" => call[t].op \in {"DeleteSeeder", "DeleteLeecher"}
        /\ pc[t] \in {"smove", "gradAdd", "gradExpire", "count"} => call[t].op = "GraduateLeecher"
        /\ pc[t] = "srandmember" => call[t].op = "AnnouncePeers"

\* How far GetPeers of thread t has got: no key or the first one is done, the
\* peers are from that one, and who stayed is among them or in a key to come.
Asking(t) ==
    LET c == call[t]
    IN  /\ pc[t] \notin {"idle", "srandmember"} => out[t] = {} /\ stayed[t] = {}
        /\ pc[t] = "srandmember" =>
              /\ \/ asked[t] = PeerKeys(c.ih, c.forSeeder, c.v6) /\ out[t] = {}
                 \/ /\ asked[t] = <<InfoHashKey(c.ih, "leechers", c.v6)>>
                    /\ out[t] \subseteq {InfoHashKey(c.ih, "seeders", c.v6)} \X Peer
              /\ Cardinality(out[t]) <= c.numWant
              /\ stayed[t] \subseteq out[t] \cup (Keys(asked[t]) \X Peer)

\* Who stayed is there.
Staying == \A t \in Thread : \A x \in stayed[t] : set[x[1]][x[2]] # Absent

AnnounceInv == TypeOK /\ Stages /\ Staying /\ (\A t \in Thread : Asking(t)) /\ AnnounceAnswer

----------------------------------------------------------------------------
(* The safety side of PeersExpire.                                         *)

\* Thread t has put member p of the key and is about to send its EXPIREMEMBER.
Expiring(t, key, p) ==
    pc[t] = "expire" /\ keyOf(call[t], kindOf(call[t].op)) = key /\ call[t].p = p

\* A member that is never to expire is one the history knows as leaked, or a
\* goroutine is on its way to give it an expiry: no interleaving of puts,
\* deletes, graduations and expiries strands another one.
ExpiryDue ==
    \A key \in Key, p \in Peer :
        set[key][p] = NoEnd => <<key, p>> \in leaked \/ \E t \in Thread : Expiring(t, key, p)
====
