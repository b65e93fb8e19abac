------------------------------- MODULE Logic -------------------------------
(***************************************************************************)
(* The tracker logic (middleware/logic.go, middleware/hooks.go): how an    *)
(* announce or a scrape goes through the pre-hooks, of which the last one  *)
(* fills the response from the store, and, once it is answered, through    *)
(* the post-hooks, of which the last one writes the announcing peer to the *)
(* store.  Requests run in goroutines of their own, post-hooks in others;  *)
(* a step is one call of the store, and any call of it may fail.           *)
(***************************************************************************)
EXTENDS PeerStorage

CONSTANTS
    Req,         \* requests, one goroutine each
    Request,     \* what they may ask
    V2,          \* the info hashes of 32 bytes
    TruncateV1,  \* TruncateV1[ih]: its first 20 bytes, itself an info hash
    HookResults, \* what the configured pre-hooks may do: keys set, peers put
    PostKeys,    \* the sets of context keys the configured post-hooks may set
    Stored,      \* the databases to start from
    MaxFailed     \* bound: hooks and store calls that fail

Event == {"None", "Started", "Stopped", "Completed"}
ContextKey == {"SkipResponseHookKey", "SkipSwarmInteractionKey"}

\* peers are the announcing peer's addresses as sanitized, hashes a scrape's.
RequestType ==
    [kind : {"announce"}, event : Event, ih : Hash, left : Nat, numWant : Nat,
     peers : Seq(Peer)]
    \cup [kind : {"scrape"}, hashes : Seq(Hash)]

ASSUME LogicAssumption ==
    /\ V2 \subseteq Hash /\ TruncateV1 \in [V2 -> Hash \ V2]
    /\ Is6 \in [Peer -> BOOLEAN]
    /\ \A q \in Request :
          /\ q \in RequestType
          /\ q.kind = "announce" => q.peers # <<>>
    /\ HookResults \subseteq [keys : SUBSET ContextKey, peers : Seq(Peer)]
    /\ PostKeys \subseteq SUBSET ContextKey
    /\ Stored \subseteq Database
    /\ MaxFailed \in Nat

VARIABLES
    db,
    asks,       \* the requests
    pc,
    ctx,       \* the context keys set
    todo,      \* calls of the store a request has yet to make
    scraped,   \* the scrape results so far, one for each hash asked for
    peers,     \* appendPeers: the peers so far
    response,      \* IPv4Peers and IPv6Peers
    failures,
    keys,      \* history: the context keys hooks have set
    given,     \* history: the peers pre-hooks have put in the response
    calm,      \* history: the database is as it was when the request began
    tangled,   \* history: peers with overlapping or failed announces
    role       \* history: the sets a peer's announces, in order, put it in

history == <<keys, given>>
logicVars == <<db, asks, pc, ctx, todo, scraped, peers, response, failures, history,
               calm, tangled, role>>

NoResponse == [v4 |-> <<>>, v6 |-> <<>>]
Zero == [complete |-> 0, incomplete |-> 0]

\* The hash asked for, and for a long one its truncated form.
HashForms(ih) == IF ih \in V2 THEN <<ih, TruncateV1[ih]>> ELSE <<ih>>
seeding(q) == q.left = 0
v6First(q) == Is6[q.peers[1]]
Announces == {r \in Req : asks[r].kind = "announce"}
Own(r) == ToSet(asks[r].peers)

LogicInit ==
    /\ db \in Stored
    /\ asks \in [Req -> Request]
    /\ pc = [r \in Req |-> "idle"]
    /\ ctx = [r \in Req |-> {}]
    /\ todo = [r \in Req |-> <<>>]
    /\ scraped = [r \in Req |-> <<>>]
    /\ peers = [r \in Req |-> <<>>]
    /\ response = [r \in Req |-> NoResponse]
    /\ failures = 0
    /\ keys = [r \in Req |-> {}]
    /\ given = [r \in Req |-> <<>>]
    /\ calm = [r \in Req |-> TRUE]
    /\ tangled = {}
    /\ role = [ih \in Hash |-> [p \in Peer |-> {k \in Kind : p \in db[ih][k]}]]

CallFails == failures < MaxFailed /\ failures' = failures + 1

----------------------------------------------------------------------------
(* Pre-hooks.                                                              *)

Busy(r) == pc[r] \notin {"idle", "done", "failed"}

\* HandleAnnounce, HandleScrape.
Begin(r) ==
    /\ pc[r] = "idle"
    /\ pc' = [pc EXCEPT ![r] = "pre"]
    /\ calm' = [calm EXCEPT ![r] = TRUE]
    /\ tangled' = IF r \in Announces
                  THEN tangled \cup UNION {Own(r) \cap Own(s) :
                                              s \in {x \in Announces : Busy(x)}}
                  ELSE tangled
    /\ UNCHANGED <<db, asks, ctx, todo, scraped, peers, response, failures, history, role>>

\* The scrape calls: <<i, ih>> adds the counts of ih to the i-th result.
ScrapeCalls(q) ==
    LET asked == IF q.kind = "announce" THEN <<q.ih>> ELSE q.hashes
    IN  FlattenSeq([i \in DOMAIN asked |->
                       [j \in DOMAIN HashForms(asked[i]) |-> <<i, HashForms(asked[i])[j]>>]])

Response(ps) == [v4 |-> SelectSeq(ps, LAMBDA p : ~Is6[p]),
                 v6 |-> SelectSeq(ps, LAMBDA p : Is6[p])]

\* Mutant: peers of the response count only once there is room.
alreadyAll(q, old) == IF v6First(q) THEN old.v6 \o old.v4 ELSE old.v4 \o old.v6

\* appendPeers begins with the peers in the response, as many as are wanted.
already(q, old) ==
    LET all == IF v6First(q) THEN old.v6 \o old.v4 ELSE old.v4 \o old.v6
    IN  IF Len(all) > q.numWant THEN SubSeq(all, 1, q.numWant) ELSE all

\* The configured hooks: they may refuse the request, put peers in the response
\* of an announce or set context keys, of which one makes responseHook return
\* at once.
PreHooks(r) ==
    /\ pc[r] = "pre"
    /\ \/ /\ \E h \in HookResults :
                /\ r \notin Announces => h.peers = <<>>
                /\ ctx' = [ctx EXCEPT ![r] = h.keys]
                /\ keys' = [keys EXCEPT ![r] = h.keys]
                /\ given' = [given EXCEPT ![r] = h.peers]
                /\ response' = [response EXCEPT ![r] = Response(h.peers)]
          /\ pc' = [pc EXCEPT ![r] = IF "SkipResponseHookKey" \in ctx'[r]
                                     THEN "respond" ELSE "scrape"]
          /\ todo' = [todo EXCEPT ![r] = ScrapeCalls(asks[r])]
          /\ scraped' = [scraped EXCEPT ![r] =
                            IF asks[r].kind = "announce" THEN <<Zero>>
                            ELSE [i \in DOMAIN asks[r].hashes |-> Zero]]
          /\ UNCHANGED failures
       \/ /\ CallFails
          /\ pc' = [pc EXCEPT ![r] = "failed"]
          /\ UNCHANGED <<ctx, history, response, todo, scraped>>
    /\ UNCHANGED <<db, asks, peers, calm, tangled, role>>

\* Mutant: the other family is not asked.
fetchOneFamily(q) == LET H == HashForms(q.ih) IN [i \in DOMAIN H |-> <<H[i], v6First(q)>>]

\* The swarms to fetch peers from: both families of the hash, then of the
\* truncated one.
fetchArgs(q) ==
    FlattenSeq([i \in DOMAIN HashForms(q.ih) |->
                   <<<<HashForms(q.ih)[i], v6First(q)>>, <<HashForms(q.ih)[i], ~v6First(q)>>>>])

\* One ScrapeSwarm.  After the last one appendPeers begins.
Scrape(r) ==
    /\ pc[r] = "scrape"
    /\ \/ /\ todo[r] # <<>>
          /\ LET i == Head(todo[r])[1]
                 s == ScrapeSwarm(db, Head(todo[r])[2])
             IN  scraped' = [scraped EXCEPT ![r][i] =
                                [complete |-> @.complete + s.complete,
                                 incomplete |-> @.incomplete + s.incomplete]]
          /\ todo' = [todo EXCEPT ![r] = Tail(@)]
          /\ UNCHANGED <<pc, peers, failures>>
       \/ /\ todo[r] = <<>>
          /\ pc' = [pc EXCEPT ![r] = IF r \in Announces THEN "fetch" ELSE "respond"]
          /\ IF r \in Announces
             THEN /\ todo' = [todo EXCEPT ![r] = fetchArgs(asks[r])]
                  /\ peers' = [peers EXCEPT ![r] = already(asks[r], response[r])]
             ELSE UNCHANGED <<todo, peers>>
          /\ UNCHANGED <<scraped, failures>>
       \/ /\ todo[r] # <<>> /\ CallFails
          /\ pc' = [pc EXCEPT ![r] = "failed"]
          /\ UNCHANGED <<scraped, peers, todo>>
    /\ UNCHANGED <<db, asks, ctx, response, history, calm, tangled, role>>

maxPeers(r) == asks[r].numWant - Len(peers[r])

\* One AnnouncePeers.
Fetch(r) ==
    /\ pc[r] = "fetch" /\ todo[r] # <<>> /\ maxPeers(r) > 0
    /\ \/ /\ \E ps \in AnnouncePeers(db, Head(todo[r])[1], seeding(asks[r]), maxPeers(r),
                                     Head(todo[r])[2]) :
                peers' = [peers EXCEPT ![r] = @ \o ps]
          /\ todo' = [todo EXCEPT ![r] = Tail(@)]
          /\ UNCHANGED <<pc, failures>>
       \/ /\ CallFails
          /\ pc' = [pc EXCEPT ![r] = "failed"]
          /\ UNCHANGED <<peers, todo>>
    /\ UNCHANGED <<db, asks, ctx, scraped, response, history, calm, tangled, role>>

\* Mutant: no map of the peers already taken.
uniqueNot(ps) == ps

\* Each peer once.
unique(ps) == FoldLeft(LAMBDA acc, p : IF Contains(acc, p) THEN acc ELSE Append(acc, p),
                       <<>>, ps)

\* With no peer found, the requester itself is, and is counted.
OwnPeers(r) ==
    IF peers[r] # <<>> THEN <<peers[r], scraped[r]>>
    ELSE <<asks[r].peers,
           IF seeding(asks[r]) THEN [scraped[r] EXCEPT ![1].complete = @ + 1]
                              ELSE [scraped[r] EXCEPT ![1].incomplete = @ + 1]>>

\* The end of appendPeers.
Finish(r) ==
    LET found == unique(OwnPeers(r)[1])
    IN  /\ pc[r] = "fetch" /\ (todo[r] = <<>> \/ maxPeers(r) <= 0)
        /\ response' = [response EXCEPT ![r] = Response(found)]
        /\ scraped' = [scraped EXCEPT ![r] = OwnPeers(r)[2]]
        /\ pc' = [pc EXCEPT ![r] = "respond"]
        /\ UNCHANGED <<db, asks, ctx, todo, peers, failures, history, calm, tangled, role>>

----------------------------------------------------------------------------
(* Post-hooks.                                                             *)

\* The frontend writes the response and starts AfterAnnounce or AfterScrape
\* with RemapRouteParamsToBgContext of the context.
Respond(r) ==
    /\ pc[r] = "respond"
    /\ pc' = [pc EXCEPT ![r] = "after"]
    /\ ctx' = [ctx EXCEPT ![r] = {}]
    /\ UNCHANGED <<db, asks, todo, scraped, peers, response, failures, history, calm, tangled,
                   role>>

\* Mutant: a peer with nothing left is put, whatever the event.
storeFnByLeft(q) ==
    IF q.event = "Stopped" THEN <<"DeleteSeeder", "DeleteLeecher">>
    ELSE IF q.left = 0 THEN <<"PutSeeder">>
    ELSE IF q.event = "Completed" THEN <<"GraduateLeecher">> ELSE <<"PutLeecher">>

storeFn(q) ==
    CASE q.event = "Stopped" -> <<"DeleteSeeder", "DeleteLeecher">>
      [] q.event = "Completed" -> <<"GraduateLeecher">>
      [] q.event \notin {"Stopped", "Completed"} /\ q.left = 0 -> <<"PutSeeder">>
      [] OTHER -> <<"PutLeecher">>

\* The calls of swarmInteractionHook: for every address, for the hash and its
\* truncated form.
StoreCalls(q) ==
    FlattenSeq([i \in DOMAIN q.peers |->
        FlattenSeq([j \in DOMAIN HashForms(q.ih) |->
            [k \in DOMAIN storeFn(q) |-> <<storeFn(q)[k], HashForms(q.ih)[j], q.peers[i]>>]])])

Abort(r) ==
    /\ CallFails
    /\ pc' = [pc EXCEPT ![r] = "failed"]
    /\ tangled' = IF r \in Announces THEN tangled \cup Own(r) ELSE tangled

\* The configured post-hooks, which may set keys, and the check of the context
\* that swarmInteractionHook begins with.
AfterAnnounce(r) ==
    /\ pc[r] = "after" /\ r \in Announces
    /\ \/ /\ \E K \in PostKeys : /\ ctx' = [ctx EXCEPT ![r] = @ \cup K]
                                 /\ keys' = [keys EXCEPT ![r] = @ \cup K]
          /\ IF "SkipSwarmInteractionKey" \in ctx'[r]
             THEN pc' = [pc EXCEPT ![r] = "done"] /\ UNCHANGED todo
             ELSE /\ pc' = [pc EXCEPT ![r] = "store"]
                  /\ todo' = [todo EXCEPT ![r] = StoreCalls(asks[r])]
          /\ UNCHANGED <<failures, tangled>>
       \/ Abort(r) /\ UNCHANGED <<ctx, keys, todo>>
    /\ UNCHANGED <<db, asks, scraped, peers, response, given, calm, role>>

\* Scrapes have no effect on the swarm.
AfterScrape(r) ==
    /\ pc[r] = "after" /\ r \notin Announces
    /\ \/ pc' = [pc EXCEPT ![r] = "done"] /\ UNCHANGED <<failures, tangled>>
       \/ Abort(r)
    /\ UNCHANGED <<db, asks, ctx, todo, scraped, peers, response, history, calm, role>>

\* One write.  ErrResourceDoesNotExist of a deletion is no failure.
StoreWrite(r) ==
    /\ pc[r] = "store" /\ todo[r] # <<>>
    /\ \/ /\ LET c == Head(todo[r]) IN db' = Apply(db, c[1], c[2], c[3])
          /\ todo' = [todo EXCEPT ![r] = Tail(@)]
          /\ calm' = [s \in Req |-> calm[s] /\ db' = db]
          /\ UNCHANGED <<pc, failures, tangled>>
       \/ Abort(r) /\ UNCHANGED <<db, todo, calm>>
    /\ UNCHANGED <<asks, ctx, scraped, peers, response, history, role>>

\* What an announce makes of the sets a peer is in.
RoleAfter(q, R) ==
    CASE q.event = "Stopped" -> {}
      [] q.event = "Completed" -> {"seeders"}
      [] OTHER -> R \cup {IF q.left = 0 THEN "seeders" ELSE "leechers"}

Interacted(r) ==
    /\ pc[r] = "store" /\ todo[r] = <<>>
    /\ pc' = [pc EXCEPT ![r] = "done"]
    /\ role' = [ih \in Hash |-> [p \in Peer |->
                  IF ih \in ToSet(HashForms(asks[r].ih)) /\ p \in Own(r)
                  THEN RoleAfter(asks[r], role[ih][p]) ELSE role[ih][p]]]
    /\ UNCHANGED <<db, asks, ctx, todo, scraped, peers, response, failures, history, calm,
                   tangled>>

----------------------------------------------------------------------------
Step(r) ==
    \/ PreHooks(r) \/ Scrape(r) \/ Fetch(r) \/ Finish(r) \/ Respond(r)
    \/ AfterAnnounce(r) \/ AfterScrape(r) \/ StoreWrite(r) \/ Interacted(r)

LogicNext == \E r \in Req : Begin(r) \/ Step(r)

LogicSpec == LogicInit /\ [][LogicNext]_logicVars

----------------------------------------------------------------------------
(* Properties.                                                             *)

\* The variables have their types; no more than numWant peers are taken from
\* the store.
LogicTypeOK ==
    /\ db \in Database
    /\ asks \in [Req -> Request]
    /\ pc \in [Req -> {"idle", "pre", "scrape", "fetch", "respond", "after", "store", "done",
                      "failed"}]
    /\ \A r \in Req :
          /\ ctx[r] \subseteq keys[r] /\ keys[r] \subseteq ContextKey /\ calm[r] \in BOOLEAN
          /\ ToSet(peers[r]) \cup ToSet(given[r]) \subseteq Peer
          /\ ToSet(response[r].v4) \cup ToSet(response[r].v6) \subseteq Peer
          /\ \A i \in DOMAIN scraped[r] : /\ scraped[r][i].complete \in Nat
                                          /\ scraped[r][i].incomplete \in Nat
    /\ failures \in 0 .. MaxFailed
    /\ tangled \subseteq Peer
    /\ role \in [Hash -> [Peer -> SUBSET Kind]]

Filled(r) == pc[r] = "respond" /\ r \in Announces /\ "SkipResponseHookKey" \notin ctx[r]
InResponse(r) == ToSet(response[r].v4) \cup ToSet(response[r].v6)

\* appendPeers puts a peer in a response once, in the list of its family; the
\* two lists together are within NumWant, over up to four calls of the store
\* among which other requests write; only a requester that was given nobody is
\* given itself.
ResponseSound ==
    \A r \in Req :
        Filled(r) =>
            /\ IsInjective(response[r].v4) /\ IsInjective(response[r].v6)
            /\ \A p \in ToSet(response[r].v4) : ~Is6[p]
            /\ \A p \in ToSet(response[r].v6) : Is6[p]
            /\ \/ Len(response[r].v4) + Len(response[r].v6) <= asks[r].numWant
               \/ peers[r] = <<>> /\ InResponse(r) = Own(r)

\* The peers a request may be given.
Eligible(r, v6) ==
    UNION {OfFamily(db, ih, k, v6) : ih \in ToSet(HashForms(asks[r].ih)),
                                     k \in IF seeding(asks[r]) THEN {"leechers"} ELSE Kind}

\* When nobody writes meanwhile, a response leaves a peer out only because the
\* request wanted no more, and has a peer of the requester's other family that
\* no hook has put there only when all of the first family's peers of the hash
\* are in it.
ResponseFull ==
    \A r \in Req :
        (Filled(r) /\ calm[r] /\ peers[r] # <<>>) =>
            LET v6 == v6First(asks[r])
            IN  /\ Len(peers[r]) < asks[r].numWant =>
                      Eligible(r, TRUE) \cup Eligible(r, FALSE) \subseteq InResponse(r)
                /\ (\E p \in InResponse(r) \ ToSet(given[r]) : Is6[p] # v6) =>
                      \A k \in IF seeding(asks[r]) THEN {"leechers"} ELSE Kind :
                          OfFamily(db, asks[r].ih, k, v6) \subseteq InResponse(r)

\* A peer whose announces neither overlapped nor failed is in the sets that
\* its announces, in order, say, under the hash it announced and under the
\* truncated one: the post-hooks of others do not disturb it, and an announce
\* that a post-hook says to skip changes nothing.  What pre-hooks say about it
\* is lost, see SwarmSkipped.
SequentialMembership ==
    \A p \in Peer \ tangled :
        (\A r \in Announces : p \in Own(r) => ~Busy(r)) =>
            \A ih \in Hash : {k \in Kind : p \in db[ih][k]} = role[ih][p]

----------------------------------------------------------------------------
(* What the repository says and the code does not do.                      *)

\* An announce does not interact with the swarm when a hook, before or after
\* the response, has set SkipSwarmInteractionKey in its context.
SwarmSkipped == \A r \in Req : "SkipSwarmInteractionKey" \in keys[r] => pc[r] # "store"
====
