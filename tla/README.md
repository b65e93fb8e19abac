# Mochi in TLA+

Mochi is a BitTorrent tracker. Clients *announce* themselves for an info hash
and get other peers back, or *scrape* the counts of some hashes. This directory
models the parts of it in which goroutines, stores, servers and timers
interact, model-checks them with TLC on small instances, and proves the main
safety properties of eight components with TLAPS for instances of any size.

`PROJECT.json` lists the components, the runs, the mutants, the source lines of
every definition, the findings, the hazards and the theorems. Paths below are
relative to `src/`.

## The system

| Part | Source | Modules | State of it |
|---|---|---|---|
| In-memory peer store, with its collector | `storage/memory` | `MemoryStore`, `SwarmStore`, `MemoryRefinement` | modelled but for the statistics; proved, with its refinement |
| What any peer store does, call by call | `storage/storage.go` | `PeerStorage` | operators |
| Redis peer store | `storage/redis` | `RedisConnection`, `RedisStore` | writes, scrape, collectors, Close; proved |
| KeyDB peer store | `storage/keydb` | `RedisConnection`, `KeyDBStore` | writes, announce, expiry, Close; proved |
| PostgreSQL peer store | `storage/pg` | `PgStore` | writes, announce, scrape, collector, Close; proved |
| Tracker logic and its two hooks | `middleware/logic.go`, `hooks.go` | `Logic` | modelled over `PeerStorage` |
| Torrent approval | `middleware/torrentapproval` | `TorrentApproval` | modelled; proved |
| JWT, client approval, interval variation | `middleware/...` | `Hooks` | modelled over `Requests` |
| UDP frontend | `frontend/udp` | `UDPFrontend` | modelled; proved |
| Connection IDs | `frontend/udp/connection_id.go` | `ConnectionID` | modelled; proved |
| HTTP frontend, start and shutdown | `frontend/http`, `cmd/mochi` | `HTTPFrontend` | modelled; proved |
| Parsing and sanitizing of requests | `bittorrent`, both parsers | `Requests` | modelled |
| Metrics, logging, configuration | `pkg/...` | | not modelled |

A datagram or an HTTP request reaches a handler goroutine of its frontend,
which parses it (`Requests`), checks its connection ID (UDP only,
`ConnectionID`), calls `HandleAnnounce` or `HandleScrape` (`Logic`: the
configured pre-hooks, `Hooks` and `TorrentApproval`, and the response hook as
the last), writes the answer, and starts another goroutine for the post-hooks,
which write the peer to the store. Nobody waits for that goroutine. The store
serves all of them at once; all stores but KeyDB have a collector. At the end
`Shutdown` closes the frontends, then the hooks, then the store.

The modules meet where the code does. `Logic` calls the operators of
`PeerStorage`; `Hooks` goes on with the requests that `Requests` lets through;
`RedisStore` and `KeyDBStore` share `RedisConnection`, as the code does; the
frontends see the pre-hooks as a step that may fail or find the store closed;
the stores see calls that begin at any time.

## The modules

`MC*` modules hold only the small instances for TLC. Two of them are sums:
`MCFrontends` has the UDP frontend, its connection IDs and the HTTP frontend,
`MCMiddleware` has `Hooks` (over `Requests`), `Logic` and `TorrentApproval`.
These parts share no state, so nothing is gained by interleaving them: a
variable `part` says which one a behaviour runs, and the others rest in a state
in which their process has ended or has nothing to do, where their fairness asks
for nothing.

**MemoryStore.** `swarms` are the maps of the shards, `peers` the two maps of a
`swarm` value on the heap (a `SwarmObj`, which a goroutine may hold after it
was dropped from the map), `numPeers` the atomic counters modulo `Word`. A step
is one lock section or one atomic operation: `Lookup` (`ihSwarm.get`), `Create`
(`getOrCreate`), `Check` (`peers.get` and the atomic `Add` that follows it: no
call reads the counters, so the `Add` may be thought of as part of the lock
section, and likewise the decrements in `Remove`), `Set` (`peers.set`),
`Remove` and `Unlist` (`peers.del`), `Keys` (one scan of `AnnouncePeers`). The
collector's steps are `GCFire`, `GCShard`, `GCNext`, `GCScan`, `GCPurge`,
`GCPurged`, `GCLen`, `GCDrop`. Two history variables name the windows the code
leaves open: `raced` has the counters (shard and kind) of every peer stored on
an outdated look or in a swarm no longer in the map, and of every swarm dropped
while it had peers; `dropped` has the info hashes the collector removed. A call
after `Close` is a panic.

**SwarmStore, MemoryRefinement.** `SwarmStore` is the promise: one table of
peers with the times they were stored at. A call changes it in one step,
`GraduateLeecher` in two; a put chooses its time before it writes. The collector
takes only peers it has seen to be stale (`doomed`), and drops an info hash only
after it saw both sets of peers empty (`seenEmpty`). The code does both on
outdated sight, so the promise does too: a peer may be taken that was renewed
since, and a call that a drop overtakes (`exposed`) may write to nothing. Every
other call takes effect exactly once. `MemoryRefinement` reads the table off
shards and swarm values, and the progress of a call off its program counter.

**PeerStorage.** A database is two sets of peers per info hash; each call of
the store is an operator on it.

**Logic.** One request per `Req`; a step is one store call. `fetchArgs`,
`already`, `maxPeers`, `unique` and `OwnPeers` are the stages of `appendPeers`;
`storeFn` and `StoreCalls` the writes of the swarm interaction hook. Configured
pre-hooks may refuse, put peers in the response or set context keys
(`HookResults`), post-hooks may set keys (`PostKeys`). The context given to the
post-hooks is the new one of `RemapRouteParamsToBgContext`. History:
`role` is what the announces of a peer add up to when taken one after the
other, `tangled` the peers whose announces overlapped or failed.

**RedisConnection.** The names of the keys, and which keys the calls read.

**RedisStore.** `hash`, `ihSet`, `count`, `downloads` are the keys of the Redis
database; a step is one command or one MULTI/EXEC block. A command may fail
before or after it took effect, and an instance may stop between two commands
(`Die`, `GCDie`) and be started again. Redis outlives its trackers, so `Stored`
says what it holds at first. `slipped` names the one window in which a key is
taken off the collectors' list although it has peers: a put between HLEN and
SREM. What a write returns to its caller is left out; which command comes next
depends on replies as in the code. A block of commands is one transaction, as it
is on one server, with or without Sentinel. In the Cluster mode of the code
(`storage/redis/storage.go:189`) the client splits a block by the slots of its
keys, and the parts are transactions of their own; that mode is not modelled.

**KeyDBStore.** `set` gives every member the time it has left, `NoEnd` if the
server is not to expire it. A write is two commands, SADD and EXPIREMEMBER, and
members that the second one missed are `leaked`. The test of the error in
`GraduateLeecher` is translated as it is written. `GetPeers` asks
its keys in turn; `stayed` are the members that were there all the time.

**PgStore.** `role` and `created` are the rows of `mo_peers`, `downloads` those
of `mo_downloads`. The queries come from the configuration; the ones modelled
are those of `dist/example_config_pg.yaml`. A statement alone is one step. In a
batch, a step changes its rows, which stay locked (`changed`) until the commit,
and another transaction on them waits. `pool` follows `Close`: `Pool.Close`
waits for the connections that are in use. `Close` only starts a goroutine for
this and returns, so `main` may end the process earlier, which the model leaves
out; it is called once (a second call would close a closed channel).

**UDPFrontend.** Workers (`CheckClosing`, `Read`), handlers (`Start` to
`WriteError`), post-hooks, and `Close` with the rest of `Shutdown`. `Sockets` are
those that could be opened: `NewFrontend` goes on after a failure, and closes
again only when the last socket fails (`Abandon`). Handlers
share a pool of connection ID generators and one of byte buffers; `alias` and
`content` say which buffer the parameters of a request are a view of, and whose
bytes it holds now.

**ConnectionID.** IDs carry the low bits (`Low` for 2^16) of the second they
were made in, a salt and a MAC, which is ideal: equal exactly for equal inputs.
Nanoseconds are kept: `ttl` is `TTL * Second`. The clock may be set back.

**HTTPFrontend.** `Run` makes storage, hooks and frontends in that order and any
of them may be fatal; the listener comes up in a goroutine. A connection has
one `RequestCtx`, whose arguments (`args`) its next request overwrites. fasthttp
is external: it serves the requests of a connection in turn, times idle
connections out, and its `Shutdown` waits for open connections, or returns at
once when there is no listener yet (`early`).

**Requests.** One request from what was received to what is handed to `Logic`.
Addresses are classes with an IPv4-mapped form; numbers have widths `PortWord`
and `NumWord`; the optional parameters of UDP are bytes, of whose query only
matters whether it has an invalid escape. `IsValid` takes the IPv4-mapped form
of any address that it would refuse otherwise. For multicast this is so for
releases of Go before 1.22.4 only; `AddressesSane` holds either way.

**Hooks.** `NewHooks` builds the configured hooks in turn or fails; `PreHook`
is one hook of `HandleAnnounce` or `HandleScrape`. A token verifies or not
(golang-jwt and the key set are external); its claims are info hashes, or what
is none, and `equal` compares them with those of the request as the code does.
The numbers interval variation derives from a request are any in range. `nil`
is what its builder makes of an invalid configuration; calling it panics.

**TorrentApproval.** dirwatch is external: it scans, compares with its last
scan and reports removals and additions. `Load` is one turn of the container's
goroutine up to the storage, `Store` one key of the Put or Delete;
`ContainsKey` and `ContainsV2` are the two lookups of `Approved`. The Put of the
list container runs before anybody looks, so it is one step, which may fail
with any of its keys put, or before it because a hash is none.

## Runs

Deadlock is not checked by the runs: these systems come to rest when their
inputs are used up, or end with the process. What must not get stuck is a
liveness property (`ShutdownEnds`, `HTTPShutdownEnds`, `CloseReturns`,
`CloseEnds`, `Terminates`, `AddedListed`).

| Run | Question | Bounds |
|---|---|---|
| `memory` | counters, one swarm per hash, collection list, answers, refinement of `SwarmStore` | 2 goroutines, 3 calls, 2 peers of different families, 1 info hash, 3 swarm values, so that a goroutine can hold a dropped one while another is made; one kind of announce, as `AnnounceResultCorrect` proves the rest |
| `memory_gc_once` | is every stale peer collected? **No** | 1 write, 2 time units |
| `frontends`, UDP | own IDs, order of shutdown, answers, end of shutdown | 2 workers, either of which may fail to listen, 2 datagrams of 6 kinds, 2 generators, 1 buffer: one request can reuse what another still refers to |
| `frontends`, IDs | who may use an ID, and when | `Low` = 4 and times up to 9: two wraps, set back by up to 2; 2 IDs, 2 addresses |
| `frontends`, HTTP | order of start and shutdown, parameters, end of shutdown | 2 connections, 2 requests of 5 kinds: two on one connection, or one on each |
| `udp_params` | are a request's parameters its own? **No** | 2 workers, 2 datagrams |
| `connection_id_ttl` | does an ID expire after `ttl`? **No** | `Low` = 5, times up to 11, a clock that is never set back |
| `middleware`, requests | addresses, limits, option parser against a reference; tokens, chains of hooks | all combinations of address class, origin and option; numbers from 0 to past the widths; all packets of up to 3 options, cut anywhere; chains of up to 2 hooks, valid and not |
| `middleware`, logic | what a response holds, what announces leave in the store | 2 requests, 3 peers of 2 clients and 2 families, a long and a short hash, several databases, hooks that give peers or set keys, 1 failure |
| `middleware`, approval | storage follows directory, verdicts | 2 files, 2 torrents, 2 changes, 1 failure or restart, 1 announce at a time; a white list, as `VerdictCorrect` proves both |
| `logic_skip` | does the key of a pre-hook keep a peer out of the store? **No** | as for `middleware`, no failure |
| `redis` | counters, list of keys, scrape, collection, Close | 2 goroutines, 1 instance, 2 calls on a stored peer, 1 failure or death: a put against a collection, and a failure at each command of either |
| `redis_unlisted` | does gc leave a key listed that was written to? **No** | the same without failures |
| `keydb` | answers, expiry | 2 goroutines, 4 calls on 2 peers, 1 failure or death, lifetimes that are no whole seconds |
| `keydb_graduated` | does every peer expire? **No** | the same without failures, 2 calls |
| `pg` | graduations, answers, collection, Close | 2 goroutines, 3 calls on 2 peers of one address (so that a query touches both rows), 1 failure or death |

What they show:

* `CountersExact`: the in-memory counters equal the number of peers that can be
  found, plus the goroutines between counting and storing, *unless* one of the
  two check-then-act windows (`PutSeeder` looks and stores in two lock
  sections; gc looks at the sizes and deletes in two) was hit in that shard.
  Nothing else makes them drift, and unsigned wrap-around never happens before
  that. `OneSwarm`, `GCSnapshotLive`, `AnnounceResult`: see the module.
* `ImplementsSwarmStore`: through shards, lock sections, swarm values and the
  collector, the store is one table; see `SwarmStore` above.
* `AcceptedBound`: an ID is good only for its address, and its life is bounded,
  not by `ttl` (see `WithinTTL` below) but because its MAC no longer matches
  after 2^16 seconds, either way. `FreshAcceptedInWindow`: a
  fresh ID is accepted while the clock's high bits are the same.
* `OwnConnID`, `HandlersOutlived`, `HandledWhileOpen`, `OwnParams`: pooled
  memory and the order of shutdown are right for handlers. Post-hooks are not
  waited for; `AnswerApplied` (UDP) and `ResponseApplied` (HTTP) say they run
  unless the process ends first, which it also does when one of them meets the
  closed in-memory store.
* `ResponseSound`, `ResponseFull`, `SequentialMembership`: `appendPeers` over
  four fetches, and the writes of announces that do not overlap, taking the
  context as the code hands it on (see `SwarmSkipped` below).
* `CountersCover`: the Redis counters may be too high (a repeated announce is
  counted again, a graduated leecher is not taken off, a DECR may be lost) but
  never below the peers stored, with several collectors and
  with failures anywhere. `PeersListed`: a key that has peers is on the
  collectors' list but for the window `slipped` (see `StaysListed` below), which
  no failure or second collector widens. `ScrapeCounts`: a scrape
  misses no peer that stays. `StaleCollected`: a stale peer of a
  listed key is collected, again and again; `CloseReturns`.
* KeyDB: `AnnounceAnswer`, and `PeersExpire`: members go without a collector,
  except those `leaked`, graduated ones among them (see `EveryPeerExpires`
  below): puts, moves and deletions that race leave no other behind.
* PostgreSQL: `GraduationsCounted` (the batch is one transaction, and a scrape
  reads peers before downloads), `AnnounceAnswer`, `StaleCollected`,
  `CloseEnds`, though the collector may wait for a row lock.
* `AddressesSane`, `AddressesOwn`, `LimitsKept`, `OptionsExact`: what the
  parsers let through. `TokenHolds`, `ChainDecides`, `Terminates`: what the
  hooks let through, in any order.
* `DirectoryListed`, `VerdictSound`, `AddedListed`: approval.

The type invariants of the four stores, torrent approval, both frontends and
the connection IDs are proved; those of `Requests`, `Hooks` and `Logic` document
the variables and hold on the instances above, but are not checked again by the
runs.

Six statements of the repository are refuted by a run; each property says what
the repository says, and its counterexample is a handful of ordinary steps:

* `memory_gc_once`, `StaleCollected`: the in-memory collector is said to run at an
  interval (`dist/example_config.yaml:159`) and runs once, as its timer is never
  reset (`storage/memory/storage.go:216`).
* `udp_params`, `ParamsIntact`: UDP parameters are views of a buffer that is
  already back in its pool (`frontend/udp/parser.go:123`).
* `connection_id_ttl`, `WithinTTL`: `ttl` and the skew are nanoseconds and are
  added to seconds (`frontend/udp/connection_id.go:146-147`), so an ID that should
  live two minutes (lines 17 and 145) lives until its 16 bits of time wrap.
* `logic_skip`, `SwarmSkipped`: "any non-nil value" for `SkipSwarmInteractionKey`
  should keep the swarm from being touched (`middleware/hooks.go:33-36`), and
  pre-hooks can set values for post-hooks (`docs/frontend.md:100-102`); but
  `RemapRouteParamsToBgContext` (`bittorrent/params.go:65-72`) hands on a new
  context without them.
* `redis_unlisted`, `StaysListed`: HLEN and SREM are not in the transaction of
  WATCH (`storage/redis/storage.go:779-788`), so nothing fails when a peer is put
  between them, as the comment at lines 693-698 expects.
* `keydb_graduated`, `EveryPeerExpires`: the test of the error in
  `GraduateLeecher` is inverted (`storage/keydb/storage.go:145`), so a peer that
  graduates gets no expiry (nor is its download counted), in a store that "does
  not need garbage collection" (lines 2-4, `docs/storage/keydb.md:11-12`).

The properties of the passing runs next to them (`AcceptedBound`,
`SequentialMembership`, `PeersListed`, `PeersExpire`) say what the code does
guarantee.

**Fairness.** Weak fairness of goroutine steps is what the Go scheduler gives.
Timers that are armed fire, deadlines and idle timeouts (which `Validate` makes
positive) pass, the clock goes on, KeyDB expires what is due, and dirwatch, which
is external, keeps scanning. A `select`
with several ready cases picks one at random, so the exit of the Redis and
PostgreSQL collectors has strong fairness. Requests, signals, Close, failures
and changes of the directory have none.

**Mutants.** Every property has an operator, marked *Mutant*, beside a
definition of the code it speaks about; with that operator in its place TLC
finds the property violated under the same configuration.

## Proofs

All for every value of the constants, under the named assumptions beside the
declarations: finite sets where cardinalities occur, distinct model values,
types of the inputs, and `WordAssumption` (a counter of the memory store can
count all peers and goroutines). Each inductive invariant below was first
checked by TLC on the instance of its component's run.

* `MemoryStoreInvariants` (`TypeCorrect`, and who refers to which swarm), then
  `MemoryStoreProofs`:
  * `Inductive`, `CountersCorrect`, `OneSwarmCorrect`, `GCSnapshotCorrect`.
    `CountersExact` is not inductive: a goroutine may hold a swarm that is no
    longer in the map, and whether storing a peer there changes what can be
    found depends on it. `IInv` adds who holds a swarm (`Holders`), that a swarm
    value belongs to one shard and one hash (`Owned`), that the collector's own
    swarm is in the map (`Collector`), and that a swarm dropped under a
    goroutine is empty or its counters are in `raced` (`Orphans`). Each action
    changes the set of findable peers and the counter by the same single
    element.
  * `Refinement`, that `Spec` implies `ImplementsSwarmStore`. `RInv` has no
    counters; it adds that only writes reach the sections that write
    (`Writers`), that swarms and peers are in the shard of their hash and family
    (`Placed`, `Family`: without it a drop in one shard could take peers of the
    other family out of the table) and where the cutoff comes from (`Cutoff`).
    Each action is shown to be one step of `SwarmStore` or none.
  * `AnnounceResultCorrect`. `AInv` adds to `RInv` that a swarm that a goroutine
    still holds has peers of its family only, dropped or not (`HeldFamily`), and
    what is left of `numWant` between the two scans (`Announcing`).
* `RedisStoreProofs`:
  * `TypeCorrect`, `KeysListed`, `CountersCovered`. `CountersCover` bounds a
    counter by the peers stored *and* the deletions yet to be counted, by
    callers or collectors. `IInv` adds that what a collector has yet to count is
    of the key it is at (`Uncounted`), and that a key that is about to be
    unlisted was empty or is in `slipped` (`Overtaken`).
  * `ScrapesCount`. `ScrapeInv` says that the replies so far count the steady
    peers except those under a key that the scrape has yet to ask (`Scraping`).
    It is preserved because leechers are counted before seeders, and a peer that
    stays moves only that way.
* `PgStoreProofs`: `TypeCorrect`; `GraduationsCorrect`, from how far a scrape has
  got and what it saw (`Scraping`); `AnnounceAnswerCorrect`, from what the first
  query leaves to the second (`Asking`). Both need where a transaction is and
  which rows it has locked (`Stages`).
* `KeyDBStoreProofs`: `TypeCorrect`; `AnnounceAnswerCorrect`, from what is left to
  ask (`Asking`) and that who stayed is there (`Staying`), while the server
  expires members between the two commands; `ExpiryDueCorrect`, the safety side
  of `PeersExpire`: a member that is never to expire is `leaked`, or its
  EXPIREMEMBER is on its way. `PeersExpire` itself needs fairness.
* `TorrentApprovalProofs`: `TypeCorrect`; `DirectoryCorrect`, from an invariant
  on the reports and storage operations still under way (`Following`): a
  torrent the watcher knows is listed, or about to be, or excused;
  `VerdictCorrect`, from how far each announce has got (`Verdict`).
* `UDPFrontendProofs`, on the frontend: `Inductive`, `OwnConnIDCorrect`,
  `HandlersOutlivedCorrect`, from: a generator is in the pool or with exactly
  one handler (`Pooled`), what parameters may be views of (`Views`), and what
  has ended at each stage of the shutdown (`Waited`). `AnsweredCorrect` and the
  action property `AnsweredOnceCorrect` also need what has been sent at each
  stage of a handler (`Replied`). On the connection IDs: `IDsCorrect`,
  `AcceptedBoundCorrect`, `FreshAcceptedCorrect`, from the invariant that every
  ID in circulation was made by `Generate` (`Made`) and arithmetic on `%`.
* `HTTPFrontendProofs`: `Inductive`, `TypeCorrect`, `HandledWhileOpenCorrect`,
  `OwnParamsCorrect`, from: a connection is busy with one request, whose
  arguments its context holds (`Exclusive`), and what is open in each phase of
  start and shutdown (`Phases`).

Where sets are counted, the few laws of cardinality that the lemmas use are a
definition (`CountingLaws`, `ScanLaw`, `Finite`) that the lemmas assume; at the
end of the module it is proved from `FiniteSetTheorems`, so no theorem assumes
it.

Only model-checked:

* everything under fairness, because TLAPS has no ENABLED: `StaleCollected`,
  `CloseReturns`, `CloseEnds`, `PeersExpire`, `AddedListed`, `AnswerApplied`,
  `ResponseApplied`, `Terminates`, `ShutdownEnds` and `HTTPShutdownEnds`;
* `AddressesSane`, `AddressesOwn`, `LimitsKept` and `OptionsExact` of `Requests`,
  `TokenHolds` and `ChainDecides` of `Hooks`, and `ResponseSound`,
  `ResponseFull` and `SequentialMembership` of `Logic`. Addresses, hashes,
  options, chains and responses are made by `SelectSeq`, `FoldLeft` and
  `FlattenSeq` as the code makes them by loops over slices. What these compute
  is an induction over data, which TLAPS cannot instantiate, and of `SelectSeq`
  none of its provers knows even that its result is a sequence.

## Observations

Met while translating, in the models as the code has them, without a run of
their own:

* HTTP: `frontend/http/parser.go:18-19` says that "the value of the first HTTP
  Header with that name will be used", while `requestedIPs` adds the addresses
  of all headers of that name, and all of a list separated by commas.
  `candidates` takes them all, and `AddressesOwn` is about all of them.
* PostgreSQL: `graduate_query` of `dist/example_config_pg.yaml` compares
  `peer_id` with itself, so every peer of the same address and port graduates;
  and it adds nobody where there was no leecher, although
  `storage/storage.go:159-160` says that the peer is added as a seeder. A delete of a row that is not there
  returns no error, where the interface says `ErrResourceDoesNotExist`.
* Interval variation: `build` shadows `err` (`varinterval.go:28-41`) and returns
  neither a hook nor an error for an invalid configuration; the first request
  panics.
* Torrent approval: when a file is removed, the container loads it to learn its
  info hash, fails, and leaves the hash approved
  (`container/directory/directory.go:67`), although
  `docs/middleware/torrent_approval.md:26-29` says otherwise.

## Hazards without a property

`build` of the directory container returns an `err` that its goroutine writes
(`directory.go:118`). The model lets it read whatever was written; the outcome
is a start that fails, which no property rules out. Where the code does not
guard against something, properties name the window and hold outside of it:
`raced`, `exposed`, `slipped`, `leaked`, `tangled`.

## Not modelled

* The statistics goroutines of the stores: they read and publish numbers.
* The data storages of Redis and PostgreSQL (`Put`, `Contains`, `Load`,
  `Delete`): one command each on a map, as the in-memory one that
  `TorrentApproval` uses.
* `ScrapeSwarm` of KeyDB and `AnnouncePeers` of Redis: each is the code of the
  other module with one command replaced.
* Configuration: decoding by reflection, defaults, validation. The modules take
  validated values; `KeyDBStore` keeps the conversion of the lifetime.
* The packing of peers into strings, bencoding, UDP layout, query strings,
  texts of events and errors: formats that no property is about.
* Metrics, logging, `str2bytes`, the end to end test command.
