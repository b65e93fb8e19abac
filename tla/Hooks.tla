------------------------------- MODULE Hooks --------------------------------
(***************************************************************************)
(* The configured pre-hooks, run on the request that the parsers of        *)
(* Requests have let through: JSON web tokens (middleware/jwt), client     *)
(* approval (middleware/clientapproval) and interval variation             *)
(* (middleware/varinterval), in the order of the configuration.  Beyond    *)
(* the fields of Requests an input has the configured hooks (chain), the   *)
(* peer ID, the token among its parameters and the two numbers that        *)
(* interval variation derives from info hash and peer ID.  A token either  *)
(* verifies or not; its claims are info hashes, "bad" for what is none.    *)
(***************************************************************************)
EXTENDS Requests

CONSTANTS
    AnnounceInterval, MinAnnounceInterval,  \* of the configuration
    Unit                                    \* the probability 1.0

ASSUME HooksAssumption ==
    AnnounceInterval \in Nat /\ MinAnnounceInterval \in Nat /\ Unit \in Nat \ {0}

VARIABLES
    hooks,      \* Logic.preHooks without the response hook, "nil" for a nil hook
    at,         \* the hook that is next
    verdict,    \* what ended the chain early, or "none"
    resp        \* Interval and MinInterval of the response

hookVars == <<hooks, at, verdict, resp>>

----------------------------------------------------------------------------
(* Builders.                                                               *)

nil == [name |-> "nil"]

\* varinterval.checkConfig
checkConfig(c) == c.probability > 0 /\ c.probability <= Unit /\ c.delta > 0

\* A builder's hook.  That of interval variation has an err of its own in the
\* scope of checkConfig, and returns no hook and no error for a bad one.
Build(c) == IF c.name = "interval variation" /\ ~checkConfig(c) THEN nil ELSE c

\* What a builder refuses: keys that are not set, IDs of another length than 6
\* and, by NewHooks itself, names without a builder.
BuildFails(c) ==
    \/ c.name = "jwt" /\ ~c.set
    \/ c.name = "client approval" /\ "short" \in c.ids
    \/ c.name \notin {"jwt", "client approval", "interval variation"}

NewHooks(chain) == [n \in DOMAIN chain |-> Build(chain[n])]

----------------------------------------------------------------------------
(* The hooks, each by the error it returns.                                *)

\* hook.getJWTString finds a token.  A UDP scrape has no Params; a UDP announce
\* has those of its URL data.
hasToken == req.token.present /\ (req.via = "udp" => req.op = "announce" /\ buf # <<>>)

\* Mutant: only the numbers of info hashes are compared.
equalLength(asked, claimed) == Len(asked) = Len(claimed)

equal(asked, claimed) ==
    Len(asked) = Len(claimed) /\ \A n \in DOMAIN asked : \E m \in DOMAIN claimed : asked[n] = claimed[m]

handles(h) == IF req.op = "announce" THEN h.announce ELSE h.scrape

jwt(h) ==
    LET claimed == IF req.op = "announce" THEN <<req.token.infohash>>
                   ELSE SelectSeq(req.token.infohashes, LAMBDA s : s # "bad")
    IN  CASE ~handles(h) -> "none"
          [] handles(h) /\ ~hasToken -> "missing jwt"
          [] OTHER -> IF req.token.verifies /\ equal(hashes, claimed) THEN "none" ELSE "invalid jwt"

\* The six bytes after a leading '-', or else the first six.
NewClientID(id) == IF id.dash THEN id.second ELSE id.first

clientApproval(h) ==
    IF req.op = "announce" /\ (NewClientID(req.id) \in h.ids) = h.invert
    THEN "client not allowed" ELSE "none"

\* What interval variation adds; the numbers are those of the request.
increase(h) == IF req.p < h.probability THEN (req.v % h.delta) + 1 ELSE 0

varInterval(h, r) ==
    [interval |-> r.interval + increase(h),
     minInterval |-> IF h.min THEN r.minInterval + increase(h) ELSE r.minInterval]

\* A call of a nil hook panics.
Error(h) ==
    CASE h.name = "jwt" -> jwt(h)
      [] h.name = "client approval" -> clientApproval(h)
      [] h.name = "nil" -> "panic"
      [] OTHER -> "none"

Handle(h) ==
    /\ verdict' = Error(h)
    /\ resp' = IF h.name = "interval variation" /\ req.op = "announce" THEN varInterval(h, resp) ELSE resp

----------------------------------------------------------------------------
\* A server whose hooks cannot be built does not start.
HooksInit ==
    /\ ParseInit
    /\ \A n \in DOMAIN req.chain : ~BuildFails(req.chain[n])
    /\ hooks = NewHooks(req.chain)
    /\ at = 1 /\ verdict = "none"
    /\ resp = [interval |-> AnnounceInterval, minInterval |-> MinAnnounceInterval]

Parse == ParseNext /\ UNCHANGED hookVars

\* Mutant: the chain goes on after an error.
PreHookOn ==
    /\ Accepted /\ at <= Len(hooks)
    /\ Handle(hooks[at])
    /\ at' = at + 1
    /\ UNCHANGED <<parseVars, hooks>>

\* One turn of the loop of Logic.HandleAnnounce and Logic.HandleScrape.
PreHook ==
    /\ Accepted /\ verdict = "none" /\ at <= Len(hooks)
    /\ Handle(hooks[at])
    /\ at' = at + 1
    /\ UNCHANGED <<parseVars, hooks>>

HooksNext == Parse \/ PreHook

\* A request is handled in one goroutine.
HooksFairness == WF_<<parseVars, hookVars>>(HooksNext)

HooksSpec == HooksInit /\ [][HooksNext]_<<parseVars, hookVars>> /\ HooksFairness

----------------------------------------------------------------------------
(* Properties.                                                             *)

Ended == stage = "done" /\ (Accepted => verdict # "none" \/ at > Len(hooks))
Through == Accepted /\ verdict = "none" /\ at > Len(hooks)

\* No request gets to the store past a token that is not for it: under a jwt
\* hook for its kind, what goes through has a token that verifies and asks,
\* once parsed and cut to the limit, for no info hash the token does not name,
\* and a UDP scrape, which cannot carry a token, does not go through at all.
TokenHolds ==
    \A n \in DOMAIN req.chain :
        LET c == req.chain[n]
        IN  (Through /\ c.name = "jwt" /\ handles(c))
            => /\ ~(req.via = "udp" /\ req.op = "scrape")
               /\ req.token.present /\ req.token.verifies
               /\ \A k \in DOMAIN hashes :
                     \/ req.op = "announce" /\ hashes[k] = req.token.infohash
                     \/ req.op = "scrape" /\ \E m \in DOMAIN req.token.infohashes :
                                                hashes[k] = req.token.infohashes[m]

\* The chain decides as its hooks would one by one, in whatever order they are
\* configured: a request goes through only if none of them refuses it, one that
\* is refused has the error of the first that does, and no hook is called after
\* it.  The intervals of an announce that goes through are raised by every
\* interval variation, by at most what it may add, the shorter one never by
\* more than the longer and both alike where every one of them says so; those
\* of a scrape are left alone.
Vary == {n \in DOMAIN hooks : hooks[n].name = "interval variation"}
ChainDecides ==
    Ended /\ Accepted =>
        LET refusing == {n \in DOMAIN hooks : Error(hooks[n]) # "none"}
            most == FoldLeft(LAMBDA s, h : IF h.name = "interval variation" THEN s + h.delta ELSE s, 0, hooks)
            longer == resp.interval - AnnounceInterval
            shorter == resp.minInterval - MinAnnounceInterval
        IN  /\ verdict = "none" => refusing = {}
            /\ verdict # "none" => /\ at - 1 \in refusing /\ verdict = Error(hooks[at - 1])
                                   /\ \A n \in refusing : at - 1 <= n
            /\ shorter >= 0 /\ shorter <= longer /\ longer <= most
            /\ (\A n \in Vary : hooks[n].min) => shorter = longer
            /\ Through /\ req.op = "announce" /\ (\A n \in Vary : req.p < hooks[n].probability)
                  => longer >= FoldLeft(LAMBDA s, h : IF h.name = "interval variation" THEN s + 1 ELSE s, 0, hooks)
            /\ req.op = "scrape" => longer = 0

\* Whatever came in, the parser comes to an end and so does the chain of hooks.
Terminates == <>Ended
====
