---------------------------- MODULE MCMiddleware ----------------------------
(***************************************************************************)
(* The parts behind the frontends: parsing with the configured pre-hooks,  *)
(* the tracker logic and torrent approval.  They share no state, so a      *)
(* behaviour runs one of them; in the other two nothing happens: a request *)
(* was refused, no request has come, a hook could not be built.            *)
(***************************************************************************)
EXTENDS MCRequests, MCLogic, MCTorrentApproval

VARIABLE part   \* the part that runs

requestVars == <<parseVars, hookVars>>
middlewareVars == <<requestVars, logicVars, vars, part>>

RequestRefused ==
    /\ req = [Some EXCEPT !.ok = FALSE] /\ stage = "done" /\ refusal = "malformed"
    /\ i = 0 /\ buf = <<>> /\ aa = <<>> /\ port = 0 /\ numWant = 0 /\ hashes = <<>>
    /\ hooks = <<>> /\ at = 1 /\ verdict = "none"
    /\ resp = [interval |-> AnnounceInterval, minInterval |-> MinAnnounceInterval]

LogicIdle ==
    /\ db = Empty /\ asks = [r \in Req |-> CHOOSE q \in Request : q.kind = "scrape"]
    /\ LogicInit

ApprovalFailed ==
    /\ conf = [source |-> "list", preserve |-> FALSE, ctx |-> FALSE]
    /\ dir = CHOOSE d \in StartDirs : TRUE
    /\ NotBuilt /\ main = "failed"

MiddlewareInit ==
    \/ part = "requests" /\ HooksInit /\ LogicIdle /\ ApprovalFailed
    \/ part = "logic" /\ RequestRefused /\ LogicInit /\ ApprovalFailed
    \/ part = "approval" /\ RequestRefused /\ LogicIdle /\ Init

MiddlewareNext ==
    \/ part = "requests" /\ HooksNext /\ UNCHANGED <<logicVars, vars, part>>
    \/ part = "logic" /\ LogicNext /\ UNCHANGED <<requestVars, vars, part>>
    \/ part = "approval" /\ Next /\ UNCHANGED <<requestVars, logicVars, part>>

MiddlewareSpec ==
    MiddlewareInit /\ [][MiddlewareNext]_middlewareVars /\ HooksFairness /\ Fairness
====
