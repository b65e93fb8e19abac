---------------------------- MODULE UDPFrontend ----------------------------
(***************************************************************************)
(* The UDP frontend (frontend/udp/frontend.go) from its first datagram to  *)
(* the end of the process (Shutdown in cmd/mochi/server.go).  A worker     *)
(* reads a socket and starts a goroutine for every datagram; a handler     *)
(* that has answered an announce or a scrape starts another one for the    *)
(* post-hooks, which nothing waits for.  Handlers share two pools:         *)
(* connection ID generators, and the byte buffers in which URL data is     *)
(* parsed and responses are built.  Strings that parseQuery makes are      *)
(* views of such a buffer, which is back in the pool when it returns.      *)
(***************************************************************************)
EXTENDS Naturals

CONSTANTS
    Worker,     \* sockets, and the goroutines that read them
    Req,        \* bound: datagrams, and the goroutines that handle them
    Gen,        \* connection ID generators
    Buffer,     \* buffers of reqRespBufferPool
    None,
    Packet      \* the kinds of datagrams that arrive

PacketKind == {"short", "connect", "badMagic", "badID", "announce", "badAnnounce",
               "scrape", "badScrape", "unknown"}

ASSUME UDPAssumption ==
    /\ Packet \subseteq PacketKind
    /\ None \notin Req \cup Gen \cup Buffer

VARIABLES
    main,        \* where Shutdown is
    closing,     \* the channel is closed
    cancelled,   \* the context is cancelled
    deadline,    \* sockets whose deadline has passed
    socketsOpen, storeOpen,
    down,        \* how the process ended
    wpc,         \* the workers
    hpc, pkt, gen,    \* the handlers
    alias,       \* the pooled object a handler's data is a view of
    seen,        \* the parameters the hooks of a handler have read
    sent,        \* the answer of a handler
    connID,      \* the ID a generator holds: for which request it was made
    content,     \* what a buffer holds: URL data of a request, or a response
    post         \* the goroutines of the post-hooks

mainVars == <<main, closing, cancelled, deadline, socketsOpen, storeOpen>>
reqVars == <<hpc, pkt, gen, alias, seen, sent>>
vars == <<mainVars, down, wpc, reqVars, connID, content, post>>

Response == "response"
Reply == {<<"nothing">>, <<"error">>, <<"response">>} \cup {<<"connID", r>> : r \in Req}
Active(r) == hpc[r] \notin {"none", "done"}

\* The workers whose ListenUDP has succeeded: serve runs for these alone.
Sockets == {w \in Worker : wpc[w] # "none"}

\* NewFrontend: the error of a ListenUDP is lost when a later one succeeds.
Started ==
    /\ main = "run" /\ closing = FALSE /\ cancelled = FALSE /\ deadline = {}
    /\ socketsOpen = TRUE /\ storeOpen = TRUE
    /\ wpc \in [Worker -> {"none", "check"}] /\ Sockets # {}
    /\ hpc = [r \in Req |-> "none"]
    /\ pkt \in [Req -> Packet]
    /\ gen = [r \in Req |-> None]
    /\ alias = [r \in Req |-> None]
    /\ seen = [r \in Req |-> None]
    /\ sent = [r \in Req |-> <<"nothing">>]
    /\ connID = [g \in Gen |-> None]
    /\ content = [b \in Buffer |-> None]
    /\ post = [r \in Req |-> "none"]

Init == Started /\ down = "no"

----------------------------------------------------------------------------
(* serve                                                                   *)

\* Mutant: only a read error ends the loop.
CheckNever(w) ==
    /\ wpc[w] = "check"
    /\ wpc' = [wpc EXCEPT ![w] = "read"]
    /\ UNCHANGED <<mainVars, down, reqVars, connID, content, post>>

CheckClosing(w) ==
    /\ wpc[w] = "check"
    /\ wpc' = [wpc EXCEPT ![w] = IF closing THEN "exited" ELSE "read"]
    /\ UNCHANGED <<mainVars, down, reqVars, connID, content, post>>

Read(w, r) ==
    /\ wpc[w] = "read" /\ w \notin deadline /\ hpc[r] = "none"
    /\ hpc' = [hpc EXCEPT ![r] = "start"]
    /\ wpc' = [wpc EXCEPT ![w] = "check"]
    /\ UNCHANGED <<mainVars, down, pkt, gen, alias, seen, sent, connID, content, post>>

\* An empty datagram, or a timeout.
ReadNothing(w) ==
    /\ wpc[w] = "read"
    /\ wpc' = [wpc EXCEPT ![w] = "check"]
    /\ UNCHANGED <<mainVars, down, reqVars, connID, content, post>>

\* Any other error is fatal to the process.
ReadFails(w) ==
    /\ wpc[w] = "read" /\ w \notin deadline
    /\ down' = "fatal"
    /\ UNCHANGED <<mainVars, wpc, reqVars, connID, content, post>>

----------------------------------------------------------------------------
(* handleRequest                                                           *)

\* Returning puts the generator back.
Return(r) ==
    /\ hpc' = [hpc EXCEPT ![r] = "done"]
    /\ gen' = [gen EXCEPT ![r] = None]

\* A buffer of the pool gets new contents.
Fill(x) == \E b \in Buffer : content' = [content EXCEPT ![b] = x]

Answer(r, a) == sent' = [sent EXCEPT ![r] = a] /\ Fill(Response)

\* The length, a generator from the pool, the connection ID, the action.
Start(r) ==
    /\ hpc[r] = "start"
    /\ IF pkt[r] = "short"
       THEN Return(r)
       ELSE \E g \in Gen :
               /\ \A q \in Req : gen[q] # g
               /\ gen' = [gen EXCEPT ![r] = g]
               /\ hpc' = [hpc EXCEPT ![r] =
                     CASE pkt[r] \in {"connect", "badMagic"} -> "connect"
                       [] pkt[r] \in {"badID", "unknown"} -> "error"
                       [] OTHER -> "parse"]
    /\ UNCHANGED <<mainVars, down, wpc, pkt, alias, seen, sent, connID, content, post>>

\* Mutant: the generator is back in the pool before its ID is written out.
MakeIDAndPut(r) ==
    /\ hpc[r] = "connect"
    /\ IF pkt[r] = "badMagic"
       THEN Return(r) /\ UNCHANGED <<alias, connID>>
       ELSE /\ connID' = [connID EXCEPT ![gen[r]] = r]
            /\ alias' = [alias EXCEPT ![r] = gen[r]]
            /\ gen' = [gen EXCEPT ![r] = None]
            /\ hpc' = [hpc EXCEPT ![r] = "writeID"]
    /\ UNCHANGED <<mainVars, down, wpc, pkt, seen, sent, content, post>>

MakeID(r) ==
    /\ hpc[r] = "connect"
    /\ IF pkt[r] = "badMagic"
       THEN Return(r) /\ UNCHANGED <<alias, connID>>
       ELSE /\ connID' = [connID EXCEPT ![gen[r]] = r]
            /\ alias' = [alias EXCEPT ![r] = gen[r]]
            /\ hpc' = [hpc EXCEPT ![r] = "writeID"]
            /\ UNCHANGED gen
    /\ UNCHANGED <<mainVars, down, wpc, pkt, seen, sent, content, post>>

\* The response is built from the generator's own slice.
WriteID(r) ==
    /\ hpc[r] = "writeID"
    /\ Answer(r, <<"connID", connID[alias[r]]>>)
    /\ Return(r)
    /\ UNCHANGED <<mainVars, down, wpc, pkt, alias, seen, connID, post>>

\* parseAnnounce, parseScrape.  Only an announce may have URL data, whose
\* buffer goes back before the hooks run; values without escapes are views of it.
Parse(r) ==
    /\ hpc[r] = "parse"
    /\ hpc' = [hpc EXCEPT ![r] = IF pkt[r] \in {"badAnnounce", "badScrape"}
                                 THEN "error" ELSE "pre"]
    /\ \/ /\ pkt[r] \in {"announce", "badAnnounce"}
          /\ \E b \in Buffer : /\ content' = [content EXCEPT ![b] = r]
                               /\ alias' = [alias EXCEPT ![r] = b]
       \/ UNCHANGED <<content, alias>>
    /\ UNCHANGED <<mainVars, down, wpc, pkt, gen, seen, sent, connID, post>>

\* HandleAnnounce, HandleScrape: hooks read the parameters, then the store,
\* and may fail; a hook that sees the cancelled context fails without answer.
PreHooks(r) ==
    /\ hpc[r] = "pre"
    /\ seen' = [seen EXCEPT ![r] = IF alias[r] = None THEN r ELSE content[alias[r]]]
    /\ IF storeOpen
       THEN /\ \/ hpc' = [hpc EXCEPT ![r] = "respond"] /\ UNCHANGED gen
               \/ hpc' = [hpc EXCEPT ![r] = "error"] /\ UNCHANGED gen
               \/ cancelled /\ Return(r)
            /\ UNCHANGED down
       ELSE down' = "panic" /\ UNCHANGED <<hpc, gen>>
    /\ UNCHANGED <<mainVars, wpc, pkt, alias, sent, connID, content, post>>

\* Mutant: no goroutine for the post-hooks.
RespondOnly(r) ==
    /\ hpc[r] = "respond"
    /\ Return(r)
    /\ IF cancelled THEN UNCHANGED <<sent, content>> ELSE Answer(r, <<"response">>)
    /\ UNCHANGED <<mainVars, down, wpc, pkt, alias, seen, connID, post>>

Respond(r) ==
    /\ hpc[r] = "respond"
    /\ Return(r)
    /\ IF cancelled
       THEN UNCHANGED <<sent, content, post>>
       ELSE Answer(r, <<"response">>) /\ post' = [post EXCEPT ![r] = "started"]
    /\ UNCHANGED <<mainVars, down, wpc, pkt, alias, seen, connID>>

\* Mutant: errors are dropped.
DropError(r) ==
    /\ hpc[r] = "error"
    /\ Return(r)
    /\ UNCHANGED <<mainVars, down, wpc, pkt, alias, seen, sent, connID, content, post>>

WriteError(r) ==
    /\ hpc[r] = "error"
    /\ Answer(r, <<"error">>)
    /\ Return(r)
    /\ UNCHANGED <<mainVars, down, wpc, pkt, alias, seen, connID, post>>

\* AfterAnnounce writes to the store, AfterScrape does not.
PostHooks(r) ==
    /\ post[r] = "started"
    /\ IF pkt[r] = "scrape" \/ storeOpen
       THEN post' = [post EXCEPT ![r] = "done"] /\ UNCHANGED down
       ELSE down' = "panic" /\ UNCHANGED post
    /\ UNCHANGED <<mainVars, wpc, reqVars, connID, content>>

----------------------------------------------------------------------------
(* Shutdown: Close of the frontend, of the hooks and of the store.         *)

CloseChannel ==
    /\ main = "run"
    /\ main' = "cancel"
    /\ closing' = TRUE
    /\ UNCHANGED <<cancelled, deadline, socketsOpen, storeOpen, down, wpc, reqVars,
                   connID, content, post>>

Cancel ==
    /\ main = "cancel"
    /\ main' = "deadline"
    /\ cancelled' = TRUE
    /\ UNCHANGED <<closing, deadline, socketsOpen, storeOpen, down, wpc, reqVars, connID,
                   content, post>>

SetDeadline ==
    /\ main = "deadline"
    /\ IF deadline = Sockets
       THEN main' = "wait" /\ UNCHANGED deadline
       ELSE \E w \in Sockets \ deadline : deadline' = deadline \cup {w} /\ UNCHANGED main
    /\ UNCHANGED <<closing, cancelled, socketsOpen, storeOpen, down, wpc, reqVars, connID,
                   content, post>>

\* Mutant: handlers are not counted.
WaitForWorkers ==
    /\ main = "wait"
    /\ \A w \in Sockets : wpc[w] = "exited"
    /\ main' = "sockets"
    /\ UNCHANGED <<closing, cancelled, deadline, socketsOpen, storeOpen, down, wpc,
                   reqVars, connID, content, post>>

\* f.wg counts workers and handlers.
Wait ==
    /\ main = "wait"
    /\ \A w \in Sockets : wpc[w] = "exited"
    /\ \A r \in Req : ~Active(r)
    /\ main' = "sockets"
    /\ UNCHANGED <<closing, cancelled, deadline, socketsOpen, storeOpen, down, wpc,
                   reqVars, connID, content, post>>

CloseSockets ==
    /\ main = "sockets"
    /\ main' = "hooks"
    /\ socketsOpen' = FALSE
    /\ UNCHANGED <<closing, cancelled, deadline, storeOpen, down, wpc, reqVars, connID,
                   content, post>>

\* It was NewFrontend that closed, because the last ListenUDP had failed: its
\* error is main's log.Fatal.
Abandon ==
    /\ main = "hooks" /\ Sockets # Worker
    /\ down' = "fatal"
    /\ UNCHANGED <<mainVars, wpc, reqVars, connID, content, post>>

CloseHooks ==
    /\ main = "hooks"
    /\ main' = "store"
    /\ UNCHANGED <<closing, cancelled, deadline, socketsOpen, storeOpen, down, wpc,
                   reqVars, connID, content, post>>

CloseStore ==
    /\ main = "store"
    /\ main' = "exit"
    /\ storeOpen' = FALSE
    /\ UNCHANGED <<closing, cancelled, deadline, socketsOpen, down, wpc, reqVars, connID,
                   content, post>>

\* The process ends with the main goroutine.
Exit ==
    /\ main = "exit"
    /\ down' = "exit"
    /\ UNCHANGED <<mainVars, wpc, reqVars, connID, content, post>>

----------------------------------------------------------------------------
WorkerStep(w) ==
    \/ CheckClosing(w) \/ ReadNothing(w)
    \/ \E r \in Req : Read(w, r)

HandlerStep(r) ==
    \/ Start(r) \/ MakeID(r) \/ WriteID(r) \/ Parse(r) \/ PreHooks(r) \/ Respond(r)
    \/ WriteError(r)

MainStep ==
    \/ Cancel \/ SetDeadline \/ Wait \/ CloseSockets \/ Abandon \/ CloseHooks \/ CloseStore
    \/ Exit

Next ==
    /\ down = "no"
    /\ \/ \E w \in Worker : WorkerStep(w) \/ ReadFails(w)
       \/ \E r \in Req : HandlerStep(r) \/ PostHooks(r)
       \/ CloseChannel \/ MainStep

Spec == Init /\ [][Next]_vars

\* The Go scheduler runs every goroutine; a read ends when its deadline has
\* passed; when a signal or a datagram arrives is up to the environment.
Fairness ==
    /\ \A w \in Worker :
          WF_vars(down = "no" /\ (CheckClosing(w) \/ (w \in deadline /\ ReadNothing(w))))
    /\ \A r \in Req : /\ WF_vars(down = "no" /\ HandlerStep(r))
                      /\ WF_vars(down = "no" /\ PostHooks(r))
    /\ WF_vars(down = "no" /\ MainStep)

FairSpec == Spec /\ Fairness

----------------------------------------------------------------------------
(* Properties.                                                             *)

\* The variables have their types: a pooled buffer holds URL data or a
\* response, a pooled generator an ID made for a request.
TypeOK ==
    /\ main \in {"run", "cancel", "deadline", "wait", "sockets", "hooks", "store", "exit"}
    /\ closing \in BOOLEAN /\ cancelled \in BOOLEAN /\ deadline \subseteq Worker
    /\ socketsOpen \in BOOLEAN /\ storeOpen \in BOOLEAN
    /\ down \in {"no", "panic", "fatal", "exit"}
    /\ wpc \in [Worker -> {"none", "check", "read", "exited"}]
    /\ hpc \in [Req -> {"none", "start", "connect", "writeID", "parse", "pre", "respond",
                        "error", "done"}]
    /\ pkt \in [Req -> Packet]
    /\ gen \in [Req -> Gen \cup {None}]
    /\ alias \in [Req -> Buffer \cup Gen \cup {None}]
    /\ seen \in [Req -> Req \cup {None, Response}]
    /\ sent \in [Req -> Reply]
    /\ connID \in [Gen -> Req \cup {None}]
    /\ content \in [Buffer -> Req \cup {None, Response}]
    /\ post \in [Req -> {"none", "started", "done"}]

\* A client is sent the connection ID made for its own request, although the
\* slice it is copied from belongs to a pooled generator.
OwnConnID ==
    \A r \in Req : sent[r][1] = "connID" => sent[r] = <<"connID", r>>

\* Close returns only when every handler has returned: none of them writes to
\* a closed socket, and no pre-hook meets a closed store or a closed hook.
HandlersOutlived ==
    (~socketsOpen \/ ~storeOpen \/ main \in {"hooks", "store", "exit"}) =>
        /\ \A w \in Sockets : wpc[w] = "exited"
        /\ \A r \in Req : ~Active(r)

\* Every request with a valid header that is handled before the shutdown is
\* answered, and the store hears of an announce only if it was.
Answered ==
    \A r \in Req :
        /\ (hpc[r] = "done" /\ ~cancelled /\ pkt[r] \notin {"short", "badMagic"}) =>
              sent[r] # <<"nothing">>
        /\ post[r] # "none" => sent[r] = <<"response">>

\* A request is answered at most once: an answer is never replaced.
AnsweredOnce ==
    [][\A r \in Req : sent[r] # <<"nothing">> => sent'[r] = sent[r]]_vars

\* Shutdown comes to an end, however many datagrams keep arriving.
ShutdownEnds == closing ~> (down # "no")

\* The store hears of every announce that was answered.
AnswerApplied ==
    \A r \in Req : sent[r] = <<"response">> ~> (post[r] = "done" \/ down # "no")

----------------------------------------------------------------------------
(* What the repository says and the code does not do.                      *)

\* The parameters a hook reads are those parsed from the request's URL data.
ParamsIntact ==
    \A r \in Req : (pkt[r] = "announce" /\ hpc[r] \in {"respond", "error"}) => seen[r] = r
====
