---------------------------- MODULE HTTPFrontend ----------------------------
(***************************************************************************)
(* The HTTP frontend (frontend/http) in a server that starts and stops     *)
(* (cmd/mochi/server.go).  Run makes the storage, the hooks and the        *)
(* frontends one after the other; the listener comes up in a goroutine of  *)
(* its own.  A connection serves one request after the other with one      *)
(* RequestCtx, whose query arguments the next request overwrites; the      *)
(* post-hooks of an answered request run in a goroutine nobody waits for.  *)
(* fasthttp is external: Serve, Shutdown, keep-alive and timeouts are      *)
(* modelled as far as the frontend relies on them.                         *)
(***************************************************************************)
EXTENDS Naturals

CONSTANTS
    Conn,       \* connections, each with a RequestCtx
    HTTPReq,    \* bound: requests
    Nil,
    Path        \* the kinds of requests that arrive

PathKind == {"announce", "badAnnounce", "scrape", "badScrape", "ping", "unknown"}

ASSUME HTTPAssumption == Path \subseteq PathKind /\ Nil \notin Conn \cup HTTPReq

VARIABLES
    run,                \* where main, Run and Shutdown are
    storage, hooks,     \* "none", "open" or "closed"
    listener,           \* runServer
    done,               \* Shutdown has cancelled every RequestCtx
    early,              \* history: Close came before Serve
    ended,              \* how the process ended
    conn,               \* "closed", "idle" or "busy"
    args,               \* the request whose query arguments a RequestCtx holds
    handler, path, ctx, \* the requests: handler, kind, connection
    params,             \* the RequestCtx that Params of a request refers to
    read,               \* the requests whose parameters its hooks have read
    answer,             \* its answer
    after               \* the goroutine of its post-hooks

serverVars == <<run, storage, hooks, listener, done, early>>
requestVars == <<handler, path, ctx, params, read, answer, after>>
httpVars == <<serverVars, ended, conn, args, requestVars>>

NotStarted ==
    /\ run = "storage" /\ storage = "none" /\ hooks = "none"
    /\ listener = "none" /\ done = FALSE /\ early = FALSE
    /\ conn = [x \in Conn |-> "closed"]
    /\ args = [x \in Conn |-> Nil]
    /\ handler = [r \in HTTPReq |-> "none"]
    /\ path \in [HTTPReq -> Path]
    /\ ctx = [r \in HTTPReq |-> Nil]
    /\ params = [r \in HTTPReq |-> Nil]
    /\ read = [r \in HTTPReq |-> {}]
    /\ answer = [r \in HTTPReq |-> "nothing"]
    /\ after = [r \in HTTPReq |-> "none"]

HTTPInit == NotStarted /\ ended = "no"

----------------------------------------------------------------------------
(* Run.  An error anywhere is main's log.Fatal, without a Shutdown.        *)

Fatal == ended' = "fatal" /\ UNCHANGED <<serverVars, conn, args, requestVars>>

NewStorage ==
    /\ run = "storage"
    /\ \/ Fatal
       \/ /\ run' = "hooks"
          /\ storage' = "open"
          /\ UNCHANGED <<hooks, listener, done, early, ended, conn, args, requestVars>>

\* The pre-hooks and the post-hooks.
NewHooks ==
    /\ run = "hooks"
    /\ \/ Fatal
       \/ /\ run' = "frontends"
          /\ hooks' = "open"
          /\ UNCHANGED <<storage, listener, done, early, ended, conn, args, requestVars>>

\* NewFrontend of this frontend: runServer is on its way when it returns.
NewFrontend ==
    /\ run = "frontends"
    /\ \/ Fatal
       \/ /\ run' = "others"
          /\ listener' = "listen"
          /\ UNCHANGED <<storage, hooks, done, early, ended, conn, args, requestVars>>

\* The frontends after this one; then main waits for a signal.
NewFrontends ==
    /\ run = "others"
    /\ \/ Fatal
       \/ /\ run' = "signal"
          /\ UNCHANGED <<storage, hooks, listener, done, early, ended, conn, args, requestVars>>

runServer ==
    /\ listener = "listen"
    /\ \/ Fatal
       \/ /\ listener' = "serve"
          /\ UNCHANGED <<run, storage, hooks, done, early, ended, conn, args, requestVars>>

----------------------------------------------------------------------------
(* Connections, which fasthttp serves.                                     *)

Accept(x) ==
    /\ listener = "serve" /\ conn[x] = "closed"
    /\ conn' = [conn EXCEPT ![x] = "idle"]
    /\ UNCHANGED <<serverVars, ended, args, requestVars>>

\* The next request of a connection, with the RequestCtx of the last one.
NextRequest(r, x) ==
    /\ conn[x] = "idle" /\ handler[r] = "none"
    /\ conn' = [conn EXCEPT ![x] = "busy"]
    /\ args' = [args EXCEPT ![x] = r]
    /\ ctx' = [ctx EXCEPT ![r] = x]
    /\ handler' = [handler EXCEPT ![r] = "route"]
    /\ UNCHANGED <<serverVars, ended, path, params, read, answer, after>>

\* Mutant: no timeout for idle connections once the shutdown waits for them.
HangUpBefore(x) ==
    /\ conn[x] = "idle" /\ ~done
    /\ conn' = [conn EXCEPT ![x] = "closed"]
    /\ UNCHANGED <<serverVars, ended, args, requestVars>>

\* ReadTimeout, IdleTimeout, which Validate makes positive, or the client.
HangUp(x) ==
    /\ conn[x] = "idle"
    /\ conn' = [conn EXCEPT ![x] = "closed"]
    /\ UNCHANGED <<serverVars, ended, args, requestVars>>

\* A handler returns, with an answer a to write: the connection is kept unless
\* the server stops or one side does not want to.
Returns(r, a) ==
    /\ handler' = [handler EXCEPT ![r] = "done"]
    /\ answer' = [answer EXCEPT ![r] = a]
    /\ \E c \in IF done THEN {"closed"} ELSE {"idle", "closed"} :
          conn' = [conn EXCEPT ![ctx[r]] = c]

----------------------------------------------------------------------------
(* The handlers.                                                           *)

\* Routing and parsing.  Params stays a view of the query arguments.
Route(r) ==
    /\ handler[r] = "route"
    /\ IF path[r] \in {"announce", "scrape", "ping"}
       THEN /\ handler' = [handler EXCEPT ![r] = IF path[r] = "ping" THEN "ping" ELSE "pre"]
            /\ params' = [params EXCEPT ![r] = IF path[r] = "ping" THEN Nil ELSE ctx[r]]
            /\ UNCHANGED <<conn, answer>>
       ELSE /\ Returns(r, IF path[r] = "unknown" THEN "notFound" ELSE "error")
            /\ UNCHANGED params
    /\ UNCHANGED <<serverVars, ended, args, path, ctx, read, after>>

\* Ping of the hooks and the storage; a cancelled context leaves no status.
ping(r) ==
    /\ handler[r] = "ping"
    /\ \/ Returns(r, IF done THEN "nothing" ELSE "response")
       \/ ~done /\ Returns(r, "error")
    /\ UNCHANGED <<serverVars, ended, args, path, ctx, params, read, after>>

\* A call of the in-memory storage, which panics once it is closed.
Panic(r) == storage = "closed" /\ ended' = "panic" /\ UNCHANGED <<conn, requestVars>>

\* The parameters the hooks of r read now.
Params(r) == IF params[r] = Nil THEN {} ELSE {args[params[r]]}

\* HandleAnnounce, HandleScrape: the hooks may fail, without an answer when
\* what they have seen is the cancelled context.
HandleHooks(r) ==
    /\ handler[r] = "pre"
    /\ \/ Panic(r)
       \/ /\ storage = "open"
          /\ read' = [read EXCEPT ![r] = @ \cup Params(r)]
          /\ \/ handler' = [handler EXCEPT ![r] = "respond"] /\ UNCHANGED <<conn, answer>>
             \/ Returns(r, "error")
             \/ done /\ Returns(r, "nothing")
          /\ UNCHANGED <<ended, path, ctx, params, after>>
    /\ UNCHANGED <<serverVars, args>>

\* Mutant: the post-hooks get the parameters too.
WriteResponseWithParams(r) ==
    /\ handler[r] = "respond"
    /\ IF done
       THEN Returns(r, "nothing") /\ UNCHANGED after
       ELSE Returns(r, "response") /\ after' = [after EXCEPT ![r] = "started"]
    /\ UNCHANGED <<serverVars, ended, args, path, ctx, params, read>>

\* Mutant: no goroutine for the post-hooks.
WriteResponseOnly(r) ==
    /\ handler[r] = "respond"
    /\ Returns(r, IF done THEN "nothing" ELSE "response")
    /\ params' = [params EXCEPT ![r] = Nil]
    /\ UNCHANGED <<serverVars, ended, args, path, ctx, read, after>>

\* Mutant: the context is not looked at before the post-hooks.
WriteResponseAnyway(r) ==
    /\ handler[r] = "respond"
    /\ Returns(r, IF done THEN "nothing" ELSE "response")
    /\ params' = [params EXCEPT ![r] = Nil]
    /\ after' = [after EXCEPT ![r] = "started"]
    /\ UNCHANGED <<serverVars, ended, args, path, ctx, read>>

\* The response is written, Params dropped, AfterAnnounce or AfterScrape begun.
WriteResponse(r) ==
    /\ handler[r] = "respond"
    /\ IF done
       THEN Returns(r, "nothing") /\ UNCHANGED <<params, after>>
       ELSE /\ Returns(r, "response")
            /\ params' = [params EXCEPT ![r] = Nil]
            /\ after' = [after EXCEPT ![r] = "started"]
    /\ UNCHANGED <<serverVars, ended, args, path, ctx, read>>

AfterHooks(r) ==
    /\ after[r] = "started"
    /\ \/ path[r] = "announce" /\ Panic(r)
       \/ /\ path[r] = "scrape" \/ storage = "open"
          /\ read' = [read EXCEPT ![r] = @ \cup Params(r)]
          /\ after' = [after EXCEPT ![r] = "done"]
          /\ UNCHANGED <<ended, conn, handler, path, ctx, params, answer>>
    /\ UNCHANGED <<serverVars, args>>

----------------------------------------------------------------------------
(* Shutdown.                                                               *)

Signal ==
    /\ run = "signal"
    /\ run' = "close"
    /\ UNCHANGED <<storage, hooks, listener, done, early, ended, conn, args, requestVars>>

\* Close of the frontend: with no listener yet fasthttp has nothing to do.
Close ==
    /\ run = "close"
    /\ IF listener = "serve"
       THEN run' = "wait" /\ listener' = "stopped" /\ done' = TRUE /\ UNCHANGED early
       ELSE run' = "closeHooks" /\ early' = TRUE /\ UNCHANGED <<listener, done>>
    /\ UNCHANGED <<storage, hooks, ended, conn, args, requestVars>>

\* Mutant: closeGroup does not wait.
WaitNot ==
    /\ run = "wait"
    /\ run' = "closeHooks"
    /\ UNCHANGED <<storage, hooks, listener, done, early, ended, conn, args, requestVars>>

\* Shutdown waits for the open connections, closeGroup for the Shutdown.
WaitConns ==
    /\ run = "wait" /\ \A x \in Conn : conn[x] = "closed"
    /\ run' = "closeHooks"
    /\ UNCHANGED <<storage, hooks, listener, done, early, ended, conn, args, requestVars>>

CloseMiddleware ==
    /\ run = "closeHooks"
    /\ run' = "closeStorage"
    /\ hooks' = "closed"
    /\ UNCHANGED <<storage, listener, done, early, ended, conn, args, requestVars>>

CloseStorage ==
    /\ run = "closeStorage"
    /\ run' = "exit"
    /\ storage' = "closed"
    /\ UNCHANGED <<hooks, listener, done, early, ended, conn, args, requestVars>>

ProcessExit ==
    /\ run = "exit"
    /\ ended' = "exit"
    /\ UNCHANGED <<serverVars, conn, args, requestVars>>

----------------------------------------------------------------------------
ServeStep(r) == Route(r) \/ ping(r) \/ HandleHooks(r) \/ WriteResponse(r)

RunStep ==
    \/ NewStorage \/ NewHooks \/ NewFrontend \/ NewFrontends
    \/ Close \/ WaitConns \/ CloseMiddleware \/ CloseStorage \/ ProcessExit

HTTPNext ==
    /\ ended = "no"
    /\ \/ RunStep \/ Signal \/ runServer
       \/ \E x \in Conn : Accept(x) \/ HangUp(x) \/ \E r \in HTTPReq : NextRequest(r, x)
       \/ \E r \in HTTPReq : ServeStep(r) \/ AfterHooks(r)

HTTPSpec == HTTPInit /\ [][HTTPNext]_httpVars

\* Goroutines are scheduled; an idle connection runs into its timeout; when
\* requests and signals come is up to the environment.
HTTPFairness ==
    /\ WF_httpVars(ended = "no" /\ RunStep)
    /\ WF_httpVars(ended = "no" /\ runServer)
    /\ \A x \in Conn : WF_httpVars(ended = "no" /\ HangUp(x))
    /\ \A r \in HTTPReq : /\ WF_httpVars(ended = "no" /\ ServeStep(r))
                      /\ WF_httpVars(ended = "no" /\ AfterHooks(r))

HTTPFairSpec == HTTPSpec /\ HTTPFairness

----------------------------------------------------------------------------
(* Properties.                                                             *)

Handling(r) == handler[r] \notin {"none", "done"}

\* The variables have their types.
HTTPTypeOK ==
    /\ run \in {"storage", "hooks", "frontends", "others", "signal", "close", "wait",
                 "closeHooks", "closeStorage", "exit"}
    /\ storage \in {"none", "open", "closed"} /\ hooks \in {"none", "open", "closed"}
    /\ listener \in {"none", "listen", "serve", "stopped"}
    /\ done \in BOOLEAN /\ early \in BOOLEAN
    /\ ended \in {"no", "fatal", "panic", "exit"}
    /\ conn \in [Conn -> {"closed", "idle", "busy"}]
    /\ args \in [Conn -> HTTPReq \cup {Nil}]
    /\ handler \in [HTTPReq -> {"none", "route", "ping", "pre", "respond", "done"}]
    /\ path \in [HTTPReq -> Path]
    /\ ctx \in [HTTPReq -> Conn \cup {Nil}]
    /\ \A r \in HTTPReq : Handling(r) => ctx[r] \in Conn
    /\ params \in [HTTPReq -> Conn \cup {Nil}]
    /\ read \in [HTTPReq -> SUBSET (HTTPReq \cup {Nil})]
    /\ answer \in [HTTPReq -> {"nothing", "error", "notFound", "response"}]
    /\ after \in [HTTPReq -> {"none", "started", "done"}]

\* A request is handled only while the storage and the hooks are open, from the
\* first one, which may come before Run has returned, to the last one Close
\* waits for, unless Close met a listener that was not up yet; and post-hooks
\* run only for a request that was answered.
HandledWhileOpen ==
    \A r \in HTTPReq :
        /\ Handling(r) => early \/ (storage = "open" /\ hooks = "open")
        /\ after[r] # "none" => answer[r] = "response"

\* Hooks only ever read the parameters of their own request, although the next
\* request of the connection overwrites them while post-hooks run.
OwnParams == \A r \in HTTPReq : read[r] \subseteq {r}

\* A signal ends the process, with connections idle, busy or starting.
HTTPShutdownEnds == run = "close" ~> ended # "no"

\* The storage hears of every announce that was answered, although nothing
\* waits for the goroutine of the post-hooks, unless the process ends first.
ResponseApplied ==
    \A r \in HTTPReq :
        (answer[r] = "response" /\ path[r] # "ping") ~> (after[r] = "done" \/ ended # "no")
====
