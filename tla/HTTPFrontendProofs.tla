------------------------- MODULE HTTPFrontendProofs -------------------------
(***************************************************************************)
(* For any number of connections and requests: the HTTP frontend handles   *)
(* requests only while storage and hooks are open, and no hook reads the   *)
(* parameters of another request.                                          *)
(***************************************************************************)
EXTENDS HTTPFrontend, TLAPS

USE SMTT(60)

\* A request under way has its connection, and the RequestCtx of it, to itself;
\* post-hooks have no parameters, and follow an answer.
Exclusive ==
    \A r \in HTTPReq :
        /\ Handling(r) => conn[ctx[r]] = "busy" /\ args[ctx[r]] = r
        /\ params[r] # Nil => params[r] = ctx[r] /\ handler[r] # "none"
        /\ after[r] # "none" => /\ handler[r] = "done" /\ params[r] = Nil
                                /\ answer[r] = "response"
        /\ read[r] \subseteq {r}

\* What is open where main is, and when there can be connections.
Phases ==
    /\ run \in {"storage", "hooks", "frontends"} => listener = "none"
    /\ run \notin {"storage", "exit"} => storage = "open"
    /\ run \in {"frontends", "others", "signal", "close", "wait"} => hooks = "open"
    /\ run = "wait" => listener = "stopped"
    /\ listener = "none" => \A x \in Conn : conn[x] = "closed"
    /\ (run \in {"closeHooks", "closeStorage", "exit"} /\ ~early)
          => listener = "stopped" /\ \A x \in Conn : conn[x] = "closed"

IInv == HTTPTypeOK /\ Exclusive /\ Phases

USE HTTPAssumption DEF serverVars, requestVars

\* The main goroutine and the listener leave the requests alone.
LEMMA ServerStep ==
    ASSUME IInv, UNCHANGED <<conn, args, requestVars>>
    PROVE  Exclusive'
BY DEF IInv, Exclusive, Handling

LEMMA InitIInv == HTTPInit => IInv
<1> SUFFICES ASSUME HTTPInit PROVE IInv
  OBVIOUS
<1>1. HTTPTypeOK
  BY ZenonT(60) DEF HTTPInit, NotStarted, HTTPTypeOK, Handling
<1>2. Exclusive
  BY DEF HTTPInit, NotStarted, Exclusive, Handling
<1>3. Phases
  BY DEF HTTPInit, NotStarted, Phases
<1> QED
  BY <1>1, <1>2, <1>3 DEF IInv

LEMMA NewStorageStep == ASSUME IInv, NewStorage PROVE IInv'
<1>1. HTTPTypeOK'
  BY DEF IInv, HTTPTypeOK, Handling, NewStorage, Fatal
<1>2. Exclusive'
  BY ServerStep DEF NewStorage, Fatal
<1>3. Phases'
  BY DEF IInv, HTTPTypeOK, Phases, NewStorage, Fatal
<1> QED
  BY <1>1, <1>2, <1>3 DEF IInv

LEMMA NewHooksStep == ASSUME IInv, NewHooks PROVE IInv'
<1>1. HTTPTypeOK'
  BY DEF IInv, HTTPTypeOK, Handling, NewHooks, Fatal
<1>2. Exclusive'
  BY ServerStep DEF NewHooks, Fatal
<1>3. Phases'
  BY DEF IInv, HTTPTypeOK, Phases, NewHooks, Fatal
<1> QED
  BY <1>1, <1>2, <1>3 DEF IInv

LEMMA NewFrontendStep == ASSUME IInv, NewFrontend PROVE IInv'
<1>1. HTTPTypeOK'
  BY DEF IInv, HTTPTypeOK, Handling, NewFrontend, Fatal
<1>2. Exclusive'
  BY ServerStep DEF NewFrontend, Fatal
<1>3. Phases'
  BY DEF IInv, HTTPTypeOK, Phases, NewFrontend, Fatal
<1> QED
  BY <1>1, <1>2, <1>3 DEF IInv

LEMMA NewFrontendsStep == ASSUME IInv, NewFrontends PROVE IInv'
<1>1. HTTPTypeOK'
  BY DEF IInv, HTTPTypeOK, Handling, NewFrontends, Fatal
<1>2. Exclusive'
  BY ServerStep DEF NewFrontends, Fatal
<1>3. Phases'
  BY DEF IInv, HTTPTypeOK, Phases, NewFrontends, Fatal
<1> QED
  BY <1>1, <1>2, <1>3 DEF IInv

LEMMA RunServerStep == ASSUME IInv, runServer PROVE IInv'
<1>1. HTTPTypeOK'
  BY DEF IInv, HTTPTypeOK, Handling, runServer, Fatal
<1>2. Exclusive'
  BY ServerStep DEF runServer, Fatal
<1>3. Phases'
  BY DEF IInv, HTTPTypeOK, Phases, runServer, Fatal
<1> QED
  BY <1>1, <1>2, <1>3 DEF IInv

LEMMA SignalStep == ASSUME IInv, Signal PROVE IInv'
<1>1. HTTPTypeOK'
  BY DEF IInv, HTTPTypeOK, Handling, Signal
<1>2. Exclusive'
  BY ServerStep DEF Signal
<1>3. Phases'
  BY DEF IInv, HTTPTypeOK, Phases, Signal
<1> QED
  BY <1>1, <1>2, <1>3 DEF IInv

LEMMA CloseStep == ASSUME IInv, Close PROVE IInv'
<1>1. HTTPTypeOK'
  BY ZenonT(60) DEF IInv, HTTPTypeOK, Handling, Close
<1>2. Exclusive'
  BY ServerStep DEF Close
<1>3. Phases'
  BY DEF IInv, HTTPTypeOK, Phases, Close
<1> QED
  BY <1>1, <1>2, <1>3 DEF IInv

LEMMA WaitStep == ASSUME IInv, WaitConns PROVE IInv'
<1>1. HTTPTypeOK'
  BY DEF IInv, HTTPTypeOK, Handling, WaitConns
<1>2. Exclusive'
  BY ServerStep DEF WaitConns
<1>3. Phases'
  BY DEF IInv, HTTPTypeOK, Phases, WaitConns
<1> QED
  BY <1>1, <1>2, <1>3 DEF IInv

LEMMA CloseHooksStep == ASSUME IInv, CloseMiddleware PROVE IInv'
<1>1. HTTPTypeOK'
  BY DEF IInv, HTTPTypeOK, Handling, CloseMiddleware
<1>2. Exclusive'
  BY ServerStep DEF CloseMiddleware
<1>3. Phases'
  BY DEF IInv, HTTPTypeOK, Phases, CloseMiddleware
<1> QED
  BY <1>1, <1>2, <1>3 DEF IInv

LEMMA CloseStorageStep == ASSUME IInv, CloseStorage PROVE IInv'
<1>1. HTTPTypeOK'
  BY DEF IInv, HTTPTypeOK, Handling, CloseStorage
<1>2. Exclusive'
  BY ServerStep DEF CloseStorage
<1>3. Phases'
  BY DEF IInv, HTTPTypeOK, Phases, CloseStorage
<1> QED
  BY <1>1, <1>2, <1>3 DEF IInv

LEMMA ExitStep == ASSUME IInv, ProcessExit PROVE IInv'
<1>1. HTTPTypeOK'
  BY DEF IInv, HTTPTypeOK, Handling, ProcessExit
<1>2. Exclusive'
  BY ServerStep DEF ProcessExit
<1>3. Phases'
  BY DEF IInv, HTTPTypeOK, Phases, ProcessExit
<1> QED
  BY <1>1, <1>2, <1>3 DEF IInv

LEMMA AcceptStep == ASSUME IInv, NEW x \in Conn, Accept(x) PROVE IInv'
<1>1. HTTPTypeOK'
  BY DEF IInv, HTTPTypeOK, Exclusive, Handling, Accept
<1>2. Exclusive'
  BY DEF IInv, HTTPTypeOK, Exclusive, Handling, Accept
<1>3. Phases'
  BY DEF IInv, HTTPTypeOK, Exclusive, Phases, Handling, Accept
<1> QED
  BY <1>1, <1>2, <1>3 DEF IInv

LEMMA HangUpStep == ASSUME IInv, NEW x \in Conn, HangUp(x) PROVE IInv'
<1>1. HTTPTypeOK'
  BY DEF IInv, HTTPTypeOK, Exclusive, Handling, HangUp
<1>2. Exclusive'
  BY DEF IInv, HTTPTypeOK, Exclusive, Handling, HangUp
<1>3. Phases'
  BY DEF IInv, HTTPTypeOK, Exclusive, Phases, Handling, HangUp
<1> QED
  BY <1>1, <1>2, <1>3 DEF IInv

LEMMA RequestStep == ASSUME IInv, NEW r \in HTTPReq, NEW x \in Conn, NextRequest(r, x) PROVE IInv'
<1>1. HTTPTypeOK'
  BY DEF IInv, HTTPTypeOK, Exclusive, Handling, NextRequest
<1>2. Exclusive'
  BY DEF IInv, HTTPTypeOK, Exclusive, Handling, NextRequest
<1>3. Phases'
  BY DEF IInv, HTTPTypeOK, Exclusive, Phases, Handling, NextRequest
<1> QED
  BY <1>1, <1>2, <1>3 DEF IInv

LEMMA RouteStep == ASSUME IInv, NEW r \in HTTPReq, Route(r) PROVE IInv'
<1>1. HTTPTypeOK'
  BY DEF IInv, HTTPTypeOK, Exclusive, Handling, Route, Returns
<1>2. Exclusive'
  BY DEF IInv, HTTPTypeOK, Exclusive, Handling, Route, Returns
<1>3. Phases'
  BY DEF IInv, HTTPTypeOK, Exclusive, Phases, Handling, Route, Returns
<1> QED
  BY <1>1, <1>2, <1>3 DEF IInv

LEMMA PingStep == ASSUME IInv, NEW r \in HTTPReq, ping(r) PROVE IInv'
<1>1. HTTPTypeOK'
  BY DEF IInv, HTTPTypeOK, Exclusive, Handling, ping, Returns
<1>2. Exclusive'
  BY DEF IInv, HTTPTypeOK, Exclusive, Handling, ping, Returns
<1>3. Phases'
  BY DEF IInv, HTTPTypeOK, Exclusive, Phases, Handling, ping, Returns
<1> QED
  BY <1>1, <1>2, <1>3 DEF IInv

LEMMA PreHooksStep == ASSUME IInv, NEW r \in HTTPReq, HandleHooks(r) PROVE IInv'
<1>1. HTTPTypeOK'
  BY DEF IInv, HTTPTypeOK, Exclusive, Handling, HandleHooks, Returns, Params, Panic
<1>2. Exclusive'
  BY DEF IInv, HTTPTypeOK, Exclusive, Handling, HandleHooks, Returns, Params, Panic
<1>3. Phases'
  BY DEF IInv, HTTPTypeOK, Exclusive, Phases, Handling, HandleHooks, Returns, Params, Panic
<1> QED
  BY <1>1, <1>2, <1>3 DEF IInv

LEMMA RespondStep == ASSUME IInv, NEW r \in HTTPReq, WriteResponse(r) PROVE IInv'
<1>1. HTTPTypeOK'
  BY DEF IInv, HTTPTypeOK, Exclusive, Handling, WriteResponse, Returns
<1>2. Exclusive'
  BY DEF IInv, HTTPTypeOK, Exclusive, Handling, WriteResponse, Returns
<1>3. Phases'
  BY DEF IInv, HTTPTypeOK, Exclusive, Phases, Handling, WriteResponse, Returns
<1> QED
  BY <1>1, <1>2, <1>3 DEF IInv

LEMMA PostHooksStep == ASSUME IInv, NEW r \in HTTPReq, AfterHooks(r) PROVE IInv'
<1>1. HTTPTypeOK'
  BY DEF IInv, HTTPTypeOK, Exclusive, Handling, AfterHooks, Params, Panic
<1>2. Exclusive'
  BY DEF IInv, HTTPTypeOK, Exclusive, Handling, AfterHooks, Params, Panic
<1>3. Phases'
  BY DEF IInv, HTTPTypeOK, Exclusive, Phases, Handling, AfterHooks, Params, Panic
<1> QED
  BY <1>1, <1>2, <1>3 DEF IInv

LEMMA NextIInv == IInv /\ [HTTPNext]_httpVars => IInv'
<1> SUFFICES ASSUME IInv, [HTTPNext]_httpVars PROVE IInv'
  OBVIOUS
<1>1. CASE UNCHANGED httpVars
  BY <1>1 DEF IInv, HTTPTypeOK, Exclusive, Phases, Handling, httpVars
<1>2. CASE RunStep \/ Signal \/ runServer
  BY <1>2, NewStorageStep, NewHooksStep, NewFrontendStep, NewFrontendsStep, CloseStep, WaitStep,
     CloseHooksStep, CloseStorageStep, ExitStep, SignalStep, RunServerStep DEF RunStep
<1>3. CASE \E x \in Conn : Accept(x) \/ HangUp(x) \/ \E r \in HTTPReq : NextRequest(r, x)
  BY <1>3, AcceptStep, HangUpStep, RequestStep
<1>4. CASE \E r \in HTTPReq : ServeStep(r) \/ AfterHooks(r)
  BY <1>4, RouteStep, PingStep, PreHooksStep, RespondStep, PostHooksStep DEF ServeStep
<1> QED
  BY <1>1, <1>2, <1>3, <1>4 DEF HTTPNext

\* The types and what they rest on: a RequestCtx serves one request at a time,
\* and nothing is closed while there are connections that Close waits for.
THEOREM Inductive == HTTPSpec => []IInv
BY InitIInv, NextIInv, PTL DEF HTTPSpec

\* Through start, serving, failures and shutdown the variables have their types.
THEOREM TypeCorrect == HTTPSpec => []HTTPTypeOK
<1>1. IInv => HTTPTypeOK
  BY DEF IInv
<1> QED
  BY <1>1, Inductive, PTL

\* Every handler of the HTTP frontend runs while storage and hooks are open,
\* unless Close met a listener that was not up yet, and no post-hook without an
\* answer.
THEOREM HandledWhileOpenCorrect == HTTPSpec => []HandledWhileOpen
<1>1. IInv => HandledWhileOpen
  BY DEF IInv, HTTPTypeOK, Exclusive, Phases, HandledWhileOpen
<1> QED
  BY <1>1, Inductive, PTL

\* The hooks of a request read the parameters of that request alone, although
\* connections reuse the RequestCtx.
THEOREM OwnParamsCorrect == HTTPSpec => []OwnParams
<1>1. IInv => OwnParams
  BY DEF IInv, Exclusive, OwnParams
<1> QED
  BY <1>1, Inductive, PTL
====
