------------------------- MODULE UDPFrontendProofs -------------------------
(***************************************************************************)
(* Theorems about UDPFrontend, for every number of sockets, datagrams and  *)
(* pooled objects, and about ConnectionID.                                 *)
(***************************************************************************)
EXTENDS UDPFrontend, ConnectionID, TLAPS

USE ZenonT(60)

\* A generator has one holder, and the ID in it is the holder's from the time
\* it was made until it is written out.
Pooled ==
    /\ \A q, r \in Req : (gen[q] # None /\ gen[q] = gen[r]) => q = r
    /\ \A r \in Req : hpc[r] \in {"connect", "writeID"} => gen[r] # None
    /\ \A r \in Req : hpc[r] = "writeID" => alias[r] = gen[r] /\ connID[gen[r]] = r

\* Parameters, if they are views of anything, are views of buffers.
Views ==
    /\ \A r \in Req : hpc[r] \in {"none", "start", "connect", "parse"} => alias[r] = None
    /\ \A r \in Req : hpc[r] = "pre" => alias[r] \in Buffer \cup {None}

\* Past the wait group nobody is left, and nothing is closed before it.
Waited ==
    /\ main \in {"sockets", "hooks", "store", "exit"} =>
          (\A w \in Sockets : wpc[w] = "exited") /\ (\A r \in Req : ~Active(r))
    /\ ~socketsOpen \/ ~storeOpen => main \in {"hooks", "store", "exit"}

\* A handler answers in its last step, and starts the post-hooks in it.
Replied ==
    /\ \A r \in Req : hpc[r] # "done" => sent[r] = <<"nothing">> /\ post[r] = "none"
    /\ Answered

USE DEF mainVars, reqVars, Sockets

\* Where a step comes from.
LEMMA NextCases ==
    ASSUME NEW P, [Next]_vars,
           \A w \in Worker : CheckClosing(w) => P,
           \A w \in Worker, r \in Req : Read(w, r) => P,
           \A w \in Worker : ReadNothing(w) => P,
           \A w \in Worker : ReadFails(w) => P,
           \A r \in Req : Start(r) => P,
           \A r \in Req : MakeID(r) => P,
           \A r \in Req : WriteID(r) => P,
           \A r \in Req : Parse(r) => P,
           \A r \in Req : PreHooks(r) => P,
           \A r \in Req : Respond(r) => P,
           \A r \in Req : WriteError(r) => P,
           \A r \in Req : PostHooks(r) => P,
           CloseChannel => P, Cancel => P, SetDeadline => P, Wait => P,
           CloseSockets => P, Abandon => P, CloseHooks => P, CloseStore => P, Exit => P,
           UNCHANGED vars => P
    PROVE  P
BY DEF Next, WorkerStep, HandlerStep, MainStep

LEMMA FillType ==
    ASSUME TypeOK, NEW x \in Req \cup {None, Response}, Fill(x)
    PROVE  content' \in [Buffer -> Req \cup {None, Response}]
BY SMTT(60) DEF Fill, TypeOK

LEMMA AnswerType ==
    ASSUME TypeOK, NEW r \in Req, NEW a \in Reply, Answer(r, a)
    PROVE  /\ content' \in [Buffer -> Req \cup {None, Response}]
           /\ sent' \in [Req -> Reply]
BY FillType DEF Answer, TypeOK

LEMMA Replies ==
    /\ <<"nothing">> \in Reply /\ <<"error">> \in Reply /\ <<"response">> \in Reply
    /\ \A r \in Req : <<"connID", r>> \in Reply
BY DEF Reply

\* The type invariant is preserved by every step.
LEMMA TypeStep == TypeOK /\ Pooled /\ Views /\ [Next]_vars => TypeOK'
<1> SUFFICES ASSUME TypeOK, Pooled, Views, [Next]_vars PROVE TypeOK'
  OBVIOUS
<1>1. \A w \in Worker : CheckClosing(w) => TypeOK'
  BY SMTT(60) DEF CheckClosing, TypeOK
<1>2. \A w \in Worker, r \in Req : Read(w, r) => TypeOK'
  BY SMTT(60) DEF Read, TypeOK
<1>3. \A w \in Worker : ReadNothing(w) \/ ReadFails(w) => TypeOK'
  BY SMTT(60) DEF ReadNothing, ReadFails, TypeOK
<1>4. \A r \in Req : Start(r) => TypeOK'
  BY SMTT(60) DEF Start, Return, TypeOK
<1>5. \A r \in Req : MakeID(r) => TypeOK'
  BY SMTT(60) DEF MakeID, Return, TypeOK, Pooled
<1>6. ASSUME NEW r \in Req, WriteID(r) PROVE TypeOK'
  <2>1. Answer(r, <<"connID", r>>)
    BY <1>6 DEF WriteID, Pooled
  <2>2. content' \in [Buffer -> Req \cup {None, Response}] /\ sent' \in [Req -> Reply]
    BY <2>1, Replies, AnswerType
  <2> QED BY <1>6, <2>2 DEF WriteID, Return, TypeOK
<1>7. \A r \in Req : Parse(r) => TypeOK'
  BY SMTT(60) DEF Parse, TypeOK
<1>8. ASSUME NEW r \in Req, PreHooks(r) PROVE TypeOK'
  <2>1. seen' \in [Req -> Req \cup {None, Response}]
    BY <1>8 DEF PreHooks, TypeOK, Views
  <2>2. /\ hpc' \in [Req -> {"none", "start", "connect", "writeID", "parse", "pre",
                           "respond", "error", "done"}]
        /\ gen' \in [Req -> Gen \cup {None}]
        /\ down' \in {"no", "panic", "fatal", "exit"}
    BY SMTT(60), <1>8 DEF PreHooks, Return, TypeOK
  <2> QED BY SMTT(60), <1>8, <2>1, <2>2 DEF PreHooks, TypeOK
<1>9. ASSUME NEW r \in Req, Respond(r) PROVE TypeOK'
  <2>1. content' \in [Buffer -> Req \cup {None, Response}] /\ sent' \in [Req -> Reply]
    BY SMTT(60), <1>9, Replies, AnswerType DEF Respond, TypeOK
  <2> QED BY <1>9, <2>1 DEF Respond, Return, TypeOK
<1>10. ASSUME NEW r \in Req, WriteError(r) PROVE TypeOK'
  <2>1. content' \in [Buffer -> Req \cup {None, Response}] /\ sent' \in [Req -> Reply]
    BY <1>10, Replies, AnswerType DEF WriteError
  <2> QED BY <1>10, <2>1 DEF WriteError, Return, TypeOK
<1>11. \A r \in Req : PostHooks(r) => TypeOK'
  BY SMTT(60) DEF PostHooks, TypeOK
<1>12. (CloseChannel \/ Cancel \/ Wait) => TypeOK'
  BY DEF CloseChannel, Cancel, Wait, TypeOK
<1>14. SetDeadline => TypeOK'
  BY SMTT(60) DEF SetDeadline, TypeOK
<1>13. (CloseSockets \/ Abandon \/ CloseHooks \/ CloseStore \/ Exit \/ UNCHANGED vars) => TypeOK'
  BY DEF CloseSockets, Abandon, CloseHooks, CloseStore, Exit, vars, TypeOK
<1> QED BY SMTT(60), <1>1, <1>2, <1>3, <1>4, <1>5, <1>6, <1>7, <1>8, <1>9, <1>10, <1>11, <1>12,
           <1>13, <1>14, NextCases

\* Steps that leave the generators alone, or give one back.
LEMMA PooledFrame ==
    ASSUME TypeOK, Pooled, OwnConnID, UNCHANGED <<connID>>,
           \A r \in Req : gen'[r] = gen[r] \/ (gen'[r] = None /\ hpc'[r] = "done"),
           \A r \in Req : hpc'[r] \in {"connect", "writeID"} =>
                             hpc'[r] = hpc[r] /\ alias'[r] = alias[r],
           \A r \in Req : sent'[r] = sent[r] \/ sent'[r] = <<"connID", r>>
                           \/ sent'[r][1] # "connID"
    PROVE  Pooled' /\ OwnConnID'
BY SMTT(60) DEF Pooled, OwnConnID

LEMMA PooledStep ==
    ASSUME TypeOK, Pooled, OwnConnID, [Next]_vars
    PROVE  Pooled' /\ OwnConnID'
<1> DEFINE Good == Pooled' /\ OwnConnID'
<1>1. ASSUME NEW r \in Req, Start(r) PROVE Good
  <2>1. CASE pkt[r] = "short"
    BY SMTT(60), <1>1, <2>1, PooledFrame DEF Start, Return, TypeOK
  <2>2. CASE pkt[r] # "short"
    <3>1. PICK g \in Gen : (\A q \in Req : gen[q] # g) /\ gen' = [gen EXCEPT ![r] = g]
      BY <1>1, <2>2 DEF Start
    <3>2. /\ \A q \in Req : gen'[q] = IF q = r THEN g ELSE gen[q]
          /\ \A q \in Req : q # r => hpc'[q] = hpc[q]
          /\ hpc'[r] # "writeID" /\ g # None
          /\ UNCHANGED <<alias, connID, sent>>
      BY <1>1, <2>2, <3>1, UDPAssumption DEF Start, TypeOK
    <3> QED BY SMTT(60), <3>1, <3>2 DEF Pooled, OwnConnID
  <2> QED BY <2>1, <2>2
<1>2. ASSUME NEW r \in Req, MakeID(r) PROVE Good
  <2>1. CASE pkt[r] = "badMagic"
    BY SMTT(60), <1>2, <2>1, PooledFrame DEF MakeID, Return, TypeOK
  <2>2. CASE pkt[r] # "badMagic"
    <3>1. gen[r] \in Gen
      BY SMTT(60), <1>2 DEF MakeID, Pooled, TypeOK
    <3>2. /\ connID'[gen[r]] = r
          /\ \A g \in Gen : g # gen[r] => connID'[g] = connID[g]
          /\ alias'[r] = gen[r] /\ hpc'[r] = "writeID"
          /\ \A q \in Req : q # r => hpc'[q] = hpc[q] /\ alias'[q] = alias[q]
          /\ UNCHANGED <<gen, sent>>
      BY SMTT(60), <1>2, <2>2, <3>1 DEF MakeID, TypeOK
    <3>3. \A q \in Req : gen[q] \in Gen \cup {None}
      BY DEF TypeOK
    <3>4. \A q \in Req : gen[q] = gen[r] => q = r
      BY SMTT(60), <3>1, UDPAssumption DEF Pooled
    <3>5. Pooled'
      <4>1. \A q \in Req : hpc'[q] = "writeID" => alias'[q] = gen'[q] /\ connID'[gen'[q]] = q
        <5> SUFFICES ASSUME NEW q \in Req, hpc'[q] = "writeID"
                     PROVE  alias'[q] = gen'[q] /\ connID'[gen'[q]] = q
          OBVIOUS
        <5>1. CASE q = r
          BY <5>1, <3>2
        <5>2. CASE q # r
          <6>1. gen[q] \in Gen /\ gen[q] # gen[r] /\ alias[q] = gen[q] /\ connID[gen[q]] = q
            BY SMTT(60), <5>2, <3>2, <3>3, <3>4 DEF Pooled
          <6> QED BY <6>1, <5>2, <3>2
        <5> QED BY <5>1, <5>2
      <4>2. \A q \in Req : hpc'[q] \in {"connect", "writeID"} => gen'[q] # None
        BY SMTT(60), <3>1, <3>2, UDPAssumption DEF Pooled
      <4> QED BY SMTT(60), <4>1, <4>2, <3>2 DEF Pooled
    <3> QED BY <3>2, <3>5 DEF OwnConnID
  <2> QED BY <2>1, <2>2
<1>3. ASSUME NEW r \in Req, WriteID(r) PROVE Good
  <2>1. connID[alias[r]] = r
    BY <1>3 DEF WriteID, Pooled
  <2>2. \A q \in Req : sent'[q] = sent[q] \/ sent'[q] = <<"connID", q>>
                        \/ sent'[q][1] # "connID"
    <3>1. sent' = [sent EXCEPT ![r] = <<"connID", r>>]
      BY <1>3, <2>1 DEF WriteID, Answer
    <3> QED BY SMTT(60), <3>1 DEF TypeOK
  <2>3. /\ UNCHANGED <<connID, alias>>
        /\ \A q \in Req : gen'[q] = gen[q] \/ (gen'[q] = None /\ hpc'[q] = "done")
        /\ \A q \in Req : hpc'[q] = hpc[q] \/ hpc'[q] = "done"
    BY SMTT(60), <1>3 DEF WriteID, Return, TypeOK
  <2> QED BY <2>2, <2>3, PooledFrame
<1>4. ASSUME NEW r \in Req, Parse(r) PROVE Good
  BY SMTT(60), <1>4, PooledFrame DEF Parse, TypeOK
<1>5. ASSUME NEW r \in Req, PreHooks(r) PROVE Good
  BY SMTT(60), <1>5, PooledFrame DEF PreHooks, Return, TypeOK
<1>6. ASSUME NEW r \in Req, Respond(r) \/ WriteError(r) PROVE Good
  <2>1. \A q \in Req : sent'[q] = sent[q] \/ sent'[q][1] # "connID"
    <3>1. \/ UNCHANGED sent
          \/ sent' = [sent EXCEPT ![r] = <<"response">>]
          \/ sent' = [sent EXCEPT ![r] = <<"error">>]
      BY <1>6 DEF Respond, WriteError, Answer
    <3>2. <<"response">>[1] # "connID" /\ <<"error">>[1] # "connID"
      OBVIOUS
    <3> QED BY SMTT(60), <3>1, <3>2 DEF TypeOK
  <2>2. /\ UNCHANGED <<connID, alias>>
        /\ \A q \in Req : gen'[q] = gen[q] \/ (gen'[q] = None /\ hpc'[q] = "done")
        /\ \A q \in Req : hpc'[q] = hpc[q] \/ hpc'[q] = "done"
    BY SMTT(60), <1>6 DEF Respond, WriteError, Return, TypeOK
  <2> QED BY <2>1, <2>2, PooledFrame
<1>7. ASSUME NEW w \in Worker, NEW r \in Req, Read(w, r) PROVE Good
  BY <1>7, PooledFrame DEF Read, TypeOK
<1>8. ASSUME UNCHANGED <<reqVars, connID>> PROVE Good
  BY <1>8, PooledFrame
<1>9. /\ \A w \in Worker : CheckClosing(w) \/ ReadNothing(w) \/ ReadFails(w) =>
            UNCHANGED <<reqVars, connID>>
      /\ \A r \in Req : PostHooks(r) => UNCHANGED <<reqVars, connID>>
  BY DEF CheckClosing, ReadNothing, ReadFails, PostHooks
<1>10. CloseChannel \/ MainStep \/ UNCHANGED vars => UNCHANGED <<reqVars, connID>>
  BY DEF CloseChannel, MainStep, Cancel, SetDeadline, Wait, CloseSockets, Abandon, CloseHooks,
         CloseStore, Exit, vars
<1> QED BY <1>1, <1>2, <1>3, <1>4, <1>5, <1>6, <1>7, <1>8, <1>9, <1>10
        DEF Next, WorkerStep, HandlerStep

LEMMA ViewsStep ==
    ASSUME TypeOK, Views, [Next]_vars
    PROVE  Views'
<1>1. ASSUME NEW w \in Worker, NEW r \in Req, Read(w, r) PROVE Views'
  BY SMTT(60), <1>1 DEF Read, TypeOK, Views
<1>2. ASSUME NEW r \in Req, Start(r) PROVE Views'
  <2>1. /\ UNCHANGED alias
        /\ hpc[r] = "start" /\ hpc'[r] # "pre"
        /\ \A q \in Req : q # r => hpc'[q] = hpc[q]
    BY SMTT(60), <1>2 DEF Start, Return, TypeOK
  <2> QED BY <2>1 DEF Views
<1>3. ASSUME NEW r \in Req, MakeID(r) PROVE Views'
  BY SMTT(60), <1>3 DEF MakeID, Return, TypeOK, Views
<1>4. ASSUME NEW r \in Req, Parse(r) PROVE Views'
  BY SMTT(60), <1>4 DEF Parse, TypeOK, Views
<1>5. ASSUME NEW r \in Req, WriteID(r) \/ PreHooks(r) \/ Respond(r) \/ WriteError(r)
      PROVE  Views'
  <2>1. /\ UNCHANGED alias
        /\ \A q \in Req : hpc'[q] = hpc[q] \/ hpc'[q] \in {"done", "respond", "error"}
    BY SMTT(60), <1>5 DEF WriteID, PreHooks, Respond, WriteError, Return, TypeOK
  <2> QED BY SMTT(60), <2>1 DEF Views
<1>6. ASSUME UNCHANGED reqVars PROVE Views'
  BY <1>6 DEF Views
<1>7. /\ \A w \in Worker : CheckClosing(w) \/ ReadNothing(w) \/ ReadFails(w) =>
            UNCHANGED reqVars
      /\ \A r \in Req : PostHooks(r) => UNCHANGED reqVars
  BY DEF CheckClosing, ReadNothing, ReadFails, PostHooks
<1>8. CloseChannel \/ MainStep \/ UNCHANGED vars => UNCHANGED reqVars
  BY DEF CloseChannel, MainStep, Cancel, SetDeadline, Wait, CloseSockets, Abandon, CloseHooks,
         CloseStore, Exit, vars
<1> QED BY <1>1, <1>2, <1>3, <1>4, <1>5, <1>6, <1>7, <1>8
        DEF Next, WorkerStep, HandlerStep

LEMMA WaitedStep ==
    ASSUME TypeOK, Waited, [Next]_vars
    PROVE  Waited'
<1>1. ASSUME NEW r \in Req, HandlerStep(r) PROVE Waited'
  <2>1. Active(r) /\ UNCHANGED mainVars
    BY <1>1 DEF HandlerStep, Start, MakeID, WriteID, Parse, PreHooks, Respond,
                WriteError, Active
  <2> QED BY <2>1 DEF Waited
<1>2. \A r \in Req : PostHooks(r) => Waited'
  BY SMTT(60) DEF PostHooks, Waited, Active
<1>3. ASSUME NEW w \in Worker, WorkerStep(w) \/ ReadFails(w) PROVE Waited'
  <2>1. w \in Sockets /\ wpc[w] # "exited" /\ UNCHANGED mainVars
    BY <1>3 DEF WorkerStep, CheckClosing, ReadNothing, Read, ReadFails
  <2> QED BY <2>1 DEF Waited
<1>4. CloseChannel \/ MainStep \/ UNCHANGED vars => Waited'
  BY SMTT(60) DEF CloseChannel, MainStep, Cancel, SetDeadline, Wait, CloseSockets, Abandon,
         CloseHooks, CloseStore, Exit, vars, Waited, Active
<1> QED BY <1>1, <1>2, <1>3, <1>4 DEF Next

LEMMA Distinct ==
    /\ <<"error">> # <<"nothing">> /\ <<"response">> # <<"nothing">>
    /\ \A x : <<"connID", x>> # <<"nothing">>
BY SMTT(60)

\* What a step of a handler does to its answer.
LEMMA ReplyCases ==
    ASSUME TypeOK, Replied, NEW r \in Req, HandlerStep(r)
    PROVE  /\ hpc[r] # "done" /\ UNCHANGED <<pkt, cancelled>>
           /\ \A q \in Req : q # r => /\ hpc'[q] = hpc[q] /\ sent'[q] = sent[q]
                                      /\ post'[q] = post[q]
           /\ hpc'[r] # "done" => sent'[r] = sent[r] /\ post'[r] = post[r]
           /\ (hpc'[r] = "done" /\ ~cancelled /\ pkt[r] \notin {"short", "badMagic"}) =>
                  sent'[r] # <<"nothing">>
           /\ post'[r] # "none" => sent'[r] = <<"response">>
<1> USE DEF TypeOK, Replied
<1>1. CASE Start(r)
  BY SMTT(60), <1>1 DEF Start, Return
<1>2. CASE MakeID(r)
  BY SMTT(60), <1>2 DEF MakeID, Return
<1>3. CASE WriteID(r)
  BY SMTT(60), <1>3, Distinct DEF WriteID, Answer, Return
<1>4. CASE Parse(r)
  BY SMTT(60), <1>4 DEF Parse
<1>5. CASE PreHooks(r)
  BY SMTT(60), <1>5 DEF PreHooks, Return
<1>6. CASE Respond(r)
  BY SMTT(60), <1>6, Distinct DEF Respond, Answer, Return
<1>7. CASE WriteError(r)
  BY SMTT(60), <1>7, Distinct DEF WriteError, Answer, Return
<1> QED BY <1>1, <1>2, <1>3, <1>4, <1>5, <1>6, <1>7 DEF HandlerStep

LEMMA RepliedStep ==
    ASSUME TypeOK, Replied, [Next]_vars
    PROVE  Replied'
<1>1. ASSUME NEW r \in Req, HandlerStep(r) PROVE Replied'
  BY SMTT(60), <1>1, ReplyCases DEF Replied, Answered
<1>2. ASSUME NEW r \in Req, PostHooks(r) PROVE Replied'
  BY SMTT(60), <1>2 DEF PostHooks, TypeOK, Replied, Answered
<1>3. ASSUME NEW w \in Worker, NEW r \in Req, Read(w, r) PROVE Replied'
  BY SMTT(60), <1>3 DEF Read, TypeOK, Replied, Answered
<1>4. ASSUME UNCHANGED <<reqVars, post>>, cancelled' = cancelled \/ cancelled' PROVE Replied'
  BY SMTT(60), <1>4 DEF Replied, Answered
<1>5. \A w \in Worker : CheckClosing(w) \/ ReadNothing(w) \/ ReadFails(w) =>
         UNCHANGED <<reqVars, post, cancelled>>
  BY DEF CheckClosing, ReadNothing, ReadFails
<1>6. CloseChannel \/ MainStep \/ UNCHANGED vars =>
         UNCHANGED <<reqVars, post>> /\ (cancelled' = cancelled \/ cancelled')
  BY DEF CloseChannel, MainStep, Cancel, SetDeadline, Wait, CloseSockets, Abandon, CloseHooks,
         CloseStore, Exit, vars
<1> QED BY <1>1, <1>2, <1>3, <1>4, <1>5, <1>6 DEF Next, WorkerStep

LEMMA InitOK == Init => TypeOK /\ Pooled /\ Views /\ OwnConnID /\ Waited /\ Replied
<1> SUFFICES ASSUME Init PROVE TypeOK /\ Pooled /\ Views /\ OwnConnID /\ Waited /\ Replied
  OBVIOUS
<1>1. TypeOK
  BY Replies DEF Init, Started, TypeOK
<1>2. Pooled
  BY DEF Init, Started, Pooled
<1>3. Views
  BY DEF Init, Started, Views
<1>5. OwnConnID
  BY DEF Init, Started, OwnConnID
<1>4. Waited
  BY DEF Init, Started, Waited
<1>6. Replied
  BY DEF Init, Started, Replied, Answered
<1> QED BY <1>1, <1>2, <1>3, <1>4, <1>5, <1>6

\* The inductive invariant: types, the ownership of generators, the order of
\* Close, and when a handler answers.
THEOREM Inductive ==
    Spec => [](TypeOK /\ Pooled /\ Views /\ OwnConnID /\ Waited /\ Replied)
BY InitOK, TypeStep, PooledStep, ViewsStep, WaitedStep, RepliedStep, PTL DEF Spec

\* A connect request is answered with the ID made for it, although MakeID
\* returns a slice of a generator that handlers share through genPool.
THEOREM OwnConnIDCorrect == Spec => []OwnConnID
BY Inductive, PTL

\* When the sockets, the hooks and the store are closed, all workers and all
\* handlers have returned: f.wg counts every one of them.
THEOREM HandlersOutlivedCorrect == Spec => []HandlersOutlived
<1>1. Waited => HandlersOutlived
  BY DEF Waited, HandlersOutlived
<1> QED BY <1>1, Inductive, PTL

\* A request with a valid header whose handler has returned before the
\* shutdown was answered, and post-hooks run only for what was answered with a
\* response: every path through handleRequest ends in a write.
THEOREM AnsweredCorrect == Spec => []Answered
<1>1. Replied => Answered
  BY DEF Replied
<1> QED BY <1>1, Inductive, PTL

\* No path through handleRequest writes twice.
THEOREM AnsweredOnceCorrect == Spec => AnsweredOnce
<1>1. TypeOK /\ Replied /\ [Next]_vars =>
         [\A r \in Req : sent[r] # <<"nothing">> => sent'[r] = sent[r]]_vars
  <2> SUFFICES ASSUME TypeOK, Replied, Next, NEW r \in Req, sent[r] # <<"nothing">>
               PROVE  sent'[r] = sent[r]
    OBVIOUS
  <2>1. hpc[r] = "done"
    BY DEF Replied
  <2>2. ASSUME NEW q \in Req, HandlerStep(q) PROVE sent'[r] = sent[r]
    BY <2>1, <2>2, ReplyCases
  <2>3. ASSUME NEW w \in Worker, WorkerStep(w) \/ ReadFails(w) PROVE sent'[r] = sent[r]
    BY <2>3 DEF WorkerStep, CheckClosing, ReadNothing, Read, ReadFails
  <2>4. \A q \in Req : PostHooks(q) => sent'[r] = sent[r]
    BY DEF PostHooks
  <2>5. CloseChannel \/ MainStep => sent'[r] = sent[r]
    BY DEF CloseChannel, MainStep, Cancel, SetDeadline, Wait, CloseSockets, Abandon, CloseHooks,
           CloseStore, Exit
  <2> QED BY <2>2, <2>3, <2>4, <2>5 DEF Next
<1> QED BY <1>1, Inductive, PTL DEF Spec, AnsweredOnce

----------------------------------------------------------------------------
(* The connection IDs, for every width of the truncated timestamp and      *)
(* every behaviour of the clock.                                           *)

\* What Generate puts into an ID, and how a verdict came about.
Made ==
    /\ \A id \in ids : id.low = MadeAt(id) % Low /\ id.mac[1] = id.salt
    /\ last.seen => last.ok = Validate(last.id, last.ip, last.at)

LEMMA LowBits ==
    ASSUME NEW t \in Nat
    PROVE  t % Low \in 0 .. Low - 1 /\ High(t) \in Int /\ High(t) + (t % Low) = t
BY SMTT(60), ConnectionAssumption DEF High

LEMMA GenerateType ==
    ASSUME NEW salt \in Salt, NEW ip \in Addr, NEW t \in Nat
    PROVE  /\ Generate(salt, ip, t) \in ID
           /\ Generate(salt, ip, t).low = MadeAt(Generate(salt, ip, t)) % Low
           /\ Generate(salt, ip, t).mac[1] = Generate(salt, ip, t).salt
BY LowBits DEF Generate, ID, MadeAt

\* The type invariant, with the contents of the IDs, is inductive.
LEMMA IDStep ==
    ASSUME IDTypeOK, Made, [IDNext]_idVars
    PROVE  IDTypeOK' /\ Made'
<1>1. CASE Tick
  BY SMTT(60), <1>1 DEF Tick, IDTypeOK, Made
<1>2. CASE SetBack
  BY SMTT(60), <1>2 DEF SetBack, IDTypeOK, Made
<1>3. ASSUME NEW ip \in Addr, Connect(ip) PROVE IDTypeOK' /\ Made'
  BY SMTT(60), <1>3, GenerateType DEF Connect, IDTypeOK, Made
<1>4. ASSUME NEW ip \in Addr, Request(ip) PROVE IDTypeOK' /\ Made'
  <2>1. PICK id \in ids : last' = [seen |-> TRUE, id |-> id, ip |-> ip, at |-> now,
                                  ok |-> Validate(id, ip, now)]
    BY <1>4 DEF Request
  <2>2. Validate(id, ip, now) \in BOOLEAN
    BY DEF Validate
  <2> QED BY <1>4, <2>1, <2>2 DEF Request, IDTypeOK, Made
<1>5. CASE UNCHANGED idVars
  BY <1>5 DEF idVars, IDTypeOK, Made
<1> QED BY <1>1, <1>2, <1>3, <1>4, <1>5 DEF IDNext

LEMMA IDInitial == IDInit => IDTypeOK /\ Made
BY SMTT(60) DEF IDInit, IDTypeOK, Made

\* Every ID has the layout of Generate and every verdict is one of Validate.
THEOREM IDsCorrect == IDSpec => [](IDTypeOK /\ Made)
<1>1. (IDTypeOK /\ Made) /\ [IDNext]_idVars => (IDTypeOK /\ Made)'
  BY IDStep
<1> QED BY <1>1, IDInitial, PTL DEF IDSpec

\* No ID is accepted from another address, nor 2^16 seconds or more from the
\* second it was made in, however the clock is set (Validate's rebuilt ts).
THEOREM AcceptedBoundCorrect == IDSpec => []AcceptedBound
<1>1. IDTypeOK /\ Made => AcceptedBound
  <2> SUFFICES ASSUME IDTypeOK, Made, last.seen, last.ok
               PROVE  /\ last.ip = MadeFor(last.id)
                      /\ MadeAt(last.id) - Low < last.at
                      /\ last.at < MadeAt(last.id) + Low
    BY DEF AcceptedBound
  <2> DEFINE id == last.id
             g == MadeAt(id)
             t == last.at
  <2>1. id \in ID /\ t \in Nat /\ id.low = g % Low
    BY DEF IDTypeOK, Made
  <2>2. g \in Nat
    BY <2>1 DEF ID, MadeAt
  <2>3. id.mac = <<id.salt, High(t) + id.low, last.ip>>
    BY DEF Made, Validate
  <2>4. g = High(t) + id.low /\ MadeFor(id) = last.ip
    BY SMTT(60), <2>3 DEF MadeAt, MadeFor
  <2>5. t % Low \in 0 .. Low - 1 /\ High(t) \in Int /\ High(t) + (t % Low) = t
    BY <2>1, LowBits
  <2>6. g % Low \in 0 .. Low - 1
    BY <2>2, LowBits
  <2> QED BY SMTT(60), <2>1, <2>2, <2>4, <2>5, <2>6, ConnectionAssumption
<1> QED BY <1>1, IDsCorrect, PTL

\* An ID less than ttl old is accepted from its address as long as the clock's
\* high bits have not changed since Generate.
THEOREM FreshAcceptedCorrect == IDSpec => []FreshAcceptedInWindow
<1>1. IDTypeOK /\ Made => FreshAcceptedInWindow
  <2> DEFINE id == last.id
             g == MadeAt(id)
             t == last.at
  <2> SUFFICES ASSUME IDTypeOK, Made, last.seen, last.ip = MadeFor(id),
                      High(g) = High(t), g <= t, t < g + TTL
               PROVE  last.ok
    BY DEF FreshAcceptedInWindow
  <2>1. id \in ID /\ t \in Nat /\ id.low = g % Low /\ id.mac[1] = id.salt
    BY DEF IDTypeOK, Made
  <2>2. g \in Nat /\ id.mac = <<id.mac[1], id.mac[2], id.mac[3]>>
    BY SMTT(60), <2>1 DEF ID, MadeAt
  <2>3. High(t) + id.low = g
    BY <2>1, <2>2, LowBits
  <2>4. id.mac = <<id.salt, High(t) + id.low, last.ip>>
    BY <2>1, <2>2, <2>3 DEF MadeAt, MadeFor
  <2>5. ttl \in Nat /\ TTL <= ttl /\ maxClockSkew \in Nat /\ 0 < maxClockSkew
    BY SMTT(60), ConnectionAssumption DEF ttl, maxClockSkew
  <2>6. g - maxClockSkew < t /\ t < g + ttl + maxClockSkew
    <3> HIDE DEF g, t
    <3> QED BY SMTT(60), <2>1, <2>2, <2>5, ConnectionAssumption
  <2>7. Validate(id, last.ip, t)
    BY <2>3, <2>4, <2>6 DEF Validate
  <2> QED BY <2>7 DEF Made
<1> QED BY <1>1, IDsCorrect, PTL
====
