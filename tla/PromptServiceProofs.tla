------------------------ MODULE PromptServiceProofs ------------------------
(***************************************************************************)
(* The lifespan and the prompts, for any number of prompts, probes and     *)
(* connections.  Nothing here depends on fairness.                         *)
(***************************************************************************)
EXTENDS PromptService, SequenceTheorems, FiniteSetTheorems, TLAPS

(***************************************************************************)
(* The inductive invariant.  Shapes: the parts of TypeOK the steps need.   *)
(* Lifespan: what app.state holds and whether the executor is closed, by   *)
(* phase; the context is published whenever the executor is.  NoEarlyWork: *)
(* before the lifespan has begun, and after a start that failed, no prompt *)
(* was sent.  Drained: past "stopping", a server that drains has no prompt *)
(* in flight.                                                              *)
(***************************************************************************)
Shapes ==
    /\ drains \in BOOLEAN
    /\ phase \in Phases
    /\ context \in BOOLEAN /\ executor \in BOOLEAN /\ closed \in BOOLEAN
    /\ stage \in [Prompts -> Stages]
    /\ DOMAIN routing = Prompts /\ DOMAIN outcome = Prompts /\ DOMAIN answer = Prompts
    /\ DOMAIN probe = Probes

Lifespan ==
    /\ phase = "starting" => ~closed
    /\ phase \in {"starting", "stopped", "failed"} => ~context /\ ~executor
    /\ phase \in {"serving", "stopping"} => context /\ executor /\ ~closed
    /\ phase \in {"closing", "closed", "close_failed"} => closed
    /\ executor => context

NoEarlyWork ==
    phase \notin {"serving", "stopping"} /\ ~closed =>
        phase \in {"starting", "failed"} /\ \A p \in Prompts : stage[p] = "unsent"

Drained ==
    drains /\ phase \notin {"serving", "stopping"} =>
        \A p \in Prompts : stage[p] \in {"unsent", "answered", "cancelled"}

Unanswered == \A p \in Prompts : stage[p] # "answered" => answer[p] = None

IInv == Shapes /\ Lifespan /\ NoEarlyWork /\ Drained /\ Unanswered

LEMMA InitIInv == Init => IInv
BY DEF Init, IInv, Shapes, Phases, Stages, Lifespan, NoEarlyWork, Drained, Unanswered

\* The steps of the lifespan and of the probes leave the prompts alone.
LEMMA LifespanKeepsIInv ==
    ASSUME IInv, Start \/ Stop \/ Shutdown
    PROVE  IInv'
<1>1. CASE Start
    <2>1. closed = FALSE /\ (\A p \in Prompts : stage[p] = "unsent")
        BY <1>1 DEF Start, IInv, Shapes, Lifespan, NoEarlyWork
    <2>2. UNCHANGED handling /\ UNCHANGED <<drains, closed>> /\ UNCHANGED probe
        BY <1>1 DEF Start
    <2>3. CASE phase' = "serving" /\ context' = TRUE /\ executor' = TRUE
        BY <2>1, <2>2, <2>3 DEF handling, IInv, Shapes, Phases, Lifespan, NoEarlyWork,
                                Drained, Unanswered
    <2>4. CASE phase' = "failed" /\ UNCHANGED <<context, executor>>
        <3>1. ~context /\ ~executor
            BY <1>1 DEF Start, IInv, Lifespan
        <3> QED BY <2>1, <2>2, <2>4, <3>1 DEF handling, IInv, Shapes, Phases, Lifespan,
                                              NoEarlyWork, Drained, Unanswered
    <2> QED BY <1>1, <2>3, <2>4 DEF Start
<1>2. CASE Stop
    BY <1>2 DEF Stop, handling, IInv, Shapes, Phases, Lifespan, NoEarlyWork, Drained,
                Unanswered
<1>3. CASE CloseExecutor
    <2>1. drains =>
              \A p \in Prompts : stage[p] \in {"unsent", "answered", "cancelled"}
        BY <1>3 DEF CloseExecutor, InFlight
    <2> QED BY <1>3, <2>1 DEF CloseExecutor, handling, IInv, Shapes, Phases, Lifespan,
                              NoEarlyWork, Drained, Unanswered
<1>4. CASE CloseClient
    BY <1>4 DEF CloseClient, handling, IInv, Shapes, Phases, Lifespan, NoEarlyWork, Drained,
                Unanswered
<1>5. CASE Unpublish
    <2>1. UNCHANGED handling /\ UNCHANGED closed /\ UNCHANGED probe
        BY <1>5 DEF Unpublish
    <2>2. closed = TRUE
        BY <1>5 DEF Unpublish, IInv, Shapes, Lifespan
    <2>3. CASE executor /\ executor' = FALSE /\ UNCHANGED <<phase, context>>
        BY <1>5, <2>1, <2>2, <2>3 DEF Unpublish, handling, IInv, Shapes, Phases, Lifespan,
                                      NoEarlyWork, Drained, Unanswered
    <2>4. CASE /\ ~executor /\ context' = FALSE /\ UNCHANGED executor
               /\ phase' \in {"stopped", "failed"}
        BY <1>5, <2>1, <2>2, <2>4 DEF Unpublish, handling, IInv, Shapes, Phases, Lifespan,
                                      NoEarlyWork, Drained, Unanswered
    <2> QED BY <1>5, <2>3, <2>4 DEF Unpublish
<1> QED BY <1>1, <1>2, <1>3, <1>4, <1>5 DEF Shutdown

\* A step of a prompt takes it, and no other, from a stage to a stage, and answers
\* it if and only if it ends it.
Moves(p, from, to) ==
    /\ stage[p] \in from
    /\ \E s \in to : stage' = [stage EXCEPT ![p] = s]
    /\ \/ UNCHANGED answer /\ stage'[p] # "answered"
       \/ stage'[p] = "answered" /\ \E a : answer' = [answer EXCEPT ![p] = a]
    /\ UNCHANGED lifespan
    /\ DOMAIN routing' = DOMAIN routing /\ DOMAIN outcome' = DOMAIN outcome
    /\ UNCHANGED probe

Working == {"sent", "has_context", "ready", "waiting", "calling"}

LEMMA WorkKeepsIInv ==
    ASSUME IInv, NEW p \in Prompts, Moves(p, Working, Stages \ {"unsent"})
    PROVE  IInv'
<1>1. Shapes'
    BY DEF IInv, Shapes, Moves, lifespan, Stages
<1>2. \A q \in Prompts \ {p} : stage'[q] = stage[q] /\ answer'[q] = answer[q]
    BY DEF IInv, Shapes, Moves
<1>3. stage[p] \in Working
    BY DEF Moves
<1>4. Lifespan'
    BY DEF IInv, Lifespan, Moves, lifespan
<1>5. NoEarlyWork'
    BY <1>3 DEF IInv, NoEarlyWork, Moves, lifespan, Working
<1>6. Drained'
    BY <1>3 DEF IInv, Drained, Moves, lifespan, Working
<1>7. Unanswered'
    BY <1>2, <1>3 DEF IInv, Unanswered, Moves, Working
<1> QED BY <1>1, <1>4, <1>5, <1>6, <1>7 DEF IInv

LEMMA SendKeepsIInv ==
    ASSUME IInv, NEW p \in Prompts, Send(p)
    PROVE  IInv'
<1>1. phase \notin {"starting", "stopped", "failed"}
    BY DEF Send, Accepting
<1>2. drains => phase = "serving"
    BY DEF Send, Accepting
<1> QED BY <1>1, <1>2 DEF Send, lifespan, IInv, Shapes, Stages, Lifespan, NoEarlyWork,
                          Drained, Unanswered

\* What becomes of a prompt that is handled.
LEMMA HandleCases ==
    ASSUME NEW p \in Prompts, Handle(p)
    PROVE  \E r \in Routings :
               /\ routing' = [routing EXCEPT ![p] = r]
               /\ \/ /\ Routable(r) /\ ~closed
                     /\ stage' = [stage EXCEPT ![p] = "calling"]
                     /\ Cardinality(Calling) < MaxConnections
                     /\ UNCHANGED <<answer, waiting>>
                  \/ /\ Routable(r) /\ ~closed
                     /\ stage' = [stage EXCEPT ![p] = "waiting"]
                     /\ waiting' = Append(waiting, p)
                     /\ UNCHANGED answer
                  \/ /\ Routable(r) /\ closed
                     /\ Respond(p, PublicError(500, "INTERNAL_ERROR")) /\ UNCHANGED waiting
                  \/ /\ ~Routable(r)
                     /\ Respond(p, r) /\ UNCHANGED waiting
<1>1. PICK r \in Routings :
          /\ routing' = [routing EXCEPT ![p] = r]
          /\ IF Routable(r) /\ ~closed
             THEN AskForConnection(p)
             ELSE /\ Respond(p, IF Routable(r) THEN PublicError(500, "INTERNAL_ERROR")
                                               ELSE r)
                  /\ UNCHANGED waiting
    BY Zenon DEF Handle
<1>2. CASE Routable(r) /\ ~closed
    BY <1>1, <1>2 DEF AskForConnection
<1>3. CASE Routable(r) /\ closed
    BY <1>1, <1>3
<1>4. CASE ~Routable(r)
    BY <1>1, <1>4
<1> QED BY <1>2, <1>3, <1>4

\* Every step of a prompt after it was sent is such a move.
LEMMA StepsMove ==
    ASSUME IInv, NEW p \in Prompts, Progress(p) \/ Cancel(p)
    PROVE  Moves(p, Working, Stages \ {"unsent"})
<1> USE DEF Moves, Working, Stages, IInv, Shapes, lifespan
<1>1. CASE ReadContext(p)
    BY <1>1 DEF ReadContext, Respond
<1>2. CASE ReadExecutor(p)
    BY <1>2 DEF ReadExecutor, Respond
<1>3. CASE Handle(p)
    <2>1. PICK r \in Routings :
              /\ routing' = [routing EXCEPT ![p] = r]
              /\ \/ /\ \E s \in {"waiting", "calling"} : stage' = [stage EXCEPT ![p] = s]
                    /\ UNCHANGED answer
                 \/ \E a : Respond(p, a)
        BY <1>3, HandleCases
    <2>2. stage[p] = "ready" /\ UNCHANGED <<lifespan, outcome, probe>>
        BY <1>3 DEF Handle
    <2>3. CASE \E a : Respond(p, a)
        BY <2>1, <2>2, <2>3 DEF Respond
    <2>4. CASE /\ \E s \in {"waiting", "calling"} : stage' = [stage EXCEPT ![p] = s]
               /\ UNCHANGED answer
        BY <2>1, <2>2, <2>4
    <2> QED BY <2>1, <2>3, <2>4
<1>4. CASE Connect(p)
    BY <1>4 DEF Connect
<1>5. CASE Expire(p)
    BY <1>5 DEF Expire, Settle, Respond
<1>6. CASE Finish(p)
    BY <1>6 DEF Finish, Settle, Respond
<1>7. CASE Cancel(p)
    BY <1>7 DEF Cancel
<1> QED BY <1>1, <1>2, <1>3, <1>4, <1>5, <1>6, <1>7 DEF Progress

LEMMA ProbesKeepIInv ==
    ASSUME IInv, NEW b \in Probes, SendProbe(b) \/ ProbeProgress(b)
    PROVE  IInv'
<1>1. UNCHANGED <<lifespan, handling>> /\ DOMAIN probe' = DOMAIN probe
    BY DEF SendProbe, ProbeProgress, ProbeContext, ProbeExecutor
<1> QED BY <1>1 DEF lifespan, handling, IInv, Shapes, Lifespan, NoEarlyWork, Drained,
                    Unanswered

LEMMA StepIInv == IInv /\ [Next]_vars => IInv'
<1> SUFFICES ASSUME IInv, [Next]_vars PROVE IInv'
    OBVIOUS
<1>1. CASE Start \/ Stop \/ Shutdown
    BY <1>1, LifespanKeepsIInv
<1>2. ASSUME NEW p \in Prompts, Send(p) PROVE IInv'
    BY <1>2, SendKeepsIInv
<1>3. ASSUME NEW p \in Prompts, Progress(p) \/ Cancel(p) PROVE IInv'
    BY <1>3, StepsMove, WorkKeepsIInv
<1>4. ASSUME NEW b \in Probes, SendProbe(b) \/ ProbeProgress(b) PROVE IInv'
    BY <1>4, ProbesKeepIInv
<1>5. CASE UNCHANGED vars
    BY <1>5 DEF vars, lifespan, handling, IInv, Shapes, Lifespan, NoEarlyWork, Drained,
                Unanswered
<1> QED BY <1>1, <1>2, <1>3, <1>4, <1>5 DEF Next

\* The application stays in the server it was mounted in.
LEMMA SameServer == [Next]_vars => drains' = drains
BY DEF Next, vars, lifespan, Start, Stop, Shutdown, CloseExecutor, CloseClient, Unpublish,
       Send, Progress, ReadContext, ReadExecutor, Handle, Connect, Expire, Finish, Cancel,
       SendProbe, ProbeProgress, ProbeContext, ProbeExecutor

\* Nothing but a handler decides on a route, a call or an answer.
LEMMA OnlyHandlersAnswer ==
    ASSUME [Next]_vars
    PROVE  \/ UNCHANGED <<routing, outcome, answer>>
           \/ \E p \in Prompts : Progress(p) \/ Cancel(p)
<1>1. CASE Start \/ Stop \/ Shutdown
    BY <1>1 DEF handling, Start, Stop, Shutdown, CloseExecutor, CloseClient, Unpublish
<1>2. ASSUME NEW p \in Prompts, Send(p) PROVE UNCHANGED <<routing, outcome, answer>>
    BY <1>2 DEF Send
<1>3. ASSUME NEW b \in Probes, SendProbe(b) \/ ProbeProgress(b)
      PROVE  UNCHANGED <<routing, outcome, answer>>
    BY <1>3 DEF handling, SendProbe, ProbeProgress, ProbeContext, ProbeExecutor
<1>4. CASE UNCHANGED vars
    BY <1>4 DEF vars, handling
<1> QED BY <1>1, <1>2, <1>3, <1>4 DEF Next

LEMMA Invariance == Spec => []IInv
BY InitIInv, StepIInv, PTL DEF Spec

(***************************************************************************)
(* When the lifespan is over nothing is left on app.state, even when       *)
(* closing the client has raised (app.py:41-47).                           *)
(***************************************************************************)
THEOREM LeavesNothing == Spec => []NothingLeftPublished
<1>1. IInv => NothingLeftPublished
    BY DEF IInv, Lifespan, NothingLeftPublished
<1> QED BY <1>1, Invariance, PTL

(***************************************************************************)
(* Probes and prompts are let through only at moments the context and the  *)
(* executor are both published: the executor is there only while the       *)
(* context is, and it is read last (dependencies.py:9-43, app.py:46-47).   *)
(***************************************************************************)
THEOREM UsedWhilePublished == Spec => PublishedWhenUsed
<1>1. IInv /\ [Next]_vars => [UsesPublished]_vars
    <2> SUFFICES ASSUME IInv, Next PROVE UsesPublished
        BY DEF vars
    <2>1. executor => context
        BY DEF IInv, Lifespan
    <2>2. ASSUME NEW b \in Probes, probe[b] # "ready", probe'[b] = "ready"
          PROVE  executor
        <3>1. PICK c \in Probes : SendProbe(c) \/ ProbeProgress(c)
            BY <2>2 DEF Next, Start, Stop, Shutdown, CloseExecutor, CloseClient, Unpublish,
                        Send, Progress, ReadContext, ReadExecutor, Handle, Connect, Expire,
                        Finish, Cancel
        <3> QED BY <2>2, <3>1 DEF SendProbe, ProbeProgress, ProbeContext, ProbeExecutor, IInv,
                                  Shapes
    <2>3. ASSUME NEW p \in Prompts, stage[p] # "ready", stage'[p] = "ready"
          PROVE  executor
        <3>1. PICK q \in Prompts : Send(q) \/ Progress(q) \/ Cancel(q)
            BY <2>3 DEF Next, Start, Stop, Shutdown, CloseExecutor, CloseClient, Unpublish,
                        SendProbe, ProbeProgress, ProbeContext, ProbeExecutor, handling
        <3>2. CASE ReadExecutor(q)
            BY <2>3, <3>2 DEF ReadExecutor, Respond, IInv, Shapes
        <3>3. CASE Send(q) \/ ReadContext(q) \/ Handle(q) \/ Connect(q) \/ Expire(q)
                   \/ Finish(q) \/ Cancel(q)
            BY <2>3, <3>3 DEF Send, ReadContext, Handle, AskForConnection, Connect, Expire,
                              Finish, Settle, Respond, Cancel, IInv, Shapes
        <3> QED BY <3>1, <3>2, <3>3 DEF Progress
    <2> QED BY <2>1, <2>2, <2>3 DEF UsesPublished
<1> QED BY <1>1, Invariance, PTL DEF Spec, PublishedWhenUsed

(***************************************************************************)
(* No prompt is handed to the client once its aclose is under way: the     *)
(* executor is marked closed before the await (executor.py:109-119,        *)
(* 291-296).                                                               *)
(***************************************************************************)
THEOREM NothingQueuedOnceClosing == Spec => NoCallOnceClosing
<1>1. IInv /\ [Next]_vars => [HandsOverBeforeClosing]_vars
    <2> SUFFICES ASSUME IInv, Next, phase \notin {"serving", "stopping"}, NEW p \in Prompts,
                        stage[p] \notin {"waiting", "calling"},
                        stage'[p] \in {"waiting", "calling"}
                 PROVE  FALSE
        BY DEF HandsOverBeforeClosing, WithClient
    <2>1. PICK q \in Prompts : Send(q) \/ Progress(q) \/ Cancel(q)
        BY DEF Next, Start, Stop, Shutdown, CloseExecutor, CloseClient, Unpublish,
               SendProbe, ProbeProgress, ProbeContext, ProbeExecutor, handling
    <2>2. CASE Handle(q)
        <3>1. stage[q] = "ready" /\ (closed => stage'[q] = "answered")
            BY <2>2 DEF Handle, Respond, IInv, Shapes
        <3>2. p = q
            BY <2>2 DEF Handle, AskForConnection, Respond, IInv, Shapes
        <3> QED BY <3>1, <3>2 DEF IInv, NoEarlyWork
    <2>3. CASE Send(q) \/ ReadContext(q) \/ ReadExecutor(q) \/ Connect(q) \/ Expire(q)
               \/ Finish(q) \/ Cancel(q)
        BY <2>3 DEF Send, ReadContext, ReadExecutor, Connect, Expire, Finish, Settle,
                    Respond, Cancel, IInv, Shapes
    <2> QED BY <2>1, <2>2, <2>3 DEF Progress
<1> QED BY <1>1, Invariance, PTL DEF Spec, NoCallOnceClosing

(***************************************************************************)
(* Under a server that drains, no client is answered 500 because of a      *)
(* shutdown (app.py:41-47, executor.py:109).                               *)
(***************************************************************************)
THEOREM DrainedShutdownIsInvisible == Spec => []ShutdownIsInvisible
<1>1. Init => ShutdownIsInvisible
    BY DEF Init, ShutdownIsInvisible
<1>2. IInv /\ ShutdownIsInvisible /\ [Next]_vars => ShutdownIsInvisible'
    <2> SUFFICES ASSUME IInv, ShutdownIsInvisible, [Next]_vars PROVE ShutdownIsInvisible'
        OBVIOUS
    <2>0. drains \in BOOLEAN /\ drains' = drains
        BY SameServer DEF IInv, Shapes
    <2> SUFFICES ASSUME drains, NEW p \in Prompts, answer'[p] # None, answer'[p].status = 500
                 PROVE  outcome'[p] # None \/ routing'[p] = PublicError(500, "INTERNAL_ERROR")
        BY <2>0 DEF ShutdownIsInvisible
    <2>1. CASE answer'[p] = answer[p] /\ outcome'[p] = outcome[p] /\ routing'[p] = routing[p]
        BY <2>1 DEF ShutdownIsInvisible
    <2>2. CASE UNCHANGED <<routing, outcome, answer>>
        BY <2>1, <2>2
    <2>3. ASSUME NEW q \in Prompts, Progress(q) \/ Cancel(q), q # p
          PROVE  answer'[p] = answer[p] /\ outcome'[p] = outcome[p] /\ routing'[p] = routing[p]
        BY <2>3 DEF Progress, ReadContext, ReadExecutor, Handle, AskForConnection, Connect,
                    Expire, Finish, Settle, Respond, Cancel, IInv, Shapes
    <2>4. ASSUME Progress(p) \/ Cancel(p)
          PROVE  outcome'[p] # None \/ routing'[p] = PublicError(500, "INTERNAL_ERROR")
        <3>1. stage[p] \in Working /\ answer[p] = None
            BY <2>4, StepsMove DEF Moves, Working, IInv, Unanswered
        <3>2. context /\ executor /\ ~closed
            BY <3>1 DEF Working, IInv, Drained, Lifespan
        <3>3. CASE ReadContext(p) \/ ReadExecutor(p) \/ Connect(p) \/ Cancel(p)
            BY <3>1, <3>2, <3>3 DEF ReadContext, ReadExecutor, Connect, Cancel
        <3>4. CASE Handle(p)
            <4>1. PICK r \in Routings :
                      /\ routing' = [routing EXCEPT ![p] = r]
                      /\ ~Routable(r) => Respond(p, r)
                      /\ Routable(r) => UNCHANGED answer
                BY <3>2, <3>4, HandleCases
            <4>2. ~Routable(r) /\ answer'[p] = r
                BY <3>1, <4>1 DEF Respond, IInv, Shapes
            <4>3. r \in RoutingErrors
                BY <4>2 DEF Routings, Routable
            <4>4. r = PublicError(500, "INTERNAL_ERROR")
                BY <4>2, <4>3 DEF RoutingErrors, PublicError
            <4> QED BY <4>1, <4>4 DEF IInv, Shapes
        <3>5. CASE Expire(p) \/ Finish(p)
            BY <3>5, NoneAssumption DEF Expire, Finish, Settle, IInv, Shapes
        <3> QED BY <2>4, <3>3, <3>4, <3>5 DEF Progress
    <2>5. \/ UNCHANGED <<routing, outcome, answer>>
          \/ \E q \in Prompts : Progress(q) \/ Cancel(q)
        BY OnlyHandlersAnswer
    <2>6. ASSUME NEW q \in Prompts, Progress(q) \/ Cancel(q)
          PROVE  outcome'[p] # None \/ routing'[p] = PublicError(500, "INTERNAL_ERROR")
        BY <2>1, <2>3, <2>4, <2>6
    <2> QED BY <2>2, <2>5, <2>6
<1> QED BY <1>1, <1>2, Invariance, PTL DEF Spec

-----------------------------------------------------------------------------
(* Success                                                                 *)

\* A public error is no success.
LEMMA ErrorIsNoSuccess == \A code : PublicOllamaError(code) # Success
BY DEF PublicOllamaError, PublicError, Success

\* What a reply is that fails no test.
LEMMA PassedTests ==
    ASSUME NEW o, NEW model, FailedTests(o, model) = {}
    PROVE  /\ o.http # "failure" /\ o.body # "not_json" /\ o.body # "other"
           /\ o.model = model /\ o.message = "assistant"
           /\ o.content # "invalid" /\ o.content # "blank"
           /\ o.done # "invalid" /\ o.done # "false"
           /\ o.count # "invalid" /\ o.duration # "invalid"
<1> DEFINE tests == ReplyTests(o, model)
<1>1. \A i \in 1..12 : ~tests[i].fails
    BY DEF FailedTests
<1> HIDE DEF tests
<1>2. /\ ~tests[1].fails /\ ~tests[2].fails /\ ~tests[3].fails /\ ~tests[5].fails
      /\ ~tests[6].fails /\ ~tests[7].fails /\ ~tests[8].fails /\ ~tests[9].fails
      /\ ~tests[10].fails /\ ~tests[11].fails /\ ~tests[12].fails
    BY <1>1
<1> QED BY <1>2 DEF tests, ReplyTests, WrongModel

\* The handler makes a success of nothing but a genuine reply of the model.
LEMMA OnlyGenuineSucceeds ==
    ASSUME NEW o \in Outcomes \cup {Thrown("PoolTimeout")}, NEW model,
           ModelAnswer(o, model) = Success
    PROVE  Genuine(o, model)
<1>1. ~IsThrown(o)
    BY ErrorIsNoSuccess DEF ModelAnswer, PublicError, Success
<1>2. IsReply(o)
    BY <1>1, RepliesAssumption DEF Outcomes, IsThrown, Thrown
<1>3. FailedTests(o, model) = {} /\ o.count # "huge" /\ o.duration # "huge"
    BY <1>1, ErrorIsNoSuccess DEF ModelAnswer, HugeMetrics, PublicError, Success
<1> QED BY <1>2, <1>3, PassedTests DEF IsReply, Genuine

\* A prompt is queued and asks Ollama only with a plan.
Planned == \A p \in Prompts : stage[p] \in {"waiting", "calling"} => Routable(routing[p])

(***************************************************************************)
(* Only a complete answer of the planned model is ever returned as a       *)
(* success (executor.py:159-265, routes.py:223-236).                       *)
(***************************************************************************)
THEOREM SuccessOnlyIfGenuine == Spec => []SuccessIsGenuine
<1> DEFINE I == Planned /\ SuccessIsGenuine
<1>1. Init => I
    BY NoneAssumption DEF Answers, Init, Planned, SuccessIsGenuine
<1>2. IInv /\ I /\ [Next]_vars => I'
    <2> SUFFICES ASSUME IInv, I, [Next]_vars PROVE I'
        OBVIOUS
    <2> DEFINE Good(p) == /\ stage[p] \in {"waiting", "calling"} => Routable(routing[p])
                          /\ answer[p] = Success =>
                                 /\ Routable(routing[p]) /\ outcome[p] # None
                                 /\ Genuine(outcome[p], routing[p].model)
    <2>1. \A p \in Prompts : Good(p)
        BY DEF Planned, SuccessIsGenuine
    <2>2. ASSUME NEW p \in Prompts,
                 UNCHANGED <<stage[p], routing[p], outcome[p], answer[p]>>
          PROVE  Good(p)'
        BY <2>1, <2>2
    <2>3. ASSUME NEW p \in Prompts, Send(p)
          PROVE  \A q \in Prompts : Good(q)'
        BY <2>1, <2>3 DEF Send, IInv, Shapes
    <2>4. ASSUME NEW p \in Prompts, Progress(p) \/ Cancel(p)
          PROVE  \A q \in Prompts : Good(q)'
        <3>1. \A q \in Prompts \ {p} :
                  UNCHANGED <<stage[q], routing[q], outcome[q], answer[q]>>
            BY <2>4 DEF Progress, ReadContext, ReadExecutor, Handle, AskForConnection, Connect,
                        Expire, Finish, Settle, Respond, Cancel, IInv, Shapes
        <3>2. answer[p] # Success
            BY <2>4, StepsMove, NoneAssumption DEF Answers, Moves, Working, IInv, Unanswered
        <3>3. Good(p)'
            <4>1. CASE ReadContext(p) \/ ReadExecutor(p) \/ Connect(p) \/ Cancel(p)
                <5>1. stage'[p] \in {"waiting", "calling"} =>
                          stage[p] = "waiting" /\ UNCHANGED routing
                    BY <4>1 DEF ReadContext, ReadExecutor, Connect, Cancel, Respond, IInv,
                                Shapes
                <5>2. answer'[p] # Success
                    BY <3>2, <4>1 DEF ReadContext, ReadExecutor, Connect, Cancel, Respond,
                                      PlainError, Success, IInv, Shapes
                <5> QED BY <2>1, <5>1, <5>2
            <4>2. CASE Handle(p)
                <5>1. PICK r \in Routings :
                          /\ routing' = [routing EXCEPT ![p] = r]
                          /\ IF Routable(r) /\ ~closed
                             THEN UNCHANGED answer
                             ELSE Respond(p, IF Routable(r)
                                             THEN PublicError(500, "INTERNAL_ERROR") ELSE r)
                    BY <4>2, HandleCases
                <5>2. r # Success \/ Routable(r)
                    BY DEF Routings, RoutingErrors, PublicError, Success, Routable
                <5>3. CASE Routable(r) /\ ~closed
                    BY <3>2, <5>1, <5>3 DEF IInv, Shapes
                <5>4. CASE Routable(r) /\ closed
                    BY <5>1, <5>4 DEF Respond, PublicError, Success, IInv, Shapes
                <5>5. CASE ~Routable(r)
                    <6>1. Respond(p, r)
                        BY <5>1, <5>5
                    <6>2. stage'[p] = "answered" /\ answer'[p] = r
                        BY <6>1 DEF Respond, IInv, Shapes
                    <6> QED BY <5>2, <5>5, <6>2
                <5> QED BY <5>3, <5>4, <5>5
            <4>3. CASE Expire(p) \/ Finish(p)
                <5>1. Routable(routing[p])
                    BY <2>1, <4>3 DEF Expire, Finish
                <5>2. PICK o \in Outcomes \cup {Thrown("PoolTimeout")} : Settle(p, o)
                    BY <4>3 DEF Expire, Finish
                <5>3. /\ outcome'[p] = o /\ routing'[p] = routing[p]
                      /\ answer'[p] = ModelAnswer(o, routing[p].model)
                      /\ stage'[p] = "answered"
                    BY <5>2 DEF Settle, Respond, IInv, Shapes
                <5>4. answer'[p] = Success => Genuine(o, routing[p].model)
                    BY <5>3, OnlyGenuineSucceeds
                <5> QED BY <5>1, <5>3, <5>4, NoneAssumption
            <4> QED BY <2>4, <4>1, <4>2, <4>3 DEF Progress
        <3> QED BY <2>2, <3>1, <3>3
    <2>5. ASSUME UNCHANGED <<stage, routing, outcome, answer>>
          PROVE  \A p \in Prompts : Good(p)'
        BY <2>2, <2>5
    <2>6. \A p \in Prompts : Good(p)'
        BY <2>3, <2>4, <2>5
           DEF Next, vars, handling, Start, Stop, Shutdown, CloseExecutor, CloseClient,
               Unpublish, SendProbe, ProbeProgress, ProbeContext, ProbeExecutor
    <2> QED BY <2>6 DEF Planned, SuccessIsGenuine
<1>3. I => SuccessIsGenuine
    OBVIOUS
<1> QED BY <1>1, <1>2, <1>3, Invariance, PTL DEF Spec

-----------------------------------------------------------------------------
(* The contract                                                            *)

Accepted == {"sent", "has_context", "ready", "waiting"}

\* Where a prompt is, to its client.
LEMMA ToldAt ==
    ASSUME NEW p \in Prompts
    PROVE  /\ stage[p] = "unsent" => Told[p] = "unsent"
           /\ stage[p] \in Accepted => Told[p] = "accepted"
           /\ stage[p] = "calling" => Told[p] = "asked"
           /\ stage[p] = "answered" => Told[p] = "answered"
           /\ stage[p] = "cancelled" => Told[p] = "abandoned"
           /\ Told[p] = "asked" => stage[p] = "calling"
<1>1. stage[p] = "unsent" => Told[p] = "unsent"
    BY DEF Told
<1>2. stage[p] \in Accepted => Told[p] = "accepted"
    BY DEF Told, Accepted
<1>3. stage[p] = "calling" => Told[p] = "asked"
    BY DEF Told
<1>4. /\ stage[p] = "answered" => Told[p] = "answered"
      /\ stage[p] = "cancelled" => Told[p] = "abandoned"
    BY DEF Told
<1>5. Told[p] = "asked" => stage[p] = "calling"
    BY DEF Told
<1> QED BY <1>1, <1>2, <1>3, <1>4, <1>5

\* The statuses the handler makes of a call; success is never made of a call that
\* found no connection.
LEMMA StatusOfCall ==
    ASSUME NEW o, NEW model
    PROVE  /\ ModelAnswer(o, model).status \in {200, 500, 502, 503, 504}
           /\ IsThrown(o) => ModelAnswer(o, model).status # 200
<1>1. \A code : PublicOllamaError(code).status \in {500, 502, 503, 504}
    BY DEF PublicOllamaError, PublicError
<1>2. CASE IsThrown(o)
    BY <1>1, <1>2 DEF ModelAnswer, PublicError
<1>3. CASE ~IsThrown(o)
    BY <1>1, <1>3 DEF ModelAnswer, PublicError, Success
<1> QED BY <1>2, <1>3
\* What a client was told follows from its prompt alone.
LEMMA OfItsPrompt ==
    /\ \A q \in Prompts : UNCHANGED <<stage[q], answer[q]>> =>
           Told'[q] = Told[q] /\ StatusTold'[q] = StatusTold[q]
    /\ Told = [q \in Prompts |-> Told[q]]
    /\ StatusTold = [q \in Prompts |-> StatusTold[q]]
    /\ Told' = [q \in Prompts |-> Told'[q]]
    /\ StatusTold' = [q \in Prompts |-> StatusTold'[q]]
<1>1. ASSUME NEW q \in Prompts, UNCHANGED <<stage[q], answer[q]>>
      PROVE  Told'[q] = Told[q] /\ StatusTold'[q] = StatusTold[q]
    <2>1. Told'[q] = Told[q]
        BY <1>1 DEF Told
    <2> QED BY <1>1, <2>1 DEF StatusTold
<1>2. Told = [q \in Prompts |-> Told[q]] /\ Told' = [q \in Prompts |-> Told'[q]]
    BY DEF Told
<1>3. /\ StatusTold = [q \in Prompts |-> StatusTold[q]]
      /\ StatusTold' = [q \in Prompts |-> StatusTold'[q]]
    BY DEF StatusTold
<1> QED BY <1>1, <1>2, <1>3

\* On its way to the executor a prompt is one the contract has accepted.
LEMMA StaysAccepted ==
    ASSUME IInv, NEW p \in Prompts, stage[p] \in Accepted, NEW s \in Accepted,
           stage' = [stage EXCEPT ![p] = s], UNCHANGED <<drains, answer>>
    PROVE  UNCHANGED <<drains, Told, StatusTold>>
<1>1. stage'[p] = s /\ s \in Stages
    BY DEF IInv, Shapes, Accepted, Stages
<1>2. Told'[p] = Told[p] /\ StatusTold'[p] = StatusTold[p]
    <2>1. Told[p] = "accepted" /\ Told'[p] = "accepted"
        <3>1. Told[p] = "accepted"
            BY ToldAt
        <3>2. stage'[p] \in Accepted
            BY <1>1
        <3>3. Told'[p] = "accepted"
            BY <3>2 DEF Told, Accepted
        <3> QED BY <3>1, <3>3
    <2> QED BY <1>1, <2>1 DEF StatusTold, Accepted
<1>3. \A q \in Prompts \ {p} : UNCHANGED <<stage[q], answer[q]>>
    BY DEF IInv, Shapes
<1> QED BY <1>2, <1>3, OfItsPrompt

\* A prompt that is answered is answered as the contract allows, if the status is one
\* of the contract's and is 200 only after a call.
LEMMA AnswersByContract ==
    ASSUME IInv, NEW p \in Prompts, stage[p] \in Working, NEW a, Respond(p, a),
           UNCHANGED drains, a.status \in {200, 409, 422, 500, 502, 503, 504},
           a.status = 200 => stage[p] = "calling"
    PROVE  Contract!Answer(p)
<1>1. stage'[p] = "answered" /\ answer'[p] = a
    BY DEF Respond, IInv, Shapes
<1>2. Told[p] \in {"accepted", "asked"} /\ (a.status = 200 => Told[p] = "asked")
    BY ToldAt DEF Working, Accepted
<1>3. Told'[p] = "answered" /\ StatusTold'[p] = a.status
    <2>1. Told'[p] = "answered"
        BY <1>1 DEF Told
    <2> QED BY <1>1, <2>1 DEF StatusTold
<1>4. \A q \in Prompts \ {p} : UNCHANGED <<stage[q], answer[q]>>
    BY DEF Respond, IInv, Shapes
<1>5. /\ Told' = [Told EXCEPT ![p] = "answered"]
      /\ StatusTold' = [StatusTold EXCEPT ![p] = a.status]
    BY <1>3, <1>4, OfItsPrompt
<1>6. Contract!AnswerWith(p, a.status)
    BY <1>2, <1>5 DEF Contract!AnswerWith
<1> QED BY <1>6 DEF Contract!Answer

LEMMA SendAccepts ==
    ASSUME IInv, NEW p \in Prompts, Send(p)
    PROVE  Contract!Accept(p)
<1>1. stage[p] = "unsent" /\ stage'[p] = "sent" /\ UNCHANGED <<drains, answer>>
    BY DEF Send, lifespan, IInv, Shapes
<1>2. Told[p] = "unsent" /\ Told'[p] = "accepted"
    <2>1. Told[p] = "unsent"
        BY <1>1, ToldAt
    <2>2. Told'[p] = "accepted"
        BY <1>1 DEF Told
    <2> QED BY <2>1, <2>2
<1>3. StatusTold'[p] = StatusTold[p]
    BY <1>1 DEF StatusTold
<1>4. \A q \in Prompts \ {p} : UNCHANGED <<stage[q], answer[q]>>
    BY DEF Send, IInv, Shapes
<1>5. Told' = [Told EXCEPT ![p] = "accepted"] /\ StatusTold' = StatusTold
    BY <1>2, <1>3, <1>4, OfItsPrompt
<1> QED BY <1>1, <1>2, <1>5 DEF Contract!Accept

\* A connection is given only within the limit the contract states, at once or
\* after a wait.
LEMMA ConnectionAsks ==
    ASSUME IInv, NEW p \in Prompts, stage[p] \in {"ready", "waiting"},
           stage' = [stage EXCEPT ![p] = "calling"], UNCHANGED <<drains, answer>>,
           Cardinality(Calling) < MaxConnections
    PROVE  Contract!Ask(p)
<1>1. stage'[p] = "calling"
    BY DEF IInv, Shapes
<1>2. Told[p] = "accepted" /\ Told'[p] = "asked"
    <2>1. Told[p] = "accepted"
        BY <1>1, ToldAt DEF Accepted
    <2>2. Told'[p] = "asked"
        BY <1>1 DEF Told
    <2> QED BY <2>1, <2>2
<1>3. StatusTold'[p] = StatusTold[p]
    BY <1>1 DEF StatusTold
<1>4. \A q \in Prompts \ {p} : UNCHANGED <<stage[q], answer[q]>>
    BY DEF IInv, Shapes
<1>5. Told' = [Told EXCEPT ![p] = "asked"] /\ StatusTold' = StatusTold
    BY <1>2, <1>3, <1>4, OfItsPrompt
<1>6. Contract!Asked = Calling
    BY ToldAt DEF Contract!Asked, Calling
<1>7. Cardinality(Contract!Asked) < MaxConnections
    BY <1>6
<1> QED BY <1>2, <1>5, <1>7 DEF Contract!Ask, Contract!Cardinality, Cardinality

\* Every other step of a prompt is a stutter of the contract, or an answer.
LEMMA ProgressByContract ==
    ASSUME IInv, NEW p \in Prompts, Progress(p)
    PROVE  UNCHANGED <<drains, Told, StatusTold>> \/ Contract!Ask(p) \/ Contract!Answer(p)
<1>0. UNCHANGED drains
    BY StepsMove DEF Moves, lifespan
<1>1. CASE ReadContext(p) \/ ReadExecutor(p)
    <2>1. stage[p] \in Accepted /\ stage[p] \in Working
        BY <1>1 DEF ReadContext, ReadExecutor, Accepted, Working
    <2>2. CASE Respond(p, PlainError)
        BY <1>0, <2>1, <2>2, AnswersByContract DEF PlainError
    <2>3. CASE ~Respond(p, PlainError)
        <3>1. /\ \E s \in Accepted : stage' = [stage EXCEPT ![p] = s]
              /\ UNCHANGED answer
            BY <1>1, <2>3 DEF ReadContext, ReadExecutor, Accepted
        <3> QED BY <1>0, <2>1, <3>1, StaysAccepted
    <2> QED BY <2>2, <2>3
<1>2. CASE Handle(p)
    <2>1. stage[p] = "ready" /\ stage[p] \in Accepted /\ stage[p] \in Working
        BY <1>2 DEF Handle, Accepted, Working
    <2>2. PICK r \in Routings :
              \/ /\ stage' = [stage EXCEPT ![p] = "calling"]
                 /\ Cardinality(Calling) < MaxConnections /\ UNCHANGED answer
              \/ stage' = [stage EXCEPT ![p] = "waiting"] /\ UNCHANGED answer
              \/ Respond(p, PublicError(500, "INTERNAL_ERROR"))
              \/ ~Routable(r) /\ Respond(p, r)
        BY <1>2, HandleCases
    <2>3. CASE /\ stage' = [stage EXCEPT ![p] = "calling"]
               /\ Cardinality(Calling) < MaxConnections /\ UNCHANGED answer
        BY <1>0, <2>1, <2>3, ConnectionAsks
    <2>4. CASE stage' = [stage EXCEPT ![p] = "waiting"] /\ UNCHANGED answer
        BY <1>0, <2>1, <2>4, StaysAccepted DEF Accepted
    <2>5. CASE Respond(p, PublicError(500, "INTERNAL_ERROR"))
        BY <1>0, <2>1, <2>5, AnswersByContract DEF PublicError
    <2>6. CASE ~Routable(r) /\ Respond(p, r)
        <3>1. r.status \in {409, 422, 500}
            BY <2>6 DEF Routings, RoutingErrors, PublicError, Routable
        <3> QED BY <1>0, <2>1, <2>6, <3>1, AnswersByContract
    <2> QED BY <2>2, <2>3, <2>4, <2>5, <2>6
<1>3. CASE Connect(p)
    BY <1>0, <1>3, ConnectionAsks DEF Connect
<1>4. CASE Expire(p)
    <2>1. stage[p] \in Working
        BY <1>4 DEF Expire, Working
    <2>2. Respond(p, ModelAnswer(Thrown("PoolTimeout"), routing[p].model))
        BY <1>4 DEF Expire, Settle
    <2>3. IsThrown(Thrown("PoolTimeout"))
        BY DEF IsThrown, Thrown
    <2> QED BY <1>0, <2>1, <2>2, <2>3, StatusOfCall, AnswersByContract
<1>5. CASE Finish(p)
    <2>1. stage[p] \in Working /\ stage[p] = "calling"
        BY <1>5 DEF Finish, Working
    <2>2. PICK o \in Outcomes : Respond(p, ModelAnswer(o, routing[p].model))
        BY <1>5 DEF Finish, Settle
    <2> QED BY <1>0, <2>1, <2>2, StatusOfCall, AnswersByContract
<1> QED BY <1>1, <1>2, <1>3, <1>4, <1>5 DEF Progress

\* A prompt is cancelled only by a server that does not drain.
LEMMA CancelAbandons ==
    ASSUME IInv, NEW p \in Prompts, Cancel(p)
    PROVE  Contract!Abandon(p)
<1>1. /\ ~drains /\ stage[p] \in {"ready", "waiting", "calling"}
      /\ stage'[p] = "cancelled" /\ UNCHANGED <<drains, answer>>
    BY DEF Cancel, lifespan, IInv, Shapes
<1>2. Told[p] \in {"accepted", "asked"} /\ Told'[p] = "abandoned"
    <2>1. Told[p] \in {"accepted", "asked"}
        BY <1>1, ToldAt DEF Accepted
    <2>2. Told'[p] = "abandoned"
        BY <1>1 DEF Told
    <2> QED BY <2>1, <2>2
<1>3. StatusTold'[p] = StatusTold[p]
    BY <1>1 DEF StatusTold
<1>4. \A q \in Prompts \ {p} : UNCHANGED <<stage[q], answer[q]>>
    BY DEF Cancel, IInv, Shapes
<1>5. Told' = [Told EXCEPT ![p] = "abandoned"] /\ StatusTold' = StatusTold
    BY <1>2, <1>3, <1>4, OfItsPrompt
<1> QED BY <1>1, <1>2, <1>5 DEF Contract!Abandon

(***************************************************************************)
(* The service implements the safety part of PromptContract: an accepted   *)
(* prompt is answered once, or abandoned by a server that does not drain;  *)
(* Ollama is asked at most once for it and by no more prompts at a time    *)
(* than there are connections, and success takes a call (routes.py:        *)
(* 170-244).                                                               *)
(***************************************************************************)
THEOREM ImplementsContract ==
    Spec => Contract!Init /\ [][Contract!Next]_(Contract!vars)
<1>1. Init => Contract!Init
    BY DEF Init, Contract!Init, Told, StatusTold
<1>2. IInv /\ [Next]_vars => [Contract!Next]_(Contract!vars)
    <2> SUFFICES ASSUME IInv, [Next]_vars
                 PROVE  Contract!Next \/ UNCHANGED <<drains, Told, StatusTold>>
        BY DEF Contract!vars
    <2>1. CASE UNCHANGED <<stage, answer>>
        <3>1. Told' = Told
            BY <2>1 DEF Told
        <3> QED BY <2>1, <3>1, SameServer DEF StatusTold
    <2>2. ASSUME NEW p \in Prompts, Send(p) PROVE Contract!Next
        BY <2>2, SendAccepts DEF Contract!Next
    <2>3. ASSUME NEW p \in Prompts, Progress(p)
          PROVE  Contract!Next \/ UNCHANGED <<drains, Told, StatusTold>>
        BY <2>3, ProgressByContract DEF Contract!Next
    <2>4. ASSUME NEW p \in Prompts, Cancel(p) PROVE Contract!Next
        BY <2>4, CancelAbandons DEF Contract!Next
    <2> QED BY <2>1, <2>2, <2>3, <2>4
            DEF Next, vars, handling, Start, Stop, Shutdown, CloseExecutor, CloseClient,
                Unpublish, SendProbe, ProbeProgress, ProbeContext, ProbeExecutor
<1> QED BY <1>1, <1>2, Invariance, PTL DEF Spec

-----------------------------------------------------------------------------
(* Blame                                                                   *)

\* The status a client reads for each exception, after the three translations.
StatusOf(exception) ==
    IF exception \in Slow THEN 504
    ELSE IF exception \in Unreachable THEN 503
    ELSE IF exception \in Uncaught THEN 500 ELSE 502

LEMMA StatusOfCode ==
    ASSUME NEW code
    PROVE  /\ code \in TimeoutCodes => PublicOllamaError(code).status = 504
           /\ code \in UnavailableCodes => PublicOllamaError(code).status = 503
           /\ code \in ServiceCodes => PublicOllamaError(code).status = 502
<1>1. CASE code \in TimeoutCodes
    <2>1. code \notin UnavailableCodes /\ code \notin ServiceCodes
        BY <1>1 DEF TimeoutCodes, UnavailableCodes, ServiceCodes
    <2>2. PublicOllamaError(code) = PublicError(504, "MODEL_SERVICE_TIMEOUT")
        BY <1>1, <2>1 DEF PublicOllamaError
    <2> QED BY <2>1, <2>2 DEF PublicError
<1>2. CASE code \in UnavailableCodes
    <2>1. code \notin TimeoutCodes /\ code \notin ServiceCodes
        BY <1>2 DEF TimeoutCodes, UnavailableCodes, ServiceCodes
    <2>2. PublicOllamaError(code) = PublicError(503, "MODEL_SERVICE_UNAVAILABLE")
        BY <1>2, <2>1 DEF PublicOllamaError
    <2> QED BY <2>1, <2>2 DEF PublicError
<1>3. CASE code \in ServiceCodes
    <2>1. code \notin TimeoutCodes /\ code \notin UnavailableCodes
        BY <1>3 DEF TimeoutCodes, UnavailableCodes, ServiceCodes
    <2>2. PublicOllamaError(code) = PublicError(502, "MODEL_SERVICE_ERROR")
        BY <1>3, <2>1 DEF PublicOllamaError
    <2> QED BY <2>1, <2>2 DEF PublicError
<1> QED BY <1>1, <1>2, <1>3

LEMMA TranslationOfException ==
    ASSUME NEW e \in Exceptions, NEW model
    PROVE  ModelAnswer(Thrown(e), model).status = StatusOf(e)
<1>1. IsThrown(Thrown(e)) /\ Thrown(e).exception = e
    BY DEF IsThrown, Thrown
<1> DEFINE code == TransportCode(e)
<1>2. ModelAnswer(Thrown(e), model) =
          IF code \in DOMAIN ExecutionCode
          THEN PublicOllamaError(ExecutionCode[code]) ELSE PublicError(500, "INTERNAL_ERROR")
    BY <1>1 DEF ModelAnswer
<1>3. \A c \in DOMAIN ExecutionCode : ExecutionCode[c] = c
    BY DEF ExecutionCode
<1>4. CASE e \in Slow
    <2>1. code \in TimeoutCodes /\ code \in DOMAIN ExecutionCode
        BY <1>4 DEF Slow, TransportCode, TimeoutCodes, ExecutionCode
    <2>2. PublicOllamaError(code).status = 504
        BY <2>1, StatusOfCode
    <2> HIDE DEF code
    <2> QED BY <1>2, <1>3, <1>4, <2>1, <2>2 DEF StatusOf
<1>5. CASE e \in Unreachable
    <2>4. e = "PoolTimeout" => code = "POOL_TIMEOUT"
        BY DEF TransportCode
    <2>5. e \in {"ConnectError", "ReadError", "WriteError", "CloseError"} =>
              code = "NETWORK_ERROR"
        BY DEF TransportCode
    <2>6. code \in {"POOL_TIMEOUT", "NETWORK_ERROR"}
        BY <1>5, <2>4, <2>5 DEF Unreachable
    <2> HIDE DEF code
    <2>1. code \in UnavailableCodes /\ code \in DOMAIN ExecutionCode /\ code \notin TimeoutCodes
        BY <2>6 DEF UnavailableCodes, TimeoutCodes, ExecutionCode
    <2>2. PublicOllamaError(code).status = 503
        BY <2>1, StatusOfCode
    <2>3. e \notin Slow
        BY <1>5 DEF Unreachable, Slow
    <2> QED BY <1>2, <1>3, <1>5, <2>1, <2>2, <2>3 DEF StatusOf
<1>6. CASE e \in Uncaught
    <2>1. code = None
        BY <1>6 DEF TransportCode, Uncaught
    <2>2. e \notin Slow /\ e \notin Unreachable
        BY <1>6 DEF Unreachable, Slow, Uncaught
    <2> QED BY <1>2, <1>6, <2>1, <2>2, NoCodeAssumption DEF StatusOf, PublicError
<1>7. CASE e \in {"ProtocolError", "UnsupportedProtocol"}
    <2>1. code = "PROTOCOL_ERROR"
        BY <1>7 DEF TransportCode
    <2>2. /\ code \in ServiceCodes /\ code \in DOMAIN ExecutionCode
          /\ code \notin TimeoutCodes /\ code \notin UnavailableCodes
        BY <2>1 DEF ServiceCodes, UnavailableCodes, TimeoutCodes, ExecutionCode
    <2>3. PublicOllamaError(code).status = 502
        BY <2>2, StatusOfCode
    <2>4. e \notin Slow /\ e \notin Unreachable /\ e \notin Uncaught
        BY <1>7 DEF Unreachable, Slow, Uncaught
    <2> QED BY <1>2, <1>3, <2>2, <2>3, <2>4 DEF StatusOf
<1> QED BY <1>4, <1>5, <1>6, <1>7 DEF Exceptions, Slow, Unreachable

\* Whichever test a reply fails first, what it raises blames the service.
LEMMA RaisedBlamesService ==
    ASSUME NEW reply, NEW model, FailedTests(reply, model) # {}
    PROVE  PublicOllamaError(RaisedCode(reply, model)).status = 502
<1> DEFINE failed == FailedTests(reply, model)
           tests == ReplyTests(reply, model)
<1>1. failed \subseteq 1..12
    BY DEF FailedTests
<1>2. \E i \in failed : \A j \in failed : i <= j
    <2>1. \A n \in 1..12 : (\E k \in failed : k <= n) => \E i \in failed : \A j \in failed : i <= j
        BY <1>1
    <2> QED BY <1>1, <2>1
<1>3. \A i \in 1..12 : tests[i].code \in ServiceCodes
    <2>1. /\ tests[1].code \in ServiceCodes /\ tests[2].code \in ServiceCodes
          /\ tests[3].code \in ServiceCodes /\ tests[4].code \in ServiceCodes
          /\ tests[5].code \in ServiceCodes /\ tests[6].code \in ServiceCodes
          /\ tests[7].code \in ServiceCodes /\ tests[8].code \in ServiceCodes
          /\ tests[9].code \in ServiceCodes /\ tests[10].code \in ServiceCodes
          /\ tests[11].code \in ServiceCodes /\ tests[12].code \in ServiceCodes
        BY DEF ReplyTests, ServiceCodes
    <2> HIDE DEF tests
    <2> QED BY <2>1
<1>4. RaisedCode(reply, model) \in ServiceCodes
    <2> HIDE DEF failed, tests
    <2>1. PICK i \in failed : i = CHOOSE k \in failed : \A j \in failed : k <= j
        BY <1>2
    <2> USE DEF failed, tests
    <2>2. RaisedCode(reply, model) = tests[i].code
        BY <2>1 DEF RaisedCode
    <2> QED BY <1>1, <1>3, <2>2
<1> QED BY <1>4, StatusOfCode

\* A model has a name.
Named(model) == model # ""

\* A reply with the numbers in range, field by field, ...
LEMMA MeasuredReply ==
    ASSUME NEW o, IsReply(o)
    PROVE  Measured(o) =
               [http |-> o.http, body |-> o.body, model |-> o.model,
                message |-> o.message, content |-> o.content, done |-> o.done,
                count |-> IF o.count = "huge" THEN "valid" ELSE o.count,
                duration |-> IF o.duration = "huge" THEN "valid" ELSE o.duration]
<1> DEFINE count == IF o.count = "huge" THEN "valid" ELSE o.count
           duration == IF o.duration = "huge" THEN "valid" ELSE o.duration
           e == [o EXCEPT !.count = count]
<1>1. o = [http |-> o.http, body |-> o.body, model |-> o.model,
           message |-> o.message, content |-> o.content, done |-> o.done,
           count |-> o.count, duration |-> o.duration]
    BY DEF IsReply
<1>2. Measured(o) = [e EXCEPT !.duration = duration]
    BY <1>1 DEF Measured
<1> HIDE DEF count, duration
<1>3. e = [http |-> o.http, body |-> o.body, model |-> o.model,
           message |-> o.message, content |-> o.content, done |-> o.done,
           count |-> count, duration |-> o.duration]
    BY <1>1
<1> HIDE DEF e
<1>4. [e EXCEPT !.duration = duration] =
          [http |-> o.http, body |-> o.body, model |-> o.model,
           message |-> o.message, content |-> o.content, done |-> o.done,
           count |-> count, duration |-> duration]
    BY <1>3
<1> QED BY <1>2, <1>4 DEF count, duration

\* ... and it is proper exactly when it fails none.
LEMMA ProperPasses ==
    ASSUME NEW o, NEW model, IsReply(o), Named(model)
    PROVE  Proper(o, model) <=> FailedTests(o, model) = {}
<1> DEFINE tests == ReplyTests(o, model)
<1>0. ~IsThrown(o)
    BY DEF IsReply, IsThrown
<1>1. Proper(o, model) <=>
          /\ o.http = "success" /\ o.body = "object" /\ o.model = model
          /\ o.message = "assistant" /\ o.content = "text" /\ o.done = "true"
          /\ o.count # "invalid" /\ o.duration # "invalid"
    <2>1. \A count, duration :
              LET m == [http |-> o.http, body |-> o.body, model |-> o.model,
                        message |-> o.message, content |-> o.content, done |-> o.done,
                        count |-> count, duration |-> duration]
              IN  Genuine(m, model) <=>
                      /\ o.http = "success" /\ o.body = "object" /\ o.model = model
                      /\ o.message = "assistant" /\ o.content = "text" /\ o.done = "true"
                      /\ count = "valid" /\ duration = "valid"
        BY DEF Genuine
    <2>2. o.count \in {"valid", "huge", "invalid"} /\ o.duration \in {"valid", "huge", "invalid"}
        BY DEF IsReply
    <2> QED BY <1>0, <2>1, <2>2, MeasuredReply DEF Proper
<1>2. ASSUME FailedTests(o, model) = {} PROVE Proper(o, model)
    <2>1. /\ o.http \in {"success", "failure"} /\ o.body \in {"object", "other", "not_json"}
          /\ o.content \in {"text", "blank", "invalid"} /\ o.done \in {"true", "false", "invalid"}
        BY DEF IsReply
    <2> QED BY <1>1, <1>2, <2>1, PassedTests
<1>3. ASSUME Proper(o, model) PROVE FailedTests(o, model) = {}
    <2>1. /\ ~tests[1].fails /\ ~tests[2].fails /\ ~tests[3].fails /\ ~tests[4].fails
          /\ ~tests[5].fails /\ ~tests[6].fails /\ ~tests[7].fails /\ ~tests[8].fails
          /\ ~tests[9].fails /\ ~tests[10].fails /\ ~tests[11].fails /\ ~tests[12].fails
        BY <1>1, <1>3 DEF ReplyTests, WrongModel, Named
    <2> HIDE DEF tests
    <2>2. ASSUME NEW i \in 1..12 PROVE ~tests[i].fails
        <3>1. \/ i = 1 \/ i = 2 \/ i = 3 \/ i = 4 \/ i = 5 \/ i = 6
              \/ i = 7 \/ i = 8 \/ i = 9 \/ i = 10 \/ i = 11 \/ i = 12
            OBVIOUS
        <3> QED BY <2>1, <3>1
    <2> QED BY <2>2 DEF FailedTests, tests
<1> QED BY <1>2, <1>3

\* The status of what a call came to says whose fault it was: of an exception, ...
LEMMA ExceptionBlames ==
    ASSUME NEW e \in Exceptions, NEW model
    PROVE  Blames(ModelAnswer(Thrown(e), model).status, Thrown(e), model)
<1> DEFINE status == ModelAnswer(Thrown(e), model).status
<1>1. IsThrown(Thrown(e)) /\ Thrown(e).exception = e
    BY DEF IsThrown, Thrown
<1>2. status = StatusOf(e)
    BY TranslationOfException
<1>3. /\ e \in Slow => e \notin Unreachable
      /\ e \in Uncaught => e \notin Slow /\ e \notin Unreachable
      /\ e \in {"ProtocolError", "UnsupportedProtocol"} =>
             e \notin Slow /\ e \notin Unreachable /\ e \notin Uncaught
    BY DEF Slow, Unreachable, Uncaught
<1>4. /\ e \in Slow \cup Unreachable \cup Uncaught
             \cup {"ProtocolError", "UnsupportedProtocol"}
      /\ e # "replied"
    BY DEF Exceptions, Slow, Unreachable, Uncaught
<1>5. /\ status = 504 <=> e \in Slow
      /\ status = 503 <=> e \in Unreachable
      /\ status = 502 <=> e \in {"ProtocolError", "UnsupportedProtocol"}
      /\ status = 500 <=> e \in Uncaught
    BY <1>2, <1>3, <1>4 DEF StatusOf
<1>6. ~Proper(Thrown(e), model)
    BY <1>1 DEF Proper
<1> HIDE DEF status
<1>7. Blames(status, Thrown(e), model)
    BY <1>1, <1>4, <1>5, <1>6 DEF Blames
<1> QED BY <1>7 DEF status

\* ... and of a reply.
LEMMA ReplyBlames ==
    ASSUME NEW o, NEW model, IsReply(o), Named(model)
    PROVE  Blames(ModelAnswer(o, model).status, o, model)
<1> DEFINE status == ModelAnswer(o, model).status
<1>1. ~IsThrown(o)
    BY DEF IsReply, IsThrown
<1>2. Proper(o, model) <=> FailedTests(o, model) = {}
    BY ProperPasses
<1>3. /\ ~Proper(o, model) => status = 502
      /\ Proper(o, model) /\ HugeMetrics(o) => status = 500
      /\ Proper(o, model) /\ ~HugeMetrics(o) => status = 200
    <2>1. ~Proper(o, model) => ModelAnswer(o, model) = PublicOllamaError(RaisedCode(o, model))
        BY <1>1, <1>2 DEF ModelAnswer
    <2>2. ASSUME ~Proper(o, model) PROVE status = 502
        <3>1. FailedTests(o, model) # {}
            BY <1>2, <2>2
        <3>2. PublicOllamaError(RaisedCode(o, model)).status = 502
            BY <3>1, RaisedBlamesService
        <3> QED BY <2>1, <2>2, <3>2
    <2>3. Proper(o, model) /\ HugeMetrics(o) => status = 500
        BY <1>1, <1>2 DEF ModelAnswer, PublicError
    <2>4. Proper(o, model) /\ ~HugeMetrics(o) => status = 200
        BY <1>1, <1>2 DEF ModelAnswer, Success
    <2> QED BY <2>2, <2>3, <2>4
<1>4. "replied" \notin Slow \cup Unreachable \cup Uncaught
    BY DEF Slow, Unreachable, Uncaught
<1> HIDE DEF status
<1>5. Blames(status, o, model)
    <2>1. CASE ~Proper(o, model)
        BY <1>1, <1>3, <1>4, <2>1 DEF Blames
    <2>2. CASE Proper(o, model) /\ HugeMetrics(o)
        BY <1>1, <1>3, <1>4, <2>2 DEF Blames
    <2>3. CASE Proper(o, model) /\ ~HugeMetrics(o)
        BY <1>1, <1>3, <1>4, <2>3 DEF Blames
    <2> QED BY <2>1, <2>2, <2>3
<1> QED BY <1>5 DEF status

LEMMA CallBlames ==
    ASSUME NEW o \in Outcomes \cup {Thrown("PoolTimeout")}, NEW model, Named(model)
    PROVE  Blames(ModelAnswer(o, model).status, o, model)
<1>1. CASE o \in Replies
    BY <1>1, RepliesAssumption, ReplyBlames
<1>2. CASE o \notin Replies
    <2>1. PICK e \in Exceptions : o = Thrown(e)
        <3>1. "PoolTimeout" \in Exceptions
            BY DEF Exceptions
        <3> QED BY <1>2, <3>1 DEF Outcomes
    <2> QED BY <2>1, ExceptionBlames
<1> QED BY <1>1, <1>2

(***************************************************************************)
(* The status tells whose fault a failed call was (httpx2_transport.py:    *)
(* 42-89, executor.py:23-71, routes.py:47-112).  A call has an outcome     *)
(* only once its prompt is answered, and is answered by that outcome.      *)
(***************************************************************************)
THEOREM BlameRight == Spec => []BlameIsRight
<1> DEFINE Right(p) ==
               /\ stage[p] # "answered" => outcome[p] = None
               /\ stage[p] \in {"waiting", "calling"} => Named(routing[p].model)
               /\ answer[p] # None /\ outcome[p] # None =>
                      Blames(answer[p].status, outcome[p], routing[p].model)
           I == \A p \in Prompts : Right(p)
<1>1. Init => I
    BY DEF Init
<1>2. IInv /\ I /\ [Next]_vars => I'
    <2> SUFFICES ASSUME IInv, I, [Next]_vars PROVE I'
        OBVIOUS
    <2>1. ASSUME NEW p \in Prompts,
                 UNCHANGED <<stage[p], routing[p], outcome[p], answer[p]>>
          PROVE  Right(p)'
        BY <2>1
    <2>2. ASSUME NEW p \in Prompts, Send(p) PROVE I'
        BY <2>2 DEF Send, IInv, Shapes
    <2>3. ASSUME NEW p \in Prompts, Progress(p) \/ Cancel(p) PROVE I'
        <3>1. \A q \in Prompts \ {p} :
                  UNCHANGED <<stage[q], routing[q], outcome[q], answer[q]>>
            BY <2>3 DEF Progress, ReadContext, ReadExecutor, Handle, AskForConnection, Connect,
                        Expire, Finish, Settle, Respond, Cancel, IInv, Shapes
        <3>2. outcome[p] = None
            BY <2>3, StepsMove DEF Moves, Working
        <3>3. CASE ReadContext(p) \/ ReadExecutor(p) \/ Handle(p) \/ Connect(p) \/ Cancel(p)
            <4>1. outcome'[p] = None
                BY <3>2, <3>3 DEF ReadContext, ReadExecutor, Handle, Connect, Cancel
            <4>2. stage'[p] \in {"waiting", "calling"} => Named(routing'[p].model)
                <5>1. CASE Handle(p)
                    <6>1. PICK r \in Routings :
                              /\ routing' = [routing EXCEPT ![p] = r]
                              /\ stage'[p] \in {"waiting", "calling"} => Routable(r)
                        <7>1. PICK r \in Routings :
                                  /\ routing' = [routing EXCEPT ![p] = r]
                                  /\ Routable(r) \/ \E a : Respond(p, a)
                            BY <5>1, HandleCases
                        <7> QED BY <7>1 DEF Respond, IInv, Shapes
                    <6>2. Routable(r) => r \in [model : Models]
                        <7>1. \A status, code : ~Routable(PublicError(status, code))
                            BY DEF Routable, PublicError
                        <7>2. ASSUME NEW e \in RoutingErrors PROVE ~Routable(e)
                            <8>1. \E status, code : e = PublicError(status, code)
                                BY DEF RoutingErrors
                            <8> QED BY <7>1, <8>1
                        <7> QED BY <7>2 DEF Routings
                    <6>3. Routable(r) => Named(r.model)
                        BY <6>2, ModelsAssumption DEF Named
                    <6> QED BY <6>1, <6>3 DEF IInv, Shapes
                <5>2. CASE ReadContext(p) \/ ReadExecutor(p) \/ Connect(p) \/ Cancel(p)
                    BY <5>2 DEF ReadContext, ReadExecutor, Connect, Cancel, Respond, IInv, Shapes
                <5> QED BY <3>3, <5>1, <5>2
            <4>3. Right(p)'
                BY <4>1, <4>2
            <4> QED BY <2>1, <3>1, <4>3
        <3>4. CASE Expire(p) \/ Finish(p)
            <4>1. PICK o \in Outcomes \cup {Thrown("PoolTimeout")} : Settle(p, o)
                BY <3>4 DEF Expire, Finish
            <4>2. /\ outcome'[p] = o /\ routing'[p] = routing[p] /\ stage'[p] = "answered"
                  /\ answer'[p] = ModelAnswer(o, routing[p].model)
                BY <4>1 DEF Settle, Respond, IInv, Shapes
            <4>3. Blames(answer'[p].status, o, routing[p].model)
                <5>1. Named(routing[p].model)
                    BY <3>4 DEF Expire, Finish
                <5> QED BY <4>2, <5>1, CallBlames
            <4>4. Right(p)'
                BY <4>2, <4>3
            <4> QED BY <2>1, <3>1, <4>4
        <3> QED BY <2>3, <3>3, <3>4 DEF Progress
    <2>4. ASSUME UNCHANGED <<stage, routing, outcome, answer>> PROVE I'
        BY <2>1, <2>4
    <2> QED BY <2>2, <2>3, <2>4
            DEF Next, vars, handling, Start, Stop, Shutdown, CloseExecutor, CloseClient,
                Unpublish, SendProbe, ProbeProgress, ProbeContext, ProbeExecutor
<1>3. I => BlameIsRight
    BY DEF BlameIsRight
<1> QED BY <1>1, <1>2, <1>3, Invariance, PTL DEF Spec

-----------------------------------------------------------------------------
(***************************************************************************)
(* Types.  Queued says what the queue of the pool is: those that wait,     *)
(* each at one place.  Remembered says what is known of routing and of the *)
(* call, and that no prompt is answered with nothing.                      *)
(***************************************************************************)
Queued ==
    /\ waiting \in Seq(Prompts)
    /\ \A i, j \in 1..Len(waiting) : waiting[i] = waiting[j] => i = j
    /\ \A p \in Prompts :
           stage[p] = "waiting" <=> \E i \in 1..Len(waiting) : waiting[i] = p

ProbeStages == {"unsent", "sent", "has_context", "ready", "not_ready"}

Remembered ==
    /\ routing \in [Prompts -> Routings \cup {None}]
    /\ outcome \in [Prompts -> Outcomes \cup {None, Thrown("PoolTimeout")}]
    /\ answer \in [Prompts -> Answers \cup {None}]
    /\ \A p \in Prompts : stage[p] = "answered" => answer[p] # None
    /\ probe \in [Probes -> ProbeStages]

\* Whatever a call came to, the client is answered.
LEMMA CallIsAnswered ==
    ASSUME NEW o, NEW model
    PROVE  ModelAnswer(o, model) \in Answers
<1>1. PublicError(500, "INTERNAL_ERROR") \in Answers /\ Success \in Answers
    BY DEF Answers, RoutingErrors
<1>2. \A code : PublicOllamaError(code) \in Answers
    BY <1>1 DEF PublicOllamaError, Answers
<1> QED BY <1>1, <1>2 DEF ModelAnswer

\* A prompt that leaves the queue leaves the others there, in their order.
LEMMA WithoutOne ==
    ASSUME Queued, NEW p \in Prompts, stage[p] = "waiting"
    PROVE  \E k \in 1..Len(waiting) :
               /\ waiting[k] = p
               /\ Without(p) \in Seq(Prompts) /\ Len(Without(p)) = Len(waiting) - 1
               /\ \A i \in 1..Len(waiting) - 1 :
                      Without(p)[i] = waiting[IF i < k THEN i ELSE i + 1]
<1> DEFINE n == Len(waiting)
           k == CHOOSE i \in DOMAIN waiting : waiting[i] = p
           before == SubSeq(waiting, 1, k - 1)
           after == SubSeq(waiting, k + 1, n)
<1>1. n \in Nat /\ DOMAIN waiting = 1..n
    BY LenProperties DEF Queued
<1>2. k \in 1..n /\ waiting[k] = p
    BY <1>1 DEF Queued
<1>3. Without(p) = before \o after
    BY DEF Without
<1> HIDE DEF n, k
<1>4. \A i \in 1..n : waiting[i] \in Prompts
    BY <1>1, ElementOfSeq DEF Queued, n
<1>5. /\ before \in Seq(Prompts) /\ Len(before) = k - 1
      /\ \A i \in 1..k - 1 : before[i] = waiting[i]
    <2>1. k - 1 \in Int /\ \A i \in 1..k - 1 : waiting[i] \in Prompts
        BY <1>1, <1>2, <1>4
    <2> QED BY <1>1, <1>2, <2>1, SubSeqProperties
<1>6. /\ after \in Seq(Prompts) /\ Len(after) = n - k
      /\ \A i \in 1..n - k : after[i] = waiting[k + i]
    <2>1. k + 1 \in Int /\ n \in Int /\ \A i \in k + 1..n : waiting[i] \in Prompts
        BY <1>1, <1>2, <1>4
    <2> QED BY <1>1, <1>2, <2>1, SubSeqProperties
<1> HIDE DEF before, after
<1>7. /\ before \o after \in Seq(Prompts) /\ Len(before \o after) = n - 1
      /\ \A i \in 1..n - 1 :
             (before \o after)[i] = IF i <= k - 1 THEN before[i] ELSE after[i - (k - 1)]
    <2>1. /\ before \o after \in Seq(Prompts)
          /\ Len(before \o after) = Len(before) + Len(after)
          /\ \A i \in 1..Len(before) + Len(after) :
                 (before \o after)[i] =
                     IF i <= Len(before) THEN before[i] ELSE after[i - Len(before)]
        BY <1>5, <1>6, ConcatProperties
    <2>2. Len(before) = k - 1 /\ Len(before) + Len(after) = n - 1
        BY <1>1, <1>2, <1>5, <1>6
    <2> QED BY <2>1, <2>2
<1>8. \A i \in 1..n - 1 : Without(p)[i] = waiting[IF i < k THEN i ELSE i + 1]
    BY <1>1, <1>2, <1>3, <1>5, <1>6, <1>7
<1> QED BY <1>2, <1>3, <1>7, <1>8 DEF n

\* A prompt that goes on to anything but waiting leaves the queue, if it was there.
LEMMA LeavesQueue ==
    ASSUME IInv, Queued, NEW p \in Prompts, NEW s, s # "waiting",
           stage' = [stage EXCEPT ![p] = s], waiting' = Without(p)
    PROVE  Queued'
<1>1. \A q \in Prompts : stage'[q] = IF q = p THEN s ELSE stage[q]
    BY DEF IInv, Shapes
<1>2. CASE stage[p] # "waiting"
    BY <1>1, <1>2 DEF Without, Queued
<1>3. CASE stage[p] = "waiting"
    <2>1. PICK k \in 1..Len(waiting) :
              /\ waiting[k] = p
              /\ waiting' \in Seq(Prompts) /\ Len(waiting') = Len(waiting) - 1
              /\ \A i \in 1..Len(waiting) - 1 :
                     waiting'[i] = waiting[IF i < k THEN i ELSE i + 1]
        BY <1>3, WithoutOne
    <2>2. Len(waiting) \in Nat
        BY LenProperties DEF Queued
    <2> DEFINE old(i) == IF i < k THEN i ELSE i + 1
    <2>6. /\ \A i \in 1..Len(waiting') : old(i) \in 1..Len(waiting) /\ waiting'[i] = waiting[old(i)]
          /\ \A i, j \in 1..Len(waiting') : old(i) = old(j) => i = j
        <3>1. \A i \in 1..Len(waiting') : old(i) \in 1..Len(waiting) /\ waiting'[i] = waiting[old(i)]
            BY <2>1, <2>2
        <3>2. \A i, j \in 1..Len(waiting') : old(i) = old(j) => i = j
            BY <2>1, <2>2
        <3> QED BY <3>1, <3>2
    <2> HIDE DEF old
    <2>3. \A i, j \in 1..Len(waiting') : waiting'[i] = waiting'[j] => i = j
        BY <2>6 DEF Queued
    <2>4. \A i \in 1..Len(waiting') : waiting'[i] # p
        <3>1. \A i \in 1..Len(waiting') : old(i) # k
            BY <2>1, <2>2 DEF old
        <3>2. \A i, j \in 1..Len(waiting) : waiting[i] = waiting[j] => i = j
            BY DEF Queued
        <3> QED BY <2>1, <2>6, <3>1, <3>2
    <2>5. ASSUME NEW q \in Prompts, q # p
          PROVE  (\E i \in 1..Len(waiting) : waiting[i] = q)
                     <=> \E i \in 1..Len(waiting') : waiting'[i] = q
        <3>1. ASSUME NEW i \in 1..Len(waiting), waiting[i] = q
              PROVE  \E j \in 1..Len(waiting') : waiting'[j] = q
            <4>1. i # k
                BY <2>1, <2>5, <3>1
            <4>2. CASE i < k
                BY <2>1, <2>2, <3>1, <4>2
            <4>3. CASE i > k
                <5>1. i - 1 \in 1..Len(waiting') /\ ~(i - 1 < k) /\ (i - 1) + 1 = i
                    BY <2>1, <2>2, <4>3
                <5> QED BY <2>1, <3>1, <5>1
            <4> QED BY <2>2, <4>1, <4>2, <4>3
        <3>2. ASSUME NEW j \in 1..Len(waiting'), waiting'[j] = q
              PROVE  \E i \in 1..Len(waiting) : waiting[i] = q
            BY <2>6, <3>2
        <3> QED BY <3>1, <3>2
    <2> QED BY <1>1, <2>1, <2>3, <2>4, <2>5 DEF Queued
<1> QED BY <1>2, <1>3

\* A prompt that is queued stands behind the others.
LEMMA JoinsQueue ==
    ASSUME IInv, Queued, NEW p \in Prompts, stage[p] # "waiting",
           stage' = [stage EXCEPT ![p] = "waiting"], waiting' = Append(waiting, p)
    PROVE  Queued'
<1>1. \A q \in Prompts : stage'[q] = IF q = p THEN "waiting" ELSE stage[q]
    BY DEF IInv, Shapes
<1>2. Len(waiting) \in Nat
    BY LenProperties DEF Queued
<1>3. /\ waiting' \in Seq(Prompts) /\ Len(waiting') = Len(waiting) + 1
      /\ \A i \in 1..Len(waiting) : waiting'[i] = waiting[i]
      /\ waiting'[Len(waiting) + 1] = p
    BY AppendProperties DEF Queued
<1>4. \A i \in 1..Len(waiting) : waiting[i] # p
    BY DEF Queued
<1>5. \A i, j \in 1..Len(waiting') : waiting'[i] = waiting'[j] => i = j
    BY <1>2, <1>3, <1>4 DEF Queued
<1>6. \A q \in Prompts : (\E i \in 1..Len(waiting') : waiting'[i] = q)
                             <=> q = p \/ \E i \in 1..Len(waiting) : waiting[i] = q
    BY <1>2, <1>3
<1> QED BY <1>1, <1>3, <1>5, <1>6 DEF Queued

\* The first of the queue is given a connection and leaves it.
LEMMA HeadLeavesQueue ==
    ASSUME IInv, Queued, NEW p \in Prompts, Connect(p)
    PROVE  Queued'
<1>1. /\ stage[p] = "waiting" /\ Head(waiting) = p /\ waiting' = Tail(waiting)
      /\ \A q \in Prompts : stage'[q] = IF q = p THEN "calling" ELSE stage[q]
    BY DEF Connect, IInv, Shapes
<1>2. Len(waiting) \in Nat /\ waiting # << >> /\ Len(waiting) >= 1
    BY <1>1, LenProperties, EmptySeq DEF Queued
<1>3. /\ waiting' \in Seq(Prompts) /\ Len(waiting') = Len(waiting) - 1
      /\ \A i \in 1..Len(waiting') : waiting'[i] = waiting[i + 1]
      /\ waiting[1] = p
    BY <1>1, <1>2, HeadTailProperties DEF Queued
<1>4. \A i, j \in 1..Len(waiting') : waiting'[i] = waiting'[j] => i = j
    BY <1>2, <1>3 DEF Queued
<1>5. \A i \in 1..Len(waiting') : waiting'[i] # p
    BY <1>2, <1>3 DEF Queued
<1>6. ASSUME NEW q \in Prompts, q # p
      PROVE  (\E i \in 1..Len(waiting) : waiting[i] = q)
                 <=> \E i \in 1..Len(waiting') : waiting'[i] = q
    <2>1. ASSUME NEW i \in 1..Len(waiting), waiting[i] = q
          PROVE  \E j \in 1..Len(waiting') : waiting'[j] = q
        <3>1. i - 1 \in 1..Len(waiting') /\ (i - 1) + 1 = i
            BY <1>2, <1>3, <1>6, <2>1
        <3> QED BY <1>3, <2>1, <3>1
    <2>2. ASSUME NEW j \in 1..Len(waiting'), waiting'[j] = q
          PROVE  \E i \in 1..Len(waiting) : waiting[i] = q
        BY <1>2, <1>3, <2>2
    <2> QED BY <2>1, <2>2
<1> QED BY <1>1, <1>3, <1>4, <1>5, <1>6 DEF Queued

\* The steps of a prompt keep the queue.
LEMMA PromptKeepsQueue ==
    ASSUME IInv, Queued, NEW p \in Prompts, Send(p) \/ Progress(p) \/ Cancel(p)
    PROVE  Queued'
<1>1. ASSUME NEW s, s # "waiting", stage' = [stage EXCEPT ![p] = s],
             stage[p] # "waiting", UNCHANGED waiting
      PROVE  Queued'
    <2>1. waiting' = Without(p)
        BY <1>1 DEF Without
    <2> QED BY <1>1, <2>1, LeavesQueue
<1>2. CASE Send(p)
    BY <1>1, <1>2 DEF Send
<1>3. CASE ReadContext(p)
    BY <1>1, <1>3 DEF ReadContext, Respond
<1>4. CASE ReadExecutor(p)
    BY <1>1, <1>4 DEF ReadExecutor, Respond
<1>5. CASE Handle(p)
    <2>1. stage[p] # "waiting"
        BY <1>5 DEF Handle
    <2>2. \/ stage' = [stage EXCEPT ![p] = "waiting"] /\ waiting' = Append(waiting, p)
          \/ stage' = [stage EXCEPT ![p] = "calling"] /\ UNCHANGED waiting
          \/ stage' = [stage EXCEPT ![p] = "answered"] /\ UNCHANGED waiting
        BY <1>5, HandleCases DEF Respond
    <2> QED BY <1>1, <2>1, <2>2, JoinsQueue
<1>6. CASE Connect(p)
    BY <1>6, HeadLeavesQueue
<1>7. CASE Expire(p)
    BY <1>7, LeavesQueue DEF Expire, Settle, Respond
<1>8. CASE Finish(p)
    BY <1>1, <1>8 DEF Finish, Settle, Respond
<1>9. CASE Cancel(p)
    BY <1>9, LeavesQueue DEF Cancel
<1> QED BY <1>2, <1>3, <1>4, <1>5, <1>6, <1>7, <1>8, <1>9 DEF Progress

\* The steps of a prompt remember what routing and the call came to.
LEMMA PromptIsRemembered ==
    ASSUME IInv, Remembered, NEW p \in Prompts, Send(p) \/ Progress(p) \/ Cancel(p)
    PROVE  Remembered'
<1>1. ASSUME NEW s, s # "answered", stage' = [stage EXCEPT ![p] = s],
             UNCHANGED <<outcome, answer, probe>>,
             routing' \in [Prompts -> Routings \cup {None}]
      PROVE  Remembered'
    BY <1>1 DEF IInv, Shapes, Remembered
<1>2. ASSUME NEW a \in Answers, Respond(p, a), UNCHANGED probe,
             routing' \in [Prompts -> Routings \cup {None}],
             outcome' \in [Prompts -> Outcomes \cup {None, Thrown("PoolTimeout")}]
      PROVE  Remembered'
    <2>1. a # None
        BY NoneAssumption
    <2> QED BY <1>2, <2>1 DEF IInv, Shapes, Remembered, Respond
<1>3. PlainError \in Answers /\ PublicError(500, "INTERNAL_ERROR") \in Answers
    BY DEF Answers, RoutingErrors
<1>4. CASE Send(p)
    BY <1>1, <1>4 DEF Send, Remembered
<1>5. CASE ReadContext(p)
    BY <1>1, <1>2, <1>3, <1>5 DEF ReadContext, Remembered
<1>6. CASE ReadExecutor(p)
    BY <1>1, <1>2, <1>3, <1>6 DEF ReadExecutor, Remembered
<1>7. CASE Handle(p)
    <2>1. PICK r \in Routings :
              /\ routing' = [routing EXCEPT ![p] = r]
              /\ \/ /\ \E s \in {"waiting", "calling"} : stage' = [stage EXCEPT ![p] = s]
                    /\ UNCHANGED answer
                 \/ Respond(p, IF Routable(r) THEN PublicError(500, "INTERNAL_ERROR") ELSE r)
        BY <1>7, HandleCases
    <2>2. routing' \in [Prompts -> Routings \cup {None}] /\ UNCHANGED <<outcome, probe>>
        BY <1>7, <2>1 DEF Handle, Remembered
    <2>3. (IF Routable(r) THEN PublicError(500, "INTERNAL_ERROR") ELSE r) \in Answers
        <3>1. r \in [model : Models] => Routable(r)
            BY DEF Routable
        <3> QED BY <1>3, <3>1 DEF Routings, Answers
    <2> QED BY <1>1, <1>2, <2>1, <2>2, <2>3 DEF Remembered
<1>8. CASE Connect(p)
    BY <1>1, <1>8 DEF Connect, Remembered
<1>9. ASSUME NEW o \in Outcomes \cup {Thrown("PoolTimeout")}, Settle(p, o), UNCHANGED probe
      PROVE  Remembered'
    <2>1. ModelAnswer(o, routing[p].model) \in Answers
        BY CallIsAnswered
    <2> QED BY <1>2, <1>9, <2>1 DEF Settle, Remembered
<1>10. CASE Expire(p)
    BY <1>9, <1>10 DEF Expire
<1>11. CASE Finish(p)
    BY <1>9, <1>11 DEF Finish
<1>12. CASE Cancel(p)
    BY <1>1, <1>12 DEF Cancel, Remembered
<1> QED BY <1>4, <1>5, <1>6, <1>7, <1>8, <1>10, <1>11, <1>12 DEF Progress

(***************************************************************************)
(* Types; in particular the queue of the pool holds the prompts that wait, *)
(* each once, whatever expires or is cancelled meanwhile, and a prompt has *)
(* an answer exactly when it was answered (factory.py:8-30,                *)
(* executor.py:104-150, routes.py:174-236).                                *)
(***************************************************************************)
THEOREM TypeCorrect == Spec => []TypeOK
<1>1. Init => Queued /\ Remembered
    <2>1. << >> \in Seq(Prompts) /\ Len(<< >>) = 0
        BY EmptySeq
    <2> QED BY <2>1 DEF Init, Queued, Remembered, ProbeStages
<1>2. IInv /\ Queued /\ Remembered /\ [Next]_vars => Queued' /\ Remembered'
    <2> SUFFICES ASSUME IInv, Queued, Remembered, [Next]_vars PROVE Queued' /\ Remembered'
        OBVIOUS
    <2>1. ASSUME UNCHANGED handling, probe' \in [Probes -> ProbeStages]
          PROVE  Queued' /\ Remembered'
        BY <2>1 DEF handling, Queued, Remembered
    <2>2. CASE Start \/ Stop \/ Shutdown \/ UNCHANGED vars
        BY <2>1, <2>2 DEF Start, Stop, Shutdown, CloseExecutor, CloseClient, Unpublish, vars,
                          Remembered
    <2>3. ASSUME NEW p \in Prompts, Send(p) \/ Progress(p) \/ Cancel(p)
          PROVE  Queued' /\ Remembered'
        BY <2>3, PromptKeepsQueue, PromptIsRemembered
    <2>4. ASSUME NEW b \in Probes, SendProbe(b) \/ ProbeProgress(b)
          PROVE  Queued' /\ Remembered'
        BY <2>1, <2>4 DEF SendProbe, ProbeProgress, ProbeContext, ProbeExecutor, Remembered,
                          ProbeStages
    <2> QED BY <2>2, <2>3, <2>4 DEF Next
<1>3. IInv /\ Queued /\ Remembered => TypeOK
    <2> SUFFICES ASSUME IInv, Queued, Remembered PROVE TypeOK
        OBVIOUS
    <2>1. ASSUME NEW p \in Prompts
          PROVE  Cardinality({i \in DOMAIN waiting : waiting[i] = p})
                     = (IF stage[p] = "waiting" THEN 1 ELSE 0)
        <3> DEFINE places == {i \in DOMAIN waiting : waiting[i] = p}
        <3>1. DOMAIN waiting = 1..Len(waiting)
            BY LenProperties DEF Queued
        <3>2. CASE stage[p] = "waiting"
            <4>1. PICK i \in 1..Len(waiting) : waiting[i] = p
                BY <3>2 DEF Queued
            <4>2. places = {i}
                BY <3>1, <4>1 DEF Queued
            <4> QED BY <3>2, <4>2, FS_Singleton
        <3>3. CASE stage[p] # "waiting"
            <4>1. places = {}
                BY <3>1, <3>3 DEF Queued
            <4> QED BY <3>3, <4>1, FS_EmptySet
        <3> QED BY <3>2, <3>3
    <2>2. \A p \in Prompts : (answer[p] # None) = (stage[p] = "answered")
        BY DEF IInv, Unanswered, Remembered
    <2> QED BY <2>1, <2>2 DEF IInv, Shapes, Queued, Remembered, ProbeStages, TypeOK
<1> QED BY <1>1, <1>2, <1>3, Invariance, PTL DEF Spec

(***************************************************************************)
(* No more calls are made at a time than the pool has connections, whether *)
(* a prompt is given one at once or after a wait (factory.py:8-36).        *)
(***************************************************************************)
PoolWithinLimit == IsFiniteSet(Calling) /\ Cardinality(Calling) <= MaxConnections

THEOREM PoolIsBounded == Spec => []PoolWithinLimit
<1>1. Init => PoolWithinLimit
    <2> SUFFICES ASSUME Init PROVE PoolWithinLimit
        OBVIOUS
    <2>1. Calling = {}
        BY DEF Init, Calling
    <2> QED BY <2>1, FS_EmptySet, MaxConnectionsAssumption DEF PoolWithinLimit
<1>2. IInv /\ PoolWithinLimit /\ [Next]_vars => PoolWithinLimit'
    <2> SUFFICES ASSUME IInv, PoolWithinLimit, [Next]_vars PROVE PoolWithinLimit'
        OBVIOUS
    <2>1. Cardinality(Calling) \in Nat
        BY FS_CardinalityType DEF PoolWithinLimit
    <2>2. ASSUME Calling' \subseteq Calling PROVE PoolWithinLimit'
        <3>1. IsFiniteSet(Calling') /\ Cardinality(Calling') <= Cardinality(Calling)
            BY <2>2, FS_Subset DEF PoolWithinLimit
        <3>2. Cardinality(Calling') \in Nat
            BY <3>1, FS_CardinalityType
        <3> QED BY <2>1, <3>1, <3>2, MaxConnectionsAssumption DEF PoolWithinLimit
    <2>3. ASSUME NEW p \in Prompts, stage' = [stage EXCEPT ![p] = "calling"],
                 Cardinality(Calling) < MaxConnections
          PROVE  PoolWithinLimit'
        <3>1. Calling' \subseteq Calling \cup {p} /\ Cardinality(Calling) < MaxConnections
            BY <2>3 DEF Calling, IInv, Shapes
        <3>2. /\ IsFiniteSet(Calling \cup {p})
              /\ Cardinality(Calling \cup {p}) <= Cardinality(Calling) + 1
            BY <2>1, FS_AddElement DEF PoolWithinLimit
        <3>3. /\ IsFiniteSet(Calling')
              /\ Cardinality(Calling') <= Cardinality(Calling \cup {p})
            BY <3>1, <3>2, FS_Subset
        <3>4. Cardinality(Calling') \in Nat /\ Cardinality(Calling \cup {p}) \in Nat
            BY <3>2, <3>3, FS_CardinalityType
        <3> QED BY <2>1, <3>1, <3>2, <3>3, <3>4, MaxConnectionsAssumption DEF PoolWithinLimit
    <2>4. ASSUME NEW p \in Prompts, NEW s, s # "calling", stage' = [stage EXCEPT ![p] = s]
          PROVE  PoolWithinLimit'
        BY <2>2, <2>4 DEF Calling, IInv, Shapes
    <2>5. CASE UNCHANGED stage
        BY <2>2, <2>5 DEF Calling
    <2>6. ASSUME NEW p \in Prompts, Send(p) \/ Progress(p) \/ Cancel(p)
          PROVE  PoolWithinLimit'
        <3>1. CASE Handle(p)
            <4>1. \/ /\ stage' = [stage EXCEPT ![p] = "calling"]
                     /\ Cardinality(Calling) < MaxConnections
                  \/ stage' = [stage EXCEPT ![p] = "waiting"]
                  \/ stage' = [stage EXCEPT ![p] = "answered"]
                BY <3>1, HandleCases DEF Respond
            <4> QED BY <2>3, <2>4, <4>1
        <3>2. CASE Connect(p)
            BY <2>3, <3>2 DEF Connect
        <3>3. CASE Send(p) \/ Cancel(p) \/ ReadContext(p) \/ ReadExecutor(p) \/ Expire(p)
                   \/ Finish(p)
            BY <2>4, <3>3 DEF Send, Cancel, ReadContext, ReadExecutor, Expire, Finish, Settle,
                              Respond
        <3> QED BY <2>6, <3>1, <3>2, <3>3 DEF Progress
    <2> QED BY <2>5, <2>6
            DEF Next, vars, handling, Start, Stop, Shutdown, CloseExecutor, CloseClient,
                Unpublish, SendProbe, ProbeProgress, ProbeContext, ProbeExecutor
<1> QED BY <1>1, <1>2, Invariance, PTL DEF Spec
=============================================================================
