---------------------------- MODULE PromptService ----------------------------
(***************************************************************************)
(* The life of the application around its prompts: the lifespan that       *)
(* publishes the runtime context and the Ollama executor and takes them    *)
(* away again (http_api/app.py), the dependencies that read them on worker *)
(* threads (dependencies.py), the prompt handler (routes.py), the executor *)
(* that may be closed under it (executor.py), the connection pool the      *)
(* calls of Ollama wait for (factory.py) and the readiness probe.          *)
(*                                                                         *)
(* The steps end where the code gives up control: at an await, or at the   *)
(* boundary of a worker thread.  The two del statements that end the       *)
(* lifespan run on the event loop but race the worker threads, so they are *)
(* two steps.                                                              *)
(*                                                                         *)
(* The ASGI server, the pool and Ollama are external.  Of the server the   *)
(* application may be mounted in, drains says whether it shuts the         *)
(* lifespan down only when no request is in flight, which is what uvicorn  *)
(* does as cli.py starts it (no graceful timeout).                         *)
(***************************************************************************)
EXTENDS OllamaExecution, Sequences, FiniteSets

CONSTANTS
    Prompts,         \* the prompts that may be sent
    Probes,          \* the readiness probes that may be sent
    Models,          \* the models the registry may name in a plan
    Replies,         \* the replies Ollama may give
    MaxConnections   \* limits.max_connections of config/ollama.yaml

ASSUME MaxConnectionsAssumption == MaxConnections \in Nat \ {0}

\* A name of a model is not empty (registry_models.py:23-44).
ASSUME ModelsAssumption == "" \notin Models

ASSUME RepliesAssumption == \A r \in Replies : IsReply(r)

\* What the calls of Ollama end with, once they have a connection.
Outcomes == Replies \cup {Thrown(e) : e \in Exceptions \ {"PoolTimeout"}}

RoutingErrors == {PublicError(422, "INVALID_PROFILE"), PublicError(422, "UNROUTED"),
                  PublicError(409, "AMBIGUOUS_ROUTE"), PublicError(500, "INTERNAL_ERROR")}

\* An exception of a dependency is outside the handler's try: the framework
\* answers 500, with no envelope.
PlainError == [status |-> 500, code |-> None]

\* What a client may be answered.
Answers == RoutingErrors \cup {PlainError, Success}
           \cup {PublicError(502, "MODEL_SERVICE_ERROR"),
                 PublicError(503, "MODEL_SERVICE_UNAVAILABLE"),
                 PublicError(504, "MODEL_SERVICE_TIMEOUT")}

ASSUME NoneAssumption == None \notin Outcomes \cup {Thrown("PoolTimeout")} \cup Answers

ASSUME NoCodeAssumption == None \notin DOMAIN ExecutionCode

VARIABLES
    drains,     \* the server waits for the requests in flight, whatever it is
    phase,      \* where the lifespan is
    context,    \* app.state.runtime_context is set
    executor,   \* app.state.ollama_executor is set
    closed,     \* OllamaExecutor._closed
    stage,      \* where each prompt is
    routing,    \* what routing made of it: a public error or [model |-> m]
    waiting,    \* the prompts waiting for a connection, in order
    outcome,    \* what the call of Ollama came to, None before
    answer,     \* the answer of each prompt, None before
    probe       \* where each probe is, in the end what it was told

lifespan == <<drains, phase, context, executor, closed>>
handling == <<stage, routing, waiting, outcome, answer>>
vars == <<lifespan, handling, probe>>

Routings == RoutingErrors \cup [model : Models]

Routable(r) == "model" \in DOMAIN r

Calling == {p \in Prompts : stage[p] = "calling"}

InFlight == \/ \E p \in Prompts : stage[p] \notin {"unsent", "answered"}
            \/ \E b \in Probes : probe[b] \in {"sent", "has_context"}

Init ==
    /\ drains \in BOOLEAN
    /\ phase = "starting" /\ context = FALSE /\ executor = FALSE /\ closed = FALSE
    /\ stage = [p \in Prompts |-> "unsent"]
    /\ routing = [p \in Prompts |-> None]
    /\ waiting = << >>
    /\ outcome = [p \in Prompts |-> None]
    /\ answer = [p \in Prompts |-> None]
    /\ probe = [b \in Probes |-> "unsent"]

-----------------------------------------------------------------------------
(* The lifespan                                                            *)

\* Bootstrapping, loading config/ollama.yaml and building the executor may each
\* raise, and nothing is published then; none of them awaits.
Start ==
    /\ phase = "starting"
    /\ \/ phase' = "serving" /\ context' = TRUE /\ executor' = TRUE
       \/ phase' = "failed" /\ UNCHANGED <<context, executor>>
    /\ UNCHANGED <<drains, closed, handling, probe>>

\* The server is told to stop; it accepts nothing from here on if it drains.
Stop ==
    /\ phase = "serving"
    /\ phase' = "stopping"
    /\ UNCHANGED <<drains, context, executor, closed, handling, probe>>

\* aclose up to its await, a mutant that sets _closed only after it, ...
CloseExecutorLate ==
    /\ phase = "stopping"
    /\ drains => ~InFlight
    /\ phase' = "closing"
    /\ UNCHANGED <<drains, context, executor, closed, handling, probe>>

CloseExecutor ==
    /\ phase = "stopping"
    /\ drains => ~InFlight
    /\ closed' = TRUE
    /\ phase' = "closing"
    /\ UNCHANGED <<drains, context, executor, handling, probe>>

\* ... the end of that await, by return or by exception (the mutant skips what
\* is left of the finally clause when it is by exception), ...
CloseClientNoFinally ==
    /\ phase = "closing"
    /\ phase' \in {"closed", "failed"}
    /\ UNCHANGED <<drains, context, executor, closed, handling, probe>>

CloseClient ==
    /\ phase = "closing"
    /\ phase' \in {"closed", "close_failed"}
    /\ UNCHANGED <<drains, context, executor, closed, handling, probe>>

\* ... and the two dels, executor first.  The mutants: the context first, and
\* nothing deleted when closing the client has failed.
UnpublishContextFirst ==
    /\ phase \in {"closed", "close_failed"}
    /\ \/ context /\ context' = FALSE /\ UNCHANGED <<phase, executor>>
       \/ ~context /\ executor' = FALSE /\ UNCHANGED context
          /\ phase' = IF phase = "closed" THEN "stopped" ELSE "failed"
    /\ UNCHANGED <<drains, closed, handling, probe>>

UnpublishIfClosed ==
    /\ phase = "closed"
    /\ \/ executor /\ executor' = FALSE /\ UNCHANGED <<phase, context>>
       \/ ~executor /\ context' = FALSE /\ phase' = "stopped" /\ UNCHANGED executor
    /\ UNCHANGED <<drains, closed, handling, probe>>

Unpublish ==
    /\ phase \in {"closed", "close_failed"}
    /\ \/ executor /\ executor' = FALSE /\ UNCHANGED <<phase, context>>
       \/ ~executor /\ context' = FALSE /\ UNCHANGED executor
          /\ phase' = IF phase = "closed" THEN "stopped" ELSE "failed"
    /\ UNCHANGED <<drains, closed, handling, probe>>

-----------------------------------------------------------------------------
(* A prompt                                                                *)

Accepting == \/ phase = "serving"
             \/ ~drains /\ phase \in {"stopping", "closing", "closed", "close_failed"}

Send(p) ==
    /\ stage[p] = "unsent" /\ Accepting
    /\ stage' = [stage EXCEPT ![p] = "sent"]
    /\ UNCHANGED <<lifespan, routing, waiting, outcome, answer, probe>>

Respond(p, a) ==
    /\ stage' = [stage EXCEPT ![p] = "answered"]
    /\ answer' = [answer EXCEPT ![p] = a]

\* get_runtime_context, on a worker thread
ReadContext(p) ==
    /\ stage[p] = "sent"
    /\ IF context THEN stage' = [stage EXCEPT ![p] = "has_context"] /\ UNCHANGED answer
                  ELSE Respond(p, PlainError)
    /\ UNCHANGED <<lifespan, routing, waiting, outcome, probe>>

\* get_ollama_executor, on a worker thread
ReadExecutor(p) ==
    /\ stage[p] = "has_context"
    /\ IF executor THEN stage' = [stage EXCEPT ![p] = "ready"] /\ UNCHANGED answer
                   ELSE Respond(p, PlainError)
    /\ UNCHANGED <<lifespan, routing, waiting, outcome, probe>>

\* The pool gives a prompt a connection at once, if one is left and nobody waits,
\* and queues it otherwise.
AskForConnection(p) ==
    /\ IF waiting = << >> /\ Cardinality(Calling) < MaxConnections
       THEN /\ stage' = [stage EXCEPT ![p] = "calling"]
            /\ UNCHANGED waiting
       ELSE /\ stage' = [stage EXCEPT ![p] = "waiting"]
            /\ waiting' = Append(waiting, p)
    /\ UNCHANGED answer

\* post_prompt up to the await of the call: the prompt is routed, and refused or,
\* unless the executor was closed meanwhile, handed to the client.
Handle(p) ==
    /\ stage[p] = "ready"
    /\ \E r \in Routings :
           /\ routing' = [routing EXCEPT ![p] = r]
           /\ IF Routable(r) /\ ~closed
              THEN AskForConnection(p)
              ELSE /\ Respond(p, IF Routable(r) THEN PublicError(500, "INTERNAL_ERROR")
                                                ELSE r)
                   /\ UNCHANGED waiting
    /\ UNCHANGED <<lifespan, outcome, probe>>

\* A connection that was freed goes to the prompt that waits longest.
Connect(p) ==
    /\ stage[p] = "waiting" /\ Head(waiting) = p
    /\ Cardinality(Calling) < MaxConnections
    /\ stage' = [stage EXCEPT ![p] = "calling"]
    /\ waiting' = Tail(waiting)
    /\ UNCHANGED <<lifespan, routing, outcome, answer, probe>>

\* The queue once prompt p has left it, from wherever it stands.
Without(p) ==
    LET place == CHOOSE i \in DOMAIN waiting : waiting[i] = p
    IN  IF stage[p] = "waiting"
        THEN SubSeq(waiting, 1, place - 1) \o SubSeq(waiting, place + 1, Len(waiting))
        ELSE waiting

\* The end of the await: what the executor and the handler make of outcome o.
Settle(p, o) ==
    /\ outcome' = [outcome EXCEPT ![p] = o]
    /\ Respond(p, ModelAnswer(o, routing[p].model))
    /\ UNCHANGED routing

\* pool_seconds are over before the prompt was given a connection: while all are
\* taken, or just as one is freed that has not been handed on yet.
Expire(p) ==
    /\ stage[p] = "waiting"
    /\ waiting' = Without(p)
    /\ Settle(p, Thrown("PoolTimeout"))
    /\ UNCHANGED <<lifespan, probe>>

\* Mutants of Finish: a failed call is made again; the executor is used as the
\* context manager it also is, and closed with the first call.
FinishRetries(p) ==
    /\ stage[p] = "calling"
    /\ \E o \in Outcomes :
           IF IsThrown(o)
           THEN /\ stage' = [stage EXCEPT ![p] = "waiting"]
                /\ waiting' = Append(waiting, p)
                /\ UNCHANGED <<routing, outcome, answer>>
           ELSE Settle(p, o) /\ UNCHANGED waiting
    /\ UNCHANGED <<lifespan, probe>>

FinishCloses(p) ==
    /\ stage[p] = "calling"
    /\ \E o \in Outcomes : Settle(p, o)
    /\ closed' = TRUE
    /\ UNCHANGED <<drains, phase, context, executor, waiting, probe>>

\* The call of Ollama raises or returns.
Finish(p) ==
    /\ stage[p] = "calling"
    /\ \E o \in Outcomes : Settle(p, o)
    /\ UNCHANGED <<lifespan, waiting, probe>>

\* A server that does not drain may cancel a handler it no longer waits for; the
\* exception passes every except clause, and nobody is answered.
Cancel(p) ==
    /\ ~drains /\ phase = "stopping"
    /\ stage[p] \in {"ready", "waiting", "calling"}
    /\ stage' = [stage EXCEPT ![p] = "cancelled"]
    /\ waiting' = Without(p)
    /\ UNCHANGED <<lifespan, routing, outcome, answer, probe>>

-----------------------------------------------------------------------------
(* A readiness probe: get_readiness on a worker thread                      *)

SendProbe(b) ==
    /\ probe[b] = "unsent" /\ Accepting
    /\ probe' = [probe EXCEPT ![b] = "sent"]
    /\ UNCHANGED <<lifespan, handling>>

ProbeContext(b) ==
    /\ probe[b] = "sent"
    /\ probe' = [probe EXCEPT ![b] = IF context THEN "has_context" ELSE "not_ready"]
    /\ UNCHANGED <<lifespan, handling>>

ProbeExecutor(b) ==
    /\ probe[b] = "has_context"
    /\ probe' = [probe EXCEPT ![b] = IF executor THEN "ready" ELSE "not_ready"]
    /\ UNCHANGED <<lifespan, handling>>

-----------------------------------------------------------------------------
Progress(p) == ReadContext(p) \/ ReadExecutor(p) \/ Handle(p)
               \/ Connect(p) \/ Expire(p) \/ Finish(p)

ProbeProgress(b) == ProbeContext(b) \/ ProbeExecutor(b)

Shutdown == CloseExecutor \/ CloseClient \/ Unpublish

Next ==
    \/ Start \/ Stop \/ Shutdown
    \/ \E p \in Prompts : Send(p) \/ Progress(p) \/ Cancel(p)
    \/ \E b \in Probes : SendProbe(b) \/ ProbeProgress(b)

\* Worker threads and the event loop run what is ready; every await of a call
\* ends, by its timeout at the latest; clients and the operator owe nothing.
Fairness ==
    /\ WF_vars(Start) /\ WF_vars(Shutdown)
    /\ \A p \in Prompts : WF_vars(Progress(p))
    /\ \A b \in Probes : WF_vars(ProbeProgress(b))

Spec == Init /\ [][Next]_vars /\ Fairness

-----------------------------------------------------------------------------
(* Properties                                                              *)

Phases == {"starting", "serving", "stopping", "closing", "closed", "close_failed",
           "stopped", "failed"}
Stages == {"unsent", "sent", "has_context", "ready", "waiting", "calling",
           "answered", "cancelled"}

\* The type invariant: in particular the queue of the pool holds the waiting
\* prompts, each once, and a prompt has an answer exactly when it is answered.
TypeOK ==
    /\ drains \in BOOLEAN
    /\ phase \in Phases
    /\ {context, executor, closed} \subseteq BOOLEAN
    /\ stage \in [Prompts -> Stages]
    /\ routing \in [Prompts -> Routings \cup {None}]
    /\ waiting \in Seq(Prompts)
    /\ \A p \in Prompts :
           Cardinality({i \in DOMAIN waiting : waiting[i] = p})
               = (IF stage[p] = "waiting" THEN 1 ELSE 0)
    /\ outcome \in [Prompts -> Outcomes \cup {None, Thrown("PoolTimeout")}]
    /\ answer \in [Prompts -> Answers \cup {None}]
    /\ \A p \in Prompts : (answer[p] # None) = (stage[p] = "answered")
    /\ probe \in [Probes -> {"unsent", "sent", "has_context", "ready", "not_ready"}]

\* A client is given a text (200) only when Ollama replied with a complete, non-
\* blank answer of the very model the plan names, whatever happened to the
\* service meanwhile (executor.py:159-265, routes.py:223).
SuccessIsGenuine ==
    \A p \in Prompts :
        answer[p] = Success => /\ Routable(routing[p]) /\ outcome[p] # None
                               /\ Genuine(outcome[p], routing[p].model)

\* The blame a client reads in the status is the right one after three tables of
\* translation: 504 for an Ollama that was too slow, 503 for one that could not be
\* reached, 502 for one that answered badly, and 500 for what the tables do not
\* name.  Two failures of Ollama are among these: a body the client could not
\* decode, and a proper reply with numbers no float holds
\* (httpx2_transport.py:42-115, executor.py:23-71, routes.py:47-112, 215-221).
Measured(reply) == [reply EXCEPT !.count    = IF @ = "huge" THEN "valid" ELSE @,
                                 !.duration = IF @ = "huge" THEN "valid" ELSE @]

Proper(o, model) == ~IsThrown(o) /\ Genuine(Measured(o), model)

Blames(status, o, model) ==
    LET cause == IF IsThrown(o) THEN o.exception ELSE "replied"
    IN  /\ status = 504 <=> cause \in Slow
        /\ status = 503 <=> cause \in Unreachable
        /\ status = 502 <=> \/ cause \in {"ProtocolError", "UnsupportedProtocol"}
                            \/ cause = "replied" /\ ~Proper(o, model)
        /\ status = 500 <=> \/ cause \in Uncaught
                            \/ Proper(o, model) /\ HugeMetrics(o)

BlameIsRight ==
    \A p \in Prompts : answer[p] # None /\ outcome[p] # None =>
        Blames(answer[p].status, outcome[p], routing[p].model)

\* A body that cannot be decoded is what the transport calls an invalid response
\* (httpx2_transport.py:102-115), and an invalid response is a 502 (routes.py:86-90,
\* docs/API.md:188).
UndecodableIsBadReply ==
    \A p \in Prompts :
        answer[p] # None /\ outcome[p] = Thrown("DecodingError") => answer[p].status = 502

\* Under a server that drains, a shutdown is invisible: a client is answered 500
\* only because of routing or of what Ollama did, never because the executor or
\* the context was taken away under its prompt (app.py:41-47, executor.py:109).
ShutdownIsInvisible ==
    drains => \A p \in Prompts :
        answer[p] # None /\ answer[p].status = 500 =>
            outcome[p] # None \/ routing[p] = PublicError(500, "INTERNAL_ERROR")

\* Once the lifespan is over nothing is left on app.state, even when closing the
\* client has raised (the nested finally, app.py:41-47).
NothingLeftPublished == phase \in {"stopped", "failed"} => ~context /\ ~executor

\* A probe is told "ready", and a prompt passes its dependencies, only at a moment
\* both the context and the executor are published, although each is read in a
\* step of its own while the lifespan may be deleting them: the order of the dels
\* is the reverse of the order of the reads (app.py:46-47, routes.py:155-156).
UsesPublished ==
    /\ \A b \in Probes :
           probe[b] # "ready" /\ probe'[b] = "ready" => context /\ executor
    /\ \A p \in Prompts :
           stage[p] # "ready" /\ stage'[p] = "ready" => context /\ executor

PublishedWhenUsed == [][UsesPublished]_vars

\* From the moment the client's aclose is awaited no further prompt is handed to
\* the client, although the handlers still run (executor.py:109-119, 291-296).
WithClient == {p \in Prompts : stage[p] \in {"waiting", "calling"}}

HandsOverBeforeClosing ==
    phase \notin {"serving", "stopping"} => WithClient' \subseteq WithClient

NoCallOnceClosing == [][HandsOverBeforeClosing]_vars

\* A shutdown ends, with success or with failure, whatever Ollama and the clients
\* do (app.py:41-47).
ShutdownEnds == phase = "stopping" ~> phase \in {"stopped", "failed"}

\* An accepted prompt is answered in the end, unless a server that does not drain
\* has cancelled its handler (routes.py:170-244).
AcceptedIsAnswered ==
    \A p \in Prompts :
        stage[p] = "sent" ~> \/ stage[p] = "answered"
                             \/ ~drains /\ stage[p] = "cancelled"

\* The service implements PromptContract.
Told ==
    [p \in Prompts |->
        CASE stage[p] = "unsent" -> "unsent"
          [] stage[p] \in {"sent", "has_context", "ready", "waiting"} -> "accepted"
          [] stage[p] = "calling" -> "asked"
          [] stage[p] = "cancelled" -> "abandoned"
          [] OTHER -> "answered"]

StatusTold == [p \in Prompts |-> IF stage[p] = "answered" THEN answer[p].status ELSE 0]

Contract == INSTANCE PromptContract WITH progress <- Told, status <- StatusTold

\* Every prompt is answered once, or abandoned by a server that does not drain;
\* Ollama is asked at most once for it and by no more prompts at a time than there
\* are connections, and success takes a call.
KeepsContract == Contract!Spec
=============================================================================
