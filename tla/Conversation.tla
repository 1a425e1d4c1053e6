---------------------------- MODULE Conversation ----------------------------
(***************************************************************************)
(* What becomes of the data of a prompt on its way to Ollama and back: the *)
(* public models the framework validates a body with and the handler       *)
(* answers with (http_api/models.py), the adapter (router_adapter.py), the *)
(* models of an execution (ollama_execution/models.py), and the chat the   *)
(* executor composes (executor.py).  The service keeps nothing between two *)
(* prompts: a client that wants a conversation replays its exchanges in    *)
(* the history of every prompt.  Here is one such client; it may also send *)
(* any other body.                                                         *)
(*                                                                         *)
(* A text is [core, padded, chars, bytes]: what it says ("" if it is blank *)
(* or empty), whether whitespace surrounds it, its length in characters,   *)
(* and its length as the client encodes it.  NotText stands for a JSON     *)
(* value that is no string, Absent for a field the body leaves out.        *)
(* Routing is represented by what Router shows of it: AutomaticDecisions   *)
(* are outcomes that keep the contract of RouteDecision.                   *)
(***************************************************************************)
EXTENDS OllamaExecution

LOCAL INSTANCE FiniteSetsExt

CONSTANTS
    Texts, NotText, Absent,
    Profiles,             \* [id -> enabled], of ruleset and registry alike
    SystemPrompt,         \* [id -> text]
    AutomaticDecisions,   \* what decide_route may make of a message
    Questions,            \* values of the field message
    Selections,           \* values of the field explicit_profile
    Histories,            \* values of the field history, beside the replayed one
    Outcomes,             \* what a call of Ollama may come to
    MaxTurns              \* bound: exchanges of one conversation

\* What is shown of an automatic decision in RouterProofs (DecisionsArePresentable).
ASSUME DecisionsAssumption ==
    \A d \in AutomaticDecisions :
        \/ Failed(d)
        \/ /\ SatisfiesContract(d) /\ d.state \in {"routed", "ambiguous", "unrouted"}
           /\ d.state = "routed" => d.profile \in DOMAIN Profiles /\ Profiles[d.profile]
           /\ \A i \in DOMAIN d.candidates :
                  /\ d.candidates[i].profile \in DOMAIN Profiles
                  /\ d.candidates[i].comparison_score \in Nat

\* Ids are not blank, nor are system prompts (registry_models.py).
ASSUME ProfilesAssumption ==
    /\ Profiles \in [DOMAIN Profiles -> BOOLEAN]
    /\ "" \notin DOMAIN Profiles /\ None \notin DOMAIN Profiles
    /\ \A p \in DOMAIN Profiles : SystemPrompt[p] \in Texts /\ SystemPrompt[p].core # ""

ASSUME BoundAssumption == MaxTurns \in Nat

VARIABLES
    turns,      \* the exchanges the client has had, as it knows them
    spoken,     \* the same exchanges as Ollama had them
    stage,      \* where the current prompt is
    body,       \* its body
    decision,   \* what routing made of it, None before
    payload,    \* what Ollama was asked, None if it was not
    outcome,    \* what that came to, None before
    answer      \* what the client was answered, None before

vars == <<turns, spoken, stage, body, decision, payload, outcome, answer>>

registry == [p \in DOMAIN Profiles |-> [enabled |-> Profiles[p], model |-> p]]

-----------------------------------------------------------------------------
(* PromptRequest                                                           *)

MaxMessageChars == 16384
MaxProfileChars == 128

IsText(v)   == v # NotText /\ v # Absent /\ v # None
NotBlank(v) == IsText(v) /\ v.core # ""

IsList(history) == history \notin {Absent, None, NotText}

ASSUME TextsAssumption ==
    /\ \A t \in Texts : IsText(t)
    /\ Questions \subseteq Texts \cup {NotText}
    /\ \A s \in Selections : IsText(s) => s.core # None
    /\ \A h \in Histories :
           IsList(h) => h \in Seq([user : Texts \cup {NotText}, assistant : Texts \cup {NotText}])

\* A reply that passes the executor's checks has a text that is not blank, a count
\* and a duration (executor.py).
ASSUME OutcomesAssumption ==
    \A o \in Outcomes :
        /\ o.text \in Texts
        /\ \/ o.reply \in {Thrown(e) : e \in Exceptions}
           \/ /\ IsReply(o.reply)
              /\ o.reply.content = "text" => o.text.core # ""
              /\ o.reply.count = "valid" => o.tokens \in Nat
              /\ o.reply.duration = "valid" => o.duration \in Nat \ {0}

\* Mutants: what a user said earlier is bounded like a message; a turn may be blank.
ValidTurnBounded(turn) ==
    /\ NotBlank(turn.user) /\ NotBlank(turn.assistant)
    /\ turn.user.chars <= MaxMessageChars /\ turn.assistant.chars <= MaxMessageChars

ValidTurnBlank(turn) == IsText(turn.user) /\ IsText(turn.assistant)

ValidTurn(turn) == NotBlank(turn.user) /\ NotBlank(turn.assistant)

ValidRequest(b) ==
    /\ ~b.extra
    /\ NotBlank(b.message) /\ b.message.chars <= MaxMessageChars
    /\ b.history # Absent =>
           IsList(b.history) /\ \A i \in DOMAIN b.history : ValidTurn(b.history[i])
    /\ b.explicit_profile \notin {Absent, None} =>
           NotBlank(b.explicit_profile) /\ b.explicit_profile.chars <= MaxProfileChars

HistoryOf(b) == IF b.history = Absent THEN << >> ELSE b.history

\* The body as the client encodes it, without optional whitespace: what the texts
\* take, and the names, quotes and punctuation around them.
Encoded(v) == IF IsText(v) THEN v.bytes ELSE 4

BodyBytes(b) ==
    14 + Encoded(b.message)
    + (IF b.explicit_profile = Absent THEN 0 ELSE 22 + Encoded(b.explicit_profile))
    + (IF ~IsList(b.history) THEN 0
       ELSE 13 + MapThenSumSet(LAMBDA i : 27 + Encoded(b.history[i].user)
                                             + Encoded(b.history[i].assistant),
                               DOMAIN b.history))

MaxRequestBodyBytes == 65536

-----------------------------------------------------------------------------
(* What is answered                                                        *)

FrameworkRefusal == [status |-> 422, kind |-> "detail"]

ErrorBody(status, code, candidates) ==
    [status |-> status, kind |-> "error", code |-> code, candidates |-> candidates]

Internal == ErrorBody(500, "INTERNAL_ERROR", None)

\* AmbiguousCandidate and ErrorEnvelope.validate_candidates_coherence
CoherentError(code, candidates) ==
    IF code = "AMBIGUOUS_ROUTE"
    THEN /\ candidates # None /\ Len(candidates) >= 2
         /\ \A i \in DOMAIN candidates :
             candidates[i].profile # "" /\ candidates[i].comparison_score >= 0
    ELSE candidates = None

\* A model that refuses its fields raises inside the handler's try.
PublicBody(status, code, candidates) ==
    IF CoherentError(code, candidates) THEN ErrorBody(status, code, candidates)
                                       ELSE Internal

\* The candidates an error carries; the mutant turns their order round.
PublicCandidatesReversed(d) ==
    IF ~Failed(d) /\ d.state = "ambiguous"
    THEN [i \in DOMAIN d.candidates |-> d.candidates[Len(d.candidates) + 1 - i]]
    ELSE None

PublicCandidates(d) ==
    IF ~Failed(d) /\ d.state = "ambiguous" THEN d.candidates ELSE None

\* PromptMetrics
ValidMetrics(tokens, duration) == tokens >= 0 /\ duration > 0

\* PromptResponse
ValidResponse(r) ==
    /\ r.response.core # "" /\ r.profile # "" /\ r.model # ""
    /\ (r.state = "routed") = (r.route_id # None)
    /\ ValidMetrics(r.tokens, r.duration)

PromptBody(r) ==
    IF ValidResponse(r) THEN [status |-> 200, kind |-> "prompt", prompt |-> r]
                        ELSE Internal

-----------------------------------------------------------------------------
(* What Ollama is asked                                                    *)

\* OllamaExecutionTurn and OllamaExecutionRequest
ValidExecution(b) ==
    /\ b.message.core # ""
    /\ \A i \in DOMAIN HistoryOf(b) :
           HistoryOf(b)[i].user.core # "" /\ HistoryOf(b)[i].assistant.core # ""

Says(role, text) == [role |-> role, content |-> text]

\* A mutant: the two texts of a turn are swapped.
TurnMessagesSwapped(history) ==
    [i \in 1..(2 * Len(history)) |->
        LET turn == history[(i + 1) \div 2]
        IN  IF i % 2 = 0 THEN Says("user", turn.user)
                         ELSE Says("assistant", turn.assistant)]

TurnMessages(history) ==
    [i \in 1..(2 * Len(history)) |->
        LET turn == history[(i + 1) \div 2]
        IN  IF i % 2 = 1 THEN Says("user", turn.user)
                         ELSE Says("assistant", turn.assistant)]

ChatPayload(plan, b) ==
    [model |-> plan.model,
     messages |-> << Says("system", SystemPrompt[plan.profile_id]) >>
                  \o TurnMessages(HistoryOf(b)) \o << Says("user", b.message) >>]

-----------------------------------------------------------------------------
Init ==
    /\ turns = << >> /\ spoken = << >> /\ stage = "idle"
    /\ body = None /\ decision = None /\ payload = None
    /\ outcome = None /\ answer = None

Bodies ==
    [message : Questions, history : Histories \cup {turns},
     explicit_profile : Selections, extra : BOOLEAN]

Send ==
    /\ stage = "idle" /\ Len(turns) < MaxTurns
    /\ body' \in Bodies
    /\ stage' = "sent"
    /\ UNCHANGED <<turns, spoken, decision, payload, outcome, answer>>

\* A mutant: the answer is not sent.
RespondSilently(a) == stage' = "answered" /\ UNCHANGED answer

Respond(a) == stage' = "answered" /\ answer' = a

\* The body limit, then the framework's validation, refuse before the handler runs.
RefuseBody ==
    /\ stage = "sent"
    /\ \/ BodyBytes(body) > MaxRequestBodyBytes
          /\ Respond(ErrorBody(413, "REQUEST_TOO_LARGE", None))
       \/ BodyBytes(body) <= MaxRequestBodyBytes /\ ~ValidRequest(body)
          /\ Respond(FrameworkRefusal)
    /\ UNCHANGED <<turns, spoken, body, decision, payload, outcome>>

\* decide_route: a profile named in the body leaves no choice; a padded name is
\* the name of no profile.
Decisions(b) ==
    IF b.explicit_profile \in {Absent, None}
    THEN AutomaticDecisions
    ELSE {DecideRoute([explicit_profile |-> IF b.explicit_profile.padded THEN "padded"
                                            ELSE b.explicit_profile.core],
                      [profiles |-> Profiles])}

\* post_prompt up to its await
Handle ==
    /\ stage = "sent"
    /\ BodyBytes(body) <= MaxRequestBodyBytes /\ ValidRequest(body)
    /\ \E d \in Decisions(body) :
           LET routed == Answer(d, registry)
           IN  /\ decision' = d
               /\ IF "status" \in DOMAIN routed
                  THEN /\ Respond(PublicBody(routed.status, routed.code,
                                             PublicCandidates(d)))
                       /\ UNCHANGED payload
                  ELSE IF ~ValidExecution(body)
                  THEN Respond(Internal) /\ UNCHANGED payload
                  ELSE /\ stage' = "asked"
                       /\ payload' = ChatPayload(routed, body)
                       /\ UNCHANGED answer
    /\ UNCHANGED <<turns, spoken, body, outcome>>

\* post_prompt after its await
Settle ==
    /\ stage = "asked"
    /\ \E o \in Outcomes :
           LET plan   == Answer(decision, registry)
               result == ModelAnswer(o.reply, plan.model)
           IN  /\ outcome' = o
               /\ Respond(
                      IF result # Success
                      THEN PublicBody(result.status, result.code, None)
                      ELSE PromptBody(
                             [response |-> o.text, profile |-> plan.profile_id,
                              model |-> o.reply.model, state |-> plan.source_state,
                              route_id |-> plan.route_id,
                              tokens |-> o.tokens, duration |-> o.duration]))
    /\ UNCHANGED <<turns, spoken, body, decision, payload>>

Replayed == HistoryOf(body) = turns

\* The client takes note of an answer that carries its conversation on.
Note ==
    /\ stage = "answered"
    /\ stage' = "idle"
    /\ IF answer.status = 200 /\ Replayed
       THEN /\ turns' = Append(turns, [user |-> body.message,
                                       assistant |-> answer.prompt.response])
            /\ spoken' = Append(spoken,
                                [user |-> payload.messages[Len(payload.messages)].content,
                                 assistant |-> outcome.text])
       ELSE UNCHANGED <<turns, spoken>>
    /\ body' = None /\ decision' = None /\ payload' = None
    /\ outcome' = None /\ answer' = None

Next == Send \/ RefuseBody \/ Handle \/ Settle \/ Note

Spec == Init /\ [][Next]_vars

-----------------------------------------------------------------------------
(* Properties                                                              *)

(* The values a prompt goes through, and the sentinels beside them.         *)
Exchange == [user : Texts, assistant : Texts]

Returned == {d \in AutomaticDecisions : ~Failed(d)}

NamedDecisions == {Explicit(p) : p \in DOMAIN Profiles} \cup {Raised("INVALID_PROFILE")}

Payloads ==
    [model : DOMAIN Profiles,
     messages : Seq([role : {"system", "user", "assistant"}, content : Texts])]

Prompts ==
    [response : Texts, profile : DOMAIN Profiles, model : DOMAIN Profiles,
     state : {"routed", "explicit"}, route_id : {None} \cup {d.route_id : d \in Returned},
     tokens : Nat, duration : Nat]

Codes == {"AMBIGUOUS_ROUTE", "UNROUTED", "INVALID_PROFILE", "REQUEST_TOO_LARGE",
          "MODEL_SERVICE_TIMEOUT", "MODEL_SERVICE_UNAVAILABLE", "MODEL_SERVICE_ERROR",
          "INTERNAL_ERROR"}

Answers ==
    {FrameworkRefusal}
    \cup [status : {200}, kind : {"prompt"}, prompt : Prompts]
    \cup [status : {409, 413, 422, 500, 502, 503, 504}, kind : {"error"}, code : Codes,
          candidates : {None} \cup {d.candidates : d \in Returned}]

\* Python's None, a missing field and a value of another type are none of these.
ASSUME SentinelsAssumption ==
    /\ \A s \in {None, NotText, Absent} : s \notin Seq(Exchange)
    /\ None \notin AutomaticDecisions \cup NamedDecisions \cup Payloads
    /\ None \notin Outcomes \cup Answers /\ None # "padded"
    /\ \A d \in Returned : d.candidates # None

\* The type invariant: in particular the two accounts of the conversation are as
\* long, and Ollama was asked exactly by the prompts routing gave a plan for.
TypeOK ==
    /\ turns \in Seq(Exchange) /\ spoken \in Seq(Exchange)
    /\ Len(turns) = Len(spoken) /\ Len(turns) <= MaxTurns
    /\ stage \in {"idle", "sent", "asked", "answered"}
    /\ decision \in AutomaticDecisions \cup NamedDecisions \cup {None}
    /\ payload \in Payloads \cup {None}
    /\ answer \in Answers \cup {None} /\ (stage = "answered" => answer # None)
    /\ payload # None => decision # None /\ decision.state \in {"explicit", "routed"}
    /\ outcome # None => payload # None

\* Ollama hears the conversation it took part in: whatever a client that replays
\* its exchanges asks, the messages are the system prompt of the profile decided
\* on, then every earlier question as Ollama was asked it and every earlier reply
\* as Ollama gave it, in order and to the letter, then the new question
\* (models.py:133-141, routes.py:200-210, executor.py:123-150, routes.py:223-224).
HearsTheConversation ==
    payload # None /\ Replayed =>
        LET m == payload.messages
            n == Len(spoken)
        IN  /\ Len(m) = 2 * n + 2
            /\ m[1] = Says("system", SystemPrompt[decision.profile])
            /\ \A i \in 1..n : /\ m[2 * i] = Says("user", spoken[i].user)
                               /\ m[2 * i + 1] = Says("assistant", spoken[i].assistant)
            /\ m[2 * n + 2] = Says("user", body.message)

\* A conversation can go on: what the service answered may be replayed to it.  A
\* client that sends a valid question, with the exchanges it has had, meets no
\* validation error, whatever Ollama's replies were like; only the body limit ends
\* the conversation (models.py:86-141, body_limit.py:46).
ValidQuestion ==
    /\ body.explicit_profile = Absent /\ ~body.extra
    /\ NotBlank(body.message) /\ body.message.chars <= MaxMessageChars

ConversationGoesOn ==
    answer # None /\ Replayed /\ ValidQuestion =>
        answer.kind # "detail"

\* Layers agree on what is acceptable: no model of an inner layer refuses what the
\* models of the layers before it let through, so that a client is answered 500
\* only for a failure of routing (BootChecksSuffice of Router says which there are),
\* of a call by an exception the transport does not name, or of the rate of numbers
\* no float holds (models.py of both packages, dispatcher_models.py).
InnerModelsAccept ==
    answer # None /\ answer.status = 500 =>
        \/ decision # None /\ Failed(decision)
        \/ /\ outcome # None
           /\ \/ IsThrown(outcome.reply) /\ outcome.reply.exception \in Uncaught
              \/ ~IsThrown(outcome.reply) /\ HugeMetrics(outcome.reply)

\* A client can tell from the answer what routing decided: 409 with the candidates
\* of an ambiguous decision in its order, 200 with its profile and route, and no
\* candidates or route beside these (router_adapter.py:56-70, routes.py:223-236).
AnswersTellTheDecision ==
    answer # None =>
        /\ (answer.status = 409) <=>
               (decision # None /\ ~Failed(decision) /\ decision.state = "ambiguous")
        /\ answer.kind = "error" =>
               answer.candidates = IF answer.status = 409 THEN decision.candidates
                                                          ELSE None
        /\ answer.kind = "prompt" =>
               /\ answer.prompt.profile = decision.profile
               /\ answer.prompt.route_id = decision.route_id
               /\ answer.prompt.state = decision.state
=============================================================================
