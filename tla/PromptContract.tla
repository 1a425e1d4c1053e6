--------------------------- MODULE PromptContract ---------------------------
(***************************************************************************)
(* What POST /v1/prompt promises a client, whatever becomes of the service *)
(* or of Ollama: a prompt that is accepted is answered, once; Ollama is    *)
(* asked at most once for it, and never by more prompts at a time than the *)
(* configured connections; and only a prompt Ollama was asked about is     *)
(* answered with success.  A server that does not drain may abandon a      *)
(* prompt instead of answering it.                                         *)
(***************************************************************************)
EXTENDS Naturals, FiniteSets

CONSTANTS
    Prompts,         \* the prompts the clients may send
    MaxConnections   \* limits.max_connections of config/ollama.yaml

VARIABLES
    drains,     \* the server waits for the requests in flight before it stops
    progress,   \* how far each prompt is
    status      \* the HTTP status it was answered with, 0 before that

vars == <<drains, progress, status>>

Init ==
    /\ drains \in BOOLEAN
    /\ progress = [p \in Prompts |-> "unsent"]
    /\ status = [p \in Prompts |-> 0]

Asked == {p \in Prompts : progress[p] = "asked"}

Accept(p) ==
    /\ progress[p] = "unsent"
    /\ progress' = [progress EXCEPT ![p] = "accepted"]
    /\ UNCHANGED <<drains, status>>

Ask(p) ==
    /\ progress[p] = "accepted"
    /\ Cardinality(Asked) < MaxConnections
    /\ progress' = [progress EXCEPT ![p] = "asked"]
    /\ UNCHANGED <<drains, status>>

AnswerWith(p, s) ==
    /\ progress[p] \in {"accepted", "asked"}
    /\ s = 200 => progress[p] = "asked"
    /\ progress' = [progress EXCEPT ![p] = "answered"]
    /\ status' = [status EXCEPT ![p] = s]
    /\ UNCHANGED drains

Answer(p) == \E s \in {200, 409, 422, 500, 502, 503, 504} : AnswerWith(p, s)

Abandon(p) ==
    /\ ~drains
    /\ progress[p] \in {"accepted", "asked"}
    /\ progress' = [progress EXCEPT ![p] = "abandoned"]
    /\ UNCHANGED <<drains, status>>

Next == \E p \in Prompts : Accept(p) \/ Ask(p) \/ Answer(p) \/ Abandon(p)

Spec == Init /\ [][Next]_vars /\ \A p \in Prompts : WF_vars(Answer(p))
=============================================================================
