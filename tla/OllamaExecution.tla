--------------------------- MODULE OllamaExecution ---------------------------
(***************************************************************************)
(* What one call of Ollama comes to: the exceptions of the HTTP client, as *)
(* the transport (httpx2_transport.py), the executor (executor.py) and the *)
(* handler (routes.py) translate them in turn, and the checks a reply must *)
(* pass before its text is returned.                                       *)
(*                                                                         *)
(* An outcome of a call is Thrown(e), e the exception the client raised,   *)
(* or a reply.  A reply keeps one value per answer the checks tell apart:  *)
(*   http     "success" | "failure"                                        *)
(*   body     "object" | "other" (JSON, no object) | "not_json"            *)
(*   model    the model named, or "" when it is absent, blank or no string *)
(*   message  "assistant" | "other_role" | "invalid" (no object)           *)
(*   content  "text" | "blank" | "invalid"                                 *)
(*   done     "true" | "false" | "invalid"                                 *)
(*   count    "valid" | "huge" (no float can hold it) | "invalid"          *)
(*   duration "valid" | "huge" (likewise) | "invalid"                      *)
(***************************************************************************)
EXTENDS Dispatch, Naturals

IsReply(r) ==
    r \in [http : {"success", "failure"}, body : {"object", "other", "not_json"},
          model : {r.model}, message : {"assistant", "other_role", "invalid"},
          content : {"text", "blank", "invalid"}, done : {"true", "false", "invalid"},
          count : {"valid", "huge", "invalid"}, duration : {"valid", "huge", "invalid"}]

\* What no except clause around post names.  The client decodes the body inside
\* post, so that its DecodingError is raised there, although the only clause to
\* name it is the one around response.json(); Unforeseen is any other exception.
Uncaught == {"DecodingError", "Unforeseen"}

Exceptions == {"ConnectTimeout", "ReadTimeout", "WriteTimeout", "PoolTimeout",
               "ProtocolError", "UnsupportedProtocol", "ConnectError",
               "ReadError", "WriteError", "CloseError"} \cup Uncaught

Thrown(e)         == [exception |-> e]
IsThrown(outcome) == "exception" \in DOMAIN outcome
Success           == [status |-> 200, code |-> "OK"]

\* Httpx2OllamaTransport.chat, the client's exceptions: the transport's code,
\* None when the exception is not caught.
TransportCode(exception) ==
    CASE exception = "ConnectTimeout" -> "CONNECT_TIMEOUT"
      [] exception = "ReadTimeout"    -> "READ_TIMEOUT"
      [] exception = "WriteTimeout"   -> "WRITE_TIMEOUT"
      [] exception = "PoolTimeout"    -> "POOL_TIMEOUT"
      [] exception \in {"ProtocolError", "UnsupportedProtocol"} -> "PROTOCOL_ERROR"
      [] exception \in {"ConnectError", "ReadError", "WriteError", "CloseError"} ->
             "NETWORK_ERROR"
      [] OTHER -> None

\* The mutant that trusts the reply to come from the model that was asked.
WrongModelNever(reply, model) == FALSE

WrongModel(reply, model) == reply.model # model

\* The tests chat and execute put a reply to, in the order they are made, each
\* with the code a reply that fails it is refused with.
ReplyTests(reply, model) ==
    << [fails |-> reply.http = "failure",      code |-> "HTTP_STATUS_ERROR"],
       [fails |-> reply.body = "not_json",     code |-> "INVALID_JSON_RESPONSE"],
       [fails |-> reply.body = "other",        code |-> "INVALID_RESPONSE"],
       [fails |-> reply.model = "",            code |-> "INVALID_RESPONSE"],
       [fails |-> WrongModel(reply, model),    code |-> "MODEL_MISMATCH"],
       [fails |-> reply.message # "assistant", code |-> "INVALID_RESPONSE"],
       [fails |-> reply.content = "invalid",   code |-> "INVALID_RESPONSE"],
       [fails |-> reply.content = "blank",     code |-> "EMPTY_RESPONSE"],
       [fails |-> reply.done = "invalid",      code |-> "INVALID_RESPONSE"],
       [fails |-> reply.done = "false",        code |-> "GENERATION_INCOMPLETE"],
       [fails |-> reply.count = "invalid",     code |-> "INVALID_RESPONSE"],
       [fails |-> reply.duration = "invalid",  code |-> "INVALID_RESPONSE"] >>

\* The tests a reply fails, and the code the first of them raises.
FailedTests(reply, model) ==
    {i \in 1..12 : ReplyTests(reply, model)[i].fails}

RaisedCode(reply, model) ==
    LET failed == FailedTests(reply, model)
    IN  ReplyTests(reply, model)[CHOOSE i \in failed : \A j \in failed : i <= j].code

\* _TRANSPORT_ERROR_MAPPING of the executor gives each transport code the execution
\* code of the same name.
ExecutionCode ==
    [c \in {"CONNECT_TIMEOUT", "READ_TIMEOUT", "WRITE_TIMEOUT", "POOL_TIMEOUT",
            "NETWORK_ERROR", "PROTOCOL_ERROR", "HTTP_STATUS_ERROR",
            "INVALID_JSON_RESPONSE"} |-> c]

\* _OLLAMA_ERROR_MAPPING of the handler.  The mutant files the wait for a connection
\* under the slow answers.
TimeoutCodesWithPool == {"CONNECT_TIMEOUT", "READ_TIMEOUT", "WRITE_TIMEOUT", "POOL_TIMEOUT"}

TimeoutCodes     == {"CONNECT_TIMEOUT", "READ_TIMEOUT", "WRITE_TIMEOUT"}
UnavailableCodes == {"POOL_TIMEOUT", "NETWORK_ERROR"}
ServiceCodes     == {"PROTOCOL_ERROR", "HTTP_STATUS_ERROR", "INVALID_JSON_RESPONSE",
                     "INVALID_RESPONSE", "MODEL_MISMATCH", "EMPTY_RESPONSE",
                     "GENERATION_INCOMPLETE"}

PublicOllamaError(code) ==
    CASE code \in TimeoutCodes     -> PublicError(504, "MODEL_SERVICE_TIMEOUT")
      [] code \in UnavailableCodes -> PublicError(503, "MODEL_SERVICE_UNAVAILABLE")
      [] code \in ServiceCodes     -> PublicError(502, "MODEL_SERVICE_ERROR")
      [] OTHER                     -> PublicError(500, "INTERNAL_ERROR")

HugeMetrics(reply) == "huge" \in {reply.count, reply.duration}

\* What the handler answers once the call it awaits has raised or returned.  The
\* rate cannot be computed from a number no float can hold.
ModelAnswer(outcome, model) ==
    IF IsThrown(outcome)
    THEN LET code == TransportCode(outcome.exception)
         IN  IF code \in DOMAIN ExecutionCode
             THEN PublicOllamaError(ExecutionCode[code])
             ELSE PublicError(500, "INTERNAL_ERROR")
    ELSE CASE FailedTests(outcome, model) # {} ->
                  PublicOllamaError(RaisedCode(outcome, model))
           [] FailedTests(outcome, model) = {} /\ HugeMetrics(outcome) ->
                  PublicError(500, "INTERNAL_ERROR")
           [] OTHER -> Success

-----------------------------------------------------------------------------
(***************************************************************************)
(* The reference: what is asked of a reply, without the order of tests.    *)
(***************************************************************************)
Genuine(reply, model) ==
    reply = [http |-> "success", body |-> "object", model |-> model,
             message |-> "assistant", content |-> "text", done |-> "true",
             count |-> "valid", duration |-> "valid"]

\* Whose fault an outcome is.
Slow        == {"ConnectTimeout", "ReadTimeout", "WriteTimeout"}
Unreachable == {"PoolTimeout", "ConnectError", "ReadError", "WriteError", "CloseError"}
=============================================================================
