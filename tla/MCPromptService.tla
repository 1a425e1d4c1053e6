-------------------------- MODULE MCPromptService --------------------------
(***************************************************************************)
(* Prompts that compete for one connection, as config/ollama.yaml ships    *)
(* it.  The replies hold, for each test of a reply, one that only that     *)
(* test refuses.                                                           *)
(***************************************************************************)
EXTENDS PromptService

Fine(model) ==
    [http |-> "success", body |-> "object", model |-> model,
     message |-> "assistant", content |-> "text", done |-> "true",
     count |-> "valid", duration |-> "valid"]

TwoModels == {"coder", "general"}

FullReplies ==
    {Fine("coder"), Fine("general")}
    \cup {[Fine("coder") EXCEPT !.http = "failure"],
          [Fine("coder") EXCEPT !.body = "not_json"],
          [Fine("coder") EXCEPT !.body = "other"],
          [Fine("coder") EXCEPT !.model = ""],
          [Fine("coder") EXCEPT !.message = "other_role"],
          [Fine("coder") EXCEPT !.message = "invalid"],
          [Fine("coder") EXCEPT !.content = "blank"],
          [Fine("coder") EXCEPT !.content = "invalid"],
          [Fine("coder") EXCEPT !.done = "false"],
          [Fine("coder") EXCEPT !.done = "invalid"],
          [Fine("coder") EXCEPT !.count = "huge"],
          [Fine("coder") EXCEPT !.count = "invalid"],
          [Fine("coder") EXCEPT !.duration = "huge"],
          [Fine("coder") EXCEPT !.duration = "invalid"]}
=============================================================================
