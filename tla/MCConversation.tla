--------------------------- MODULE MCConversation ---------------------------
(***************************************************************************)
(* One client and up to three exchanges, with one text for each way a text *)
(* may be acceptable or not, and one outcome of Ollama for each way it may *)
(* end.  The sizes are the real ones.                                      *)
(***************************************************************************)
EXTENDS Conversation, TLC

Text(core, padded, chars, bytes) ==
    [core |-> core, padded |-> padded, chars |-> chars, bytes |-> bytes]

Plain   == Text("plain", FALSE, 40, 40)
Padded  == Text("plain", TRUE, 44, 44)
Blank   == Text("", TRUE, 3, 3)
Empty   == Text("", FALSE, 0, 0)
Longest == Text("longest", FALSE, 16384, 49152)
Wide    == Text("wide", FALSE, 16384, 65536)
TooLong == Text("too long", FALSE, 16385, 16385)
Short   == Text("short", TRUE, 10, 10)
Essay   == Text("essay", FALSE, 20000, 20000)
System  == Text("system", FALSE, 3000, 3000)
Named   == Text("docs-dev", FALSE, 8, 8)
Askew   == Text("docs-dev", TRUE, 9, 9)
Idle    == Text("mobile-dev", FALSE, 10, 10)
LongId  == Text("id", FALSE, 129, 129)

MCTexts == {Plain, Padded, Blank, Empty, Longest, Wide, TooLong, Short, Essay, System}

MCProfiles == "docs-dev" :> TRUE @@ "mobile-dev" :> FALSE @@ "unity-dev" :> TRUE

MCSystemPrompt == [p \in DOMAIN MCProfiles |-> [System EXCEPT !.core = p]]
AllTexts == MCTexts \cup {MCSystemPrompt[p] : p \in DOMAIN MCProfiles}

Winner(r, p, s) == [route_id |-> r, profile |-> p, score |-> s]

MCAutomaticDecisions ==
    {Unrouted, Raised("INVALID_RULESET"), Routed(Winner(1, "unity-dev", 4), FALSE),
     Ambiguous({Winner(1, "unity-dev", 4), Winner(2, "docs-dev", 6)})}

MCQuestions  == {Plain, Padded, Blank, Empty, Longest, Wide, TooLong, NotText}
MCSelections == {Absent, None, Named, Askew, Idle, Blank, LongId, NotText}

Turn(user, assistant) == [user |-> user, assistant |-> assistant]

MCHistories ==
    {Absent, None, NotText, << >>, << Turn(Padded, Essay) >>, << Turn(Plain, Blank) >>,
     << Turn(Plain, Plain), Turn(NotText, Plain) >>}

Good(model) ==
    [http |-> "success", body |-> "object", model |-> model, message |-> "assistant",
     content |-> "text", done |-> "true", count |-> "valid", duration |-> "valid"]

Outcome(reply, text, tokens) ==
    [reply |-> reply, text |-> text, tokens |-> tokens, duration |-> 5]

MCOutcomes ==
    {Outcome(Good(m), t, n) : m \in {"docs-dev", "unity-dev"}, t \in {Short, Essay},
                              n \in {0, 7}}
    \cup {Outcome([Good("unity-dev") EXCEPT !.count = "huge"], Short, 7),
          Outcome([Good("unity-dev") EXCEPT !.content = "blank"], Blank, 7),
          Outcome(Thrown("Unforeseen"), Blank, 0),
          Outcome(Thrown("DecodingError"), Blank, 0),
          Outcome(Thrown("ReadTimeout"), Blank, 0)}
=============================================================================
