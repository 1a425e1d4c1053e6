----------------------------- MODULE TermSearch -----------------------------
(***************************************************************************)
(* How the matcher finds one evidence value in a normalised message        *)
(* (matcher.py): a phrase wherever it first occurs, a term where it first  *)
(* occurs with no word character on either side.  The search for a term is *)
(* a loop that goes on one character after an occurrence it rejects.       *)
(*                                                                         *)
(* Texts are sequences of characters; positions count from 0, as in the    *)
(* source, and a span is <<start, end>> with end excluded.                 *)
(***************************************************************************)
EXTENDS Naturals, Sequences

CONSTANTS
    Char,       \* the characters
    WordChars,  \* those _is_word_char accepts
    Messages,   \* the normalised messages
    Values,     \* the normalised evidence values
    None

ASSUME TextsAssumption == Messages \subseteq Seq(Char) /\ Values \subseteq Seq(Char)
ASSUME NoneAssumption  == None \notin Nat \X Nat

VARIABLES
    message, value, type,   \* what match_evidence was called with
    search_from,            \* where the next str.find starts
    span,                   \* the result, None while there is none
    done                    \* match_evidence has returned

vars == <<message, value, type, search_from, span, done>>

\* value occurs in message at start
Occurs(start) ==
    /\ start + Len(value) <= Len(message)
    /\ \A i \in 1..Len(value) : message[start + i] = value[i]

\* _has_term_boundaries
Bounded(start) ==
    LET end == start + Len(value)
    IN  /\ start > 0 => message[start] \notin WordChars
        /\ end < Len(message) => message[end + 1] \notin WordChars

\* start is what message.find(value, from) returns
FoundAt(from, start) ==
    /\ start \in from..Len(message)
    /\ Occurs(start)
    /\ \A s \in from..Len(message) : Occurs(s) => start <= s

NotFound(from) == \A s \in from..Len(message) : ~Occurs(s)

Init ==
    /\ message \in Messages /\ value \in Values
    /\ type \in {"term", "phrase"}
    /\ search_from = 0
    /\ span = None
    /\ done = FALSE

\* The early return of match_evidence.
Empty ==
    /\ ~done /\ (message = << >> \/ value = << >>)
    /\ done' = TRUE
    /\ UNCHANGED <<message, value, type, search_from, span>>

Searching == ~done /\ message # << >> /\ value # << >>

\* find returned -1: no match.
Fail ==
    /\ Searching /\ NotFound(search_from)
    /\ done' = TRUE
    /\ UNCHANGED <<message, value, type, search_from, span>>

\* A phrase takes the occurrence, a term takes it when it is bounded, ...  The
\* mutant looks at the left neighbour only.
AcceptLeftBounded(start) ==
    /\ Searching /\ FoundAt(search_from, start)
    /\ type = "term" => (start > 0 => message[start] \notin WordChars)
    /\ span' = <<start, start + Len(value)>>
    /\ done' = TRUE
    /\ UNCHANGED <<message, value, type, search_from>>

Accept(start) ==
    /\ Searching /\ FoundAt(search_from, start)
    /\ type = "term" => Bounded(start)
    /\ span' = <<start, start + Len(value)>>
    /\ done' = TRUE
    /\ UNCHANGED <<message, value, type, search_from>>

\* ... or goes on after it.  The mutants go on after the whole occurrence, and
\* at the same place.
RejectWhole(start) ==
    /\ Searching /\ FoundAt(search_from, start)
    /\ type = "term" /\ ~Bounded(start)
    /\ search_from' = start + Len(value)
    /\ UNCHANGED <<message, value, type, span, done>>

RejectInPlace(start) ==
    /\ Searching /\ FoundAt(search_from, start)
    /\ type = "term" /\ ~Bounded(start)
    /\ search_from' = start
    /\ UNCHANGED <<message, value, type, span, done>>

Reject(start) ==
    /\ Searching /\ FoundAt(search_from, start)
    /\ type = "term" /\ ~Bounded(start)
    /\ search_from' = start + 1
    /\ UNCHANGED <<message, value, type, span, done>>

Next ==
    \/ Empty \/ Fail
    \/ \E start \in 0..Len(message) : Accept(start) \/ Reject(start)

Spec == Init /\ [][Next]_vars /\ WF_vars(Next)

-----------------------------------------------------------------------------
(* Properties                                                              *)

\* The type invariant; search_from never runs past the end of the message by
\* more than one.
TypeOK ==
    /\ message \in Messages /\ value \in Values
    /\ type \in {"term", "phrase"}
    /\ search_from \in 0..Len(message) + 1
    /\ span \in (Nat \X Nat) \cup {None}
    /\ done \in BOOLEAN

\* The places a match may be at, said without a search.
Places ==
    IF message = << >> \/ value = << >> THEN {}
    ELSE {s \in 0..Len(message) : Occurs(s) /\ (type = "term" => Bounded(s))}

\* A span that is returned is the first place the value may match at, however
\* occurrences overlap (matcher.py:40-56).
FirstPlace ==
    span # None =>
        \E s \in Places : /\ span = <<s, s + Len(value)>>
                          /\ \A t \in Places : s <= t

\* No match is missed: None is returned only if there is no such place, although
\* the loop has looked only at what str.find offered it (matcher.py:45-56).
NothingMissed == done /\ span = None => Places = {}

\* The loop ends (matcher.py:40-56).
SearchEnds == <>done
=============================================================================
