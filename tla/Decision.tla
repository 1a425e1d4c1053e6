------------------------------ MODULE Decision ------------------------------
(***************************************************************************)
(* The pure routing pipeline of villaz_router: matching, scoring,          *)
(* eligibility, qualification of routes, conflict resolution and the       *)
(* RouteDecision it ends in (matcher.py, scoring.py, eligibility.py,       *)
(* router.py, and the state contract of models.py).                        *)
(*                                                                         *)
(* A ruleset snapshot is a record                                          *)
(*   [router   |-> [strong, medium, weak, minimum_score,                   *)
(*                  weak_only_cannot_qualify, minimum_margin],             *)
(*    profiles |-> [profile id -> enabled],                                *)
(*    domains  |-> [domain id -> [evidence]],                              *)
(*    intents  |-> [intent id -> [route_capable, evidence]],               *)
(*    routes   |-> [route id -> [enabled, priority, domain, intent,        *)
(*                               profile]]]                                *)
(* Evidence is a record [id, type, strength, value]; a value is            *)
(* [base, accented]: its text without diacritics, and whether it is        *)
(* spelled with any.  Route ids are integers, so that "<" is the           *)
(* lexicographic order the code sorts by.                                  *)
(*                                                                         *)
(* A message is what the pipeline can tell of it: for each base text,      *)
(* whether it is "absent" from the normalised message, occurs only         *)
(* "inside" longer words, or occurs "bounded" by word boundaries.          *)
(***************************************************************************)
EXTENDS Integers, FiniteSets, Sequences

CONSTANT None   \* Python's None

RoutedReasons == {"security_review_detected", "fiscal_finance_detected",
                  "documentation_intent_detected", "unity_detected",
                  "mobile_detected"}

RoutingReason ==
    [p \in {"code-review-security", "fiscal-finance", "docs-dev", "unity-dev",
            "mobile-dev"} |->
        CASE p = "code-review-security" -> "security_review_detected"
          [] p = "fiscal-finance"       -> "fiscal_finance_detected"
          [] p = "docs-dev"             -> "documentation_intent_detected"
          [] p = "unity-dev"            -> "unity_detected"
          [] p = "mobile-dev"           -> "mobile_detected"]

Raised(code) == [error |-> code]
Failed(outcome) == "error" \in DOMAIN outcome

-----------------------------------------------------------------------------
(* Matching, scoring and eligibility of one target                         *)

\* normalize_text drops diacritics, so accented spellings are one text.
Normalized(value) == value.base

\* A phrase may occur anywhere; a term must stand between word boundaries.
Matches(message, e) ==
    LET occurrence == message[Normalized(e.value)]
    IN  /\ Normalized(e.value) # ""
        /\ IF e.type = "phrase" THEN occurrence # "absent"
                                ELSE occurrence = "bounded"

Matched(message, evidence) == {e \in evidence : Matches(message, e)}

\* EvidenceMatch demands an id of the evidence it is built for, Evidence does not: a
\* target of which an evidence matches that has none cannot be evaluated.  What is
\* raised then is pydantic's ValidationError, not an error of the router.
MatchRefused(message, targets) ==
    \E t \in DOMAIN targets : \E e \in Matched(message, targets[t].evidence) : e.id = ""

UnnamedMatch(message, ruleset) ==
    \/ MatchRefused(message, ruleset.domains)
    \/ MatchRefused(message, ruleset.intents)

\* The sum of the contributions' weights, grouped by strength.
Score(matched, router) ==
    LET Count(strength) == Cardinality({e \in matched : e.strength = strength})
    IN  router.strong * Count("strong") + router.medium * Count("medium")
            + router.weak * Count("weak")

\* A mutant of Eligible: the weak-only rule is forgotten.
EligibleByScore(matched, router) ==
    Score(matched, router) >= router.minimum_score

Eligible(matched, router) ==
    /\ Score(matched, router) >= router.minimum_score
    /\ router.weak_only_cannot_qualify =>
           \E e \in matched : e.strength # "weak"

\* _evaluate_targets, for the domains or for the intents of a ruleset
Evaluations(message, targets, router) ==
    [t \in DOMAIN targets |->
        LET matched == Matched(message, targets[t].evidence)
        IN  [score |-> Score(matched, router),
             eligible |-> Eligible(matched, router)]]

\* score_evidence_matches refuses a target two of whose evidences share an id.
ScoringRefused(targets) ==
    \E t \in DOMAIN targets : \E e, f \in targets[t].evidence :
        e # f /\ e.id = f.id

-----------------------------------------------------------------------------
(* Qualified routes                                                        *)

EnabledRoutes(ruleset) ==
    {r \in DOMAIN ruleset.routes : ruleset.routes[r].enabled}

ConditionHolds(target, evaluations) ==
    target = None \/ evaluations[target].eligible

Satisfied(route, domains, intents) ==
    /\ ConditionHolds(route.domain, domains)
    /\ ConditionHolds(route.intent, intents)

\* The INVALID_RULESET branches of _build_qualified_routes: a condition on a
\* target that was not evaluated, and, once the conditions hold, a profile
\* that cannot be used, an intent that may not route, or no condition at all.
QualificationRefused(ruleset, domains, intents) ==
    \E r \in EnabledRoutes(ruleset) :
        LET route == ruleset.routes[r]
        IN  \/ route.domain \notin DOMAIN domains \cup {None}
            \/ route.intent \notin DOMAIN intents \cup {None}
            \/ /\ Satisfied(route, domains, intents)
               /\ \/ route.profile \notin DOMAIN ruleset.profiles
                  \/ ~ ruleset.profiles[route.profile]
                  \/ /\ route.intent # None
                     /\ ~ ruleset.intents[route.intent].route_capable
                  \/ route.domain = None /\ route.intent = None

\* The intent's score decides when a route has both conditions.
ComparisonScore(route, domains, intents) ==
    IF route.intent # None THEN intents[route.intent].score
                           ELSE domains[route.domain].score

QualifiedRoutes(ruleset, domains, intents) ==
    {[route_id |-> r,
      profile  |-> ruleset.routes[r].profile,
      priority |-> ruleset.routes[r].priority,
      score    |-> ComparisonScore(ruleset.routes[r], domains, intents),
      intent   |-> ruleset.routes[r].intent] :
        r \in {s \in EnabledRoutes(ruleset) :
                 Satisfied(ruleset.routes[s], domains, intents)}}

-----------------------------------------------------------------------------
(* Conflict resolution                                                     *)

\* The order of candidates: comparison_score DESC, then route_id ASC.
Precedes(a, b) ==
    \/ a.score > b.score
    \/ a.score = b.score /\ a.route_id < b.route_id

InOrder(list) == \A i, j \in DOMAIN list : i < j => Precedes(list[i], list[j])

Ordered(routes) == CHOOSE list \in [1..Cardinality(routes) -> routes] : InOrder(list)

IntentIds(qualified) == {q.intent : q \in qualified} \ {None}

\* A mutant of IntentsConflict: one intent conflicts with itself.
IntentsConflictAlone(qualified) == Cardinality(IntentIds(qualified)) >= 1

IntentsConflict(qualified) == Cardinality(IntentIds(qualified)) >= 2

IntentConflictCandidates(qualified) ==
    {q \in qualified : q.intent # None}

HighestPriority(qualified) ==
    {q \in qualified : \A p \in qualified : p.priority <= q.priority}

\* Mutants of ResolveByMargin: the first of the ordered routes wins a tie; the
\* leader is compared with the last route; the comparison is the wrong way round.
ResolveByMarginFirstWins(routes, minimum_margin) ==
    LET ordered == Ordered(routes)
        top     == ordered[1].score
    IN  IF top - ordered[2].score \notin 1..(minimum_margin - 1)
        THEN [winners |-> {ordered[1]}, contenders |-> {}]
        ELSE [winners |-> {},
              contenders |-> {r \in routes : top - r.score < minimum_margin}]

ResolveByMarginToLast(routes, minimum_margin) ==
    LET ordered == Ordered(routes)
        top     == ordered[1].score
    IN  IF top - ordered[Len(ordered)].score >= minimum_margin
        THEN [winners |-> {ordered[1]}, contenders |-> {}]
        ELSE [winners |-> {},
              contenders |-> {r \in routes : top - r.score < minimum_margin}]

ResolveByMarginReversed(routes, minimum_margin) ==
    LET ordered == Ordered(routes)
    IN  IF ordered[1].score - ordered[2].score <= minimum_margin
        THEN [winners |-> {ordered[1]}, contenders |-> {}]
        ELSE [winners |-> {}, contenders |-> routes]

\* _resolve_routes_by_margin: the winner, if there is one, or the contenders
ResolveByMargin(routes, minimum_margin) ==
    LET ordered == Ordered(routes)
        top     == ordered[1].score
        tied    == {r \in routes : r.score = top}
        within  == {r \in routes : top - r.score < minimum_margin}
        none    == [winners |-> {}, contenders |-> within]
    IN  IF Cardinality(tied) >= 2
        THEN [none EXCEPT !.contenders = IF minimum_margin = 0 THEN tied
                                                               ELSE within]
        ELSE IF top - ordered[2].score >= minimum_margin
             THEN [winners |-> {ordered[1]}, contenders |-> {}]
             ELSE none

-----------------------------------------------------------------------------
(* Decisions                                                               *)

Candidates(routes) ==
    LET ordered == Ordered(routes)
    IN  [i \in DOMAIN ordered |->
            [route_id |-> ordered[i].route_id,
             profile  |-> ordered[i].profile,
             comparison_score |-> ordered[i].score]]

Unrouted ==
    [state |-> "unrouted", profile |-> None, route_id |-> None,
     comparison_score |-> None, mode |-> "auto",
     reason |-> "insufficient_evidence", conflict_resolved |-> FALSE,
     candidates |-> << >>]

Explicit(profile) ==
    [Unrouted EXCEPT !.state = "explicit", !.profile = profile,
                     !.mode = "manual", !.reason = "user_selected_profile"]

Ambiguous(routes) ==
    [Unrouted EXCEPT !.state = "ambiguous", !.reason = "ambiguous_route",
                     !.candidates = Candidates(routes)]

\* A winner whose profile has no reason in the table is an invalid ruleset.
Routed(winner, conflict_resolved) ==
    IF winner.profile \notin DOMAIN RoutingReason
    THEN Raised("INVALID_RULESET")
    ELSE [Unrouted EXCEPT !.state = "routed", !.profile = winner.profile,
                          !.route_id = winner.route_id,
                          !.comparison_score = winner.score,
                          !.reason = RoutingReason[winner.profile],
                          !.conflict_resolved = conflict_resolved]

\* decide_route from the qualified routes on
Resolve(qualified, minimum_margin) ==
    LET top        == HighestPriority(qualified)
        resolution == ResolveByMargin(top, minimum_margin)
    IN  CASE qualified = {} -> Unrouted
          [] IntentsConflict(qualified) ->
                 Ambiguous(IntentConflictCandidates(qualified))
          [] OTHER ->
                 IF Cardinality(top) = 1
                 THEN Routed(CHOOSE q \in top : TRUE,
                             Cardinality(qualified) > 1)
                 ELSE IF resolution.winners # {}
                      THEN Routed(CHOOSE q \in resolution.winners : TRUE, TRUE)
                      ELSE IF Cardinality(resolution.contenders) < 2
                           THEN Raised("INVALID_RULESET")
                           ELSE Ambiguous(resolution.contenders)

\* Targets are evaluated one by one, so that of the first two errors the one that is
\* met first is raised; the second one never is with an admitted ruleset.
DecideAutomatically(message, ruleset) ==
    LET domains == Evaluations(message, ruleset.domains, ruleset.router)
        intents == Evaluations(message, ruleset.intents, ruleset.router)
    IN  IF UnnamedMatch(message, ruleset)
        THEN Raised("VALIDATION_ERROR")
        ELSE IF ScoringRefused(ruleset.domains) \/ ScoringRefused(ruleset.intents)
        THEN Raised("INVALID_SCORING_INPUT")
        ELSE IF QualificationRefused(ruleset, domains, intents)
        THEN Raised("INVALID_RULESET")
        ELSE Resolve(QualifiedRoutes(ruleset, domains, intents),
                     ruleset.router.minimum_margin)

DecideRoute(request, ruleset) ==
    IF request.explicit_profile = None
    THEN DecideAutomatically(request.message, ruleset)
    ELSE IF /\ request.explicit_profile \in DOMAIN ruleset.profiles
            /\ ruleset.profiles[request.explicit_profile]
         THEN Explicit(request.explicit_profile)
         ELSE Raised("INVALID_PROFILE")

-----------------------------------------------------------------------------
(* RouteDecision.validate_state_contract                                   *)

SatisfiesContract(d) ==
    LET bare == d.candidates = << >>
        c    == d.candidates
    IN  CASE d.state = "explicit" ->
                 d.profile # None /\ d = Explicit(d.profile)
          [] d.state = "routed" ->
                 /\ None \notin {d.profile, d.route_id, d.comparison_score}
                 /\ d.mode = "auto" /\ d.reason \in RoutedReasons /\ bare
          [] d.state = "unrouted" -> d = Unrouted
          [] d.state = "ambiguous" ->
                 /\ d = [Unrouted EXCEPT !.state = "ambiguous",
                                         !.reason = "ambiguous_route",
                                         !.candidates = c]
                 /\ Len(c) >= 2
                 /\ \A i, j \in DOMAIN c : i # j => c[i].route_id # c[j].route_id
                 /\ \A i \in 1..(Len(c) - 1) :
                        \/ c[i].comparison_score > c[i + 1].comparison_score
                        \/ /\ c[i].comparison_score = c[i + 1].comparison_score
                           /\ c[i].route_id < c[i + 1].route_id
=============================================================================
