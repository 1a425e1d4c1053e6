---------------------------- MODULE RoutingPolicy ---------------------------
(***************************************************************************)
(* What the router promises, stated without its pipeline: which routes a   *)
(* message supports, and which of them win or compete.  Module Router      *)
(* checks the pipeline of module Decision against it.                      *)
(***************************************************************************)
EXTENDS Decision, FiniteSetsExt

\* The total weight of the evidence of a target that occurs in a message
Weight(message, evidence, router) ==
    MapThenSumSet(LAMBDA e : router[e.strength],
                  {e \in evidence : Matches(message, e)})

\* A target counts when enough evidence of it occurs, and not only weak
\* evidence if the configuration says so.
Supported(message, evidence, router) ==
    /\ Weight(message, evidence, router) >= router.minimum_score
    /\ \/ ~ router.weak_only_cannot_qualify
       \/ \E e \in evidence : Matches(message, e) /\ e.strength # "weak"

\* An enabled route competes when each of its conditions is supported; its
\* strength is that of its intent, or of its domain if it names no intent.
Competing(message, ruleset) ==
    LET Evidence(r) ==
            [domain |-> IF r.domain = None THEN {} ELSE ruleset.domains[r.domain].evidence,
             intent |-> IF r.intent = None THEN {} ELSE ruleset.intents[r.intent].evidence]
        Holds(r, kind) == r[kind] = None
                          \/ Supported(message, Evidence(r)[kind], ruleset.router)
        Main(r) == IF r.intent = None THEN "domain" ELSE "intent"
    IN  {[route_id |-> id,
          profile  |-> ruleset.routes[id].profile,
          priority |-> ruleset.routes[id].priority,
          intent   |-> ruleset.routes[id].intent,
          score    |-> Weight(message, Evidence(ruleset.routes[id])[Main(ruleset.routes[id])],
                              ruleset.router)] :
            id \in {i \in DOMAIN ruleset.routes :
                      /\ ruleset.routes[i].enabled
                      /\ Holds(ruleset.routes[i], "domain")
                      /\ Holds(ruleset.routes[i], "intent")}}

\* p leaves q no chance: it has priority, or it leads by the margin.
Dominates(p, q, margin) ==
    \/ p.priority > q.priority
    \/ p.priority = q.priority /\ p.score > q.score /\ p.score - q.score >= margin

Undominated(routes, margin) ==
    {q \in routes : \A p \in routes : ~ Dominates(p, q, margin)}

\* Two competing routes of different intents are never settled by priority
\* or score.
DifferentIntents(routes) ==
    \E p, q \in routes :
        p.intent # None /\ q.intent # None /\ p.intent # q.intent

Contenders(routes, margin) ==
    IF DifferentIntents(routes) THEN {q \in routes : q.intent # None}
                                ELSE Undominated(routes, margin)

\* The candidates of an ambiguous decision, as a set
CandidateOf(q) == [route_id |-> q.route_id, profile |-> q.profile,
                   comparison_score |-> q.score]

CandidateSet(d) == {d.candidates[i] : i \in DOMAIN d.candidates}

\* The decision the policy gives when these routes compete
Follows(d, routes, margin) ==
    LET contenders == Contenders(routes, margin)
    IN  CASE routes = {} -> ~ Failed(d) /\ d.state = "unrouted"
          [] routes # {} /\ Cardinality(contenders) # 1 ->
                 /\ ~ Failed(d) /\ d.state = "ambiguous"
                 /\ CandidateSet(d) = {CandidateOf(q) : q \in contenders}
                 /\ Len(d.candidates) = Cardinality(contenders)
          [] OTHER -> \E q \in contenders :
                 IF q.profile \in DOMAIN RoutingReason
                 THEN /\ ~ Failed(d) /\ d.state = "routed"
                      /\ d.route_id = q.route_id /\ d.profile = q.profile
                      /\ d.comparison_score = q.score
                      /\ d.conflict_resolved = (routes # {q})
                 ELSE Failed(d) /\ d.error = "INVALID_RULESET"
=============================================================================
