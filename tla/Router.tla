------------------------------- MODULE Router -------------------------------
(***************************************************************************)
(* A router that was booted from an admitted ruleset and a compatible      *)
(* registry and is asked to route one request after another.  The HTTP     *)
(* handler routes and plans without giving up the event loop (no await     *)
(* between decide_route and build_dispatch_plan), so that one request is   *)
(* one step.                                                               *)
(***************************************************************************)
EXTENDS Dispatch, RoutingPolicy, Admission

CONSTANTS
    Documents,   \* the ruleset documents a deployment may hold
    Registries,  \* the registry documents a deployment may hold
    Requests     \* the requests: [message, explicit_profile]

ASSUME DocumentsAssumption == \A d \in Documents : ParsedDocument(d)

\* A message can be asked about every text that is evidence in some document.
ASSUME RequestsAssumption ==
    LET evidence == UNION {UNION {EvidenceOf(t) : t \in {Targets(d)[i] : i \in DOMAIN Targets(d)}} :
                              d \in Documents}
        texts    == {Normalized(e.value) : e \in evidence} \ {""}
    IN  \A q \in Requests : /\ {"message", "explicit_profile"} \subseteq DOMAIN q
                           /\ texts \subseteq DOMAIN q.message

ASSUME NoneAssumption == None \notin Int

VARIABLES
    ruleset,     \* the RulesetSnapshot of the runtime context
    registry,    \* its ProfileRegistrySnapshot
    request,     \* the request being routed, or None
    decision,    \* what decide_route returned or raised for it
    answer       \* the plan, or the public error, it came to

vars == <<ruleset, registry, request, decision, answer>>

\* bootstrap_runtime: load, admit and freeze both, then compare them.
Init ==
    /\ \E d \in Documents, r \in Registries :
           /\ ValidRuleset(d) /\ ValidRegistry(r)
           /\ ruleset = RulesetSnapshot(d) /\ registry = RegistrySnapshot(r)
           /\ Compatible(ruleset, registry)
    /\ request = None /\ decision = None /\ answer = None

Route(q) ==
    /\ request = None
    /\ request' = q
    /\ decision' = DecideRoute(q, ruleset)
    /\ answer' = Answer(decision', registry)
    /\ UNCHANGED <<ruleset, registry>>

Finish ==
    /\ request # None
    /\ request' = None /\ decision' = None /\ answer' = None
    /\ UNCHANGED <<ruleset, registry>>

Next == (\E q \in Requests : Route(q)) \/ Finish

Spec == Init /\ [][Next]_vars

-----------------------------------------------------------------------------
(* Properties                                                              *)

Automatic == request # None /\ request.explicit_profile = None

States == {"explicit", "routed", "ambiguous", "unrouted"}

\* The type invariant: what is decided for a request is an error or has one of
\* the four states of RouteState (models.py:8-12).
TypeOK ==
    /\ request \in Requests \cup {None}
    /\ request # None => Failed(decision) \/ decision.state \in States

\* Routing works on the request: an evidence without an id does not occur in it.
Named == ~UnnamedMatch(request.message, ruleset)

\* The pipeline of sorting, filtering and margin tests decides what the
\* dominance policy says: a route wins exactly when no other competing route
\* survives it, and otherwise the candidates are exactly the survivors
\* (router.py:73-262, 351-427).
FollowsPolicy ==
    Automatic /\ Named =>
        Follows(decision, Competing(request.message, ruleset),
                ruleset.router.minimum_margin)

\* Every decision that is returned satisfies the RouteDecision contract, so
\* that its constructor never raises (models.py:62-152).
ContractHonoured ==
    request # None /\ ~ Failed(decision) => SatisfiesContract(decision)

\* Booting validates enough but for two things: a request never meets a ruleset the
\* router then fails on, except for a winner the reason table does not know and
\* for an evidence of the message whose id is the empty text, which the boot
\* admits (docs/ROUTER_007.md:41 says ids are not empty; of evidence ids only that
\* they differ is checked); and what is routed can be dispatched
\* (validation.py:138-151, 211-308, models.py:171, 184, matcher.py:84-90,
\* runtime_compatibility.py:44-91, router.py:93-142, 272-279).
BootChecksSuffice ==
    request # None =>
        /\ Failed(decision) =>
               decision.error \in {"INVALID_PROFILE", "INVALID_RULESET", "VALIDATION_ERROR"}
        /\ (Failed(decision) /\ decision.error = "VALIDATION_ERROR")
               <=> Automatic /\ ~Named
        /\ Failed(decision) /\ decision.error = "INVALID_RULESET" =>
               \E r \in EnabledRoutes(ruleset) :
                   ruleset.routes[r].profile \notin DOMAIN RoutingReason
        /\ ~ Failed(decision) /\ decision.state \in {"routed", "explicit"} =>
               "model" \in DOMAIN answer /\ answer.profile_id = decision.profile

\* Losing routes are irrelevant: withdrawing from the ruleset a route that
\* did not win leaves the winner, its profile and its score as they were.
LosersAreIrrelevant ==
    Automatic /\ ~ Failed(decision) /\ decision.state = "routed" =>
        \A r \in DOMAIN ruleset.routes \ {decision.route_id} :
            LET without == [ruleset EXCEPT !.routes =
                               [s \in DOMAIN ruleset.routes \ {r} |-> ruleset.routes[s]]]
                d == DecideRoute(request, without)
            IN  /\ ~ Failed(d)
                /\ <<d.state, d.route_id, d.profile, d.comparison_score>>
                     = <<"routed", decision.route_id, decision.profile,
                         decision.comparison_score>>

\* More of the same never hurts the winner: if a text that is evidence only for
\* the target whose score won comes to occur, or to stand between word
\* boundaries, the same route wins, unless that evidence has no id.
EvidenceForWinnerKeepsIt ==
    Automatic /\ ~ Failed(decision) /\ decision.state = "routed" =>
        LET route   == ruleset.routes[decision.route_id]
            Texts(evidence) == {Normalized(e.value) : e \in evidence}
            own     == IF route.intent # None THEN <<"intent", route.intent>>
                                              ELSE <<"domain", route.domain>>
            others  == UNION ({Texts(ruleset.domains[t].evidence) :
                                  t \in {u \in DOMAIN ruleset.domains : <<"domain", u>> # own}}
                              \cup {Texts(ruleset.intents[t].evidence) :
                                  t \in {u \in DOMAIN ruleset.intents : <<"intent", u>> # own}})
        IN  \A text \in DOMAIN request.message \ others :
                LET more == [request EXCEPT !.message[text] = "bounded"]
                    d    == DecideRoute(more, ruleset)
                IN  ~UnnamedMatch(more.message, ruleset) =>
                        ~ Failed(d) /\ d.route_id = decision.route_id

\* While weak evidence alone cannot qualify, a message in which only weak
\* evidence occurs bounded or inside a phrase reaches no profile by itself.
WeakEvidenceNeverRoutes ==
    /\ Automatic /\ Named
    /\ ruleset.router.weak_only_cannot_qualify
    /\ \A targets \in {ruleset.domains, ruleset.intents} :
           \A t \in DOMAIN targets :
               \A e \in targets[t].evidence :
                   Matches(request.message, e) => e.strength = "weak"
    => ~ Failed(decision) /\ decision.state = "unrouted"
=============================================================================
