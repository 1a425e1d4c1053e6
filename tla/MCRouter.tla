------------------------------ MODULE MCRouter ------------------------------
(***************************************************************************)
(* A small deployment of module Router: two domains, three intents, three  *)
(* routes whose conditions and priorities vary, and the messages over six  *)
(* evidence texts.  Weights and thresholds are scaled-down ones.           *)
(***************************************************************************)
EXTENDS Router

Plain(base) == [base |-> base, accented |-> FALSE]

Ev(id, type, strength, base) ==
    [id |-> id, type |-> type, strength |-> strength, value |-> Plain(base)]

MCDomains ==
    << [id |-> "unity", evidence |-> << Ev("U2", "term", "medium", "engine"),
                                        Ev("U1", "term", "strong", "unity"),
                                        Ev("U3", "term", "weak", "game") >>],
       [id |-> "mobile", evidence |-> << Ev("M1", "term", "medium", "game"),
                                         Ev("M2", "phrase", "weak", "engine"),
                                         Ev("M3", "phrase", "weak", "tips") >>] >>

MCIntents ==
    << [id |-> "documentation", route_capable |-> TRUE,
        evidence |-> << Ev("D1", "phrase", "strong", "write a manual"),
                        Ev("D2", "term", "weak", "game"),
                        Ev("D3", "term", "weak", "tips") >>],
       [id |-> "review", route_capable |-> TRUE,
        evidence |-> << Ev("R1", "term", "strong", "audit"),
                        Ev("R2", "phrase", "medium", "engine") >>],
       [id |-> "question", route_capable |-> FALSE,
        evidence |-> << Ev("Q1", "term", "strong", "game") >>] >>

MCProfiles ==
    << [id |-> "unity-dev", enabled |-> TRUE],
       [id |-> "docs-dev", enabled |-> TRUE],
       [id |-> "mobile-dev", enabled |-> TRUE],
       [id |-> "data-dev", enabled |-> TRUE],       \* has no routing reason
       [id |-> "fiscal-finance", enabled |-> FALSE] >>

Settings(margin, score, weak_only) ==
    [strong |-> 3, medium |-> 2, weak |-> 1, minimum_score |-> score,
     minimum_margin |-> margin, weak_only_cannot_qualify |-> weak_only]

Cond(domain, intent, priority) ==
    [domain |-> domain, intent |-> intent, priority |-> priority]

RouteItem(id, cond, profile, enabled) ==
    [id |-> id, enabled |-> enabled, priority |-> cond.priority,
     domain |-> cond.domain, intent |-> cond.intent, profile |-> profile]

Doc(items) ==
    [schema_version |-> <<1, 0>>, ruleset_version |-> <<1, 0, 0>>, items |-> items]

Deployment(settings, routes) ==
    [config   |-> [schema_version |-> <<1, 0>>, expected_major_version |-> 1,
                   router |-> settings],
     profiles |-> Doc(MCProfiles), domains |-> Doc(MCDomains),
     intents  |-> Doc(MCIntents), routing |-> Doc(routes)]

MCSettings == {Settings(1, 2, TRUE), Settings(2, 1, TRUE),
               Settings(3, 3, TRUE), Settings(2, 1, FALSE)}

MCConds1 == {Cond(None, "documentation", 1), Cond(None, "documentation", 2),
             Cond("unity", None, 1)}
MCConds2 == {Cond(None, "review", 1), Cond(None, "review", 2),
             Cond("mobile", None, 1), Cond("unity", "documentation", 1)}
MCConds3 == {Cond("unity", None, 1), Cond("mobile", None, 2),
             Cond("mobile", "documentation", 1)}
MCTargets3 == {<<"mobile-dev", TRUE>>, <<"data-dev", TRUE>>,
               <<"fiscal-finance", FALSE>>}

\* The routes stand in the file in an order that is not that of their ids.
MCAdmissible ==
    {Deployment(s, << RouteItem(3, c3, t3[1], t3[2]),
                      RouteItem(1, c1, "docs-dev", TRUE),
                      RouteItem(2, c2, "unity-dev", TRUE) >>) :
        s \in MCSettings, c1 \in MCConds1, c2 \in MCConds2,
        c3 \in MCConds3, t3 \in MCTargets3}

\* An evidence whose id is the empty text: of the domain, of the intent of a route,
\* and of an intent no route refers to.
MCUnnamed ==
    LET good == Deployment(Settings(2, 1, TRUE),
                           << RouteItem(2, Cond("unity", None, 1), "unity-dev", TRUE),
                              RouteItem(1, Cond(None, "documentation", 1),
                                        "docs-dev", TRUE) >>)
    IN  {[good EXCEPT !.domains.items[1].evidence[1].id = ""],
         [good EXCEPT !.intents.items[1].evidence[2].id = ""],
         [good EXCEPT !.intents.items[2].evidence[1].id = ""]}

\* One deployment with one fault each, which booting refuses
MCFaulty ==
    LET good == Deployment(Settings(1, 2, TRUE),
                           << RouteItem(1, Cond(None, "documentation", 1),
                                        "docs-dev", TRUE) >>)
        Routes(r) == [good EXCEPT !.routing.items = <<r>>]
    IN  {Routes(RouteItem(1, Cond("unity", None, 1), "fiscal-finance", TRUE)),
         Routes(RouteItem(1, Cond("unity", None, 1), "nobody", TRUE)),
         Routes(RouteItem(1, Cond("web", None, 1), "docs-dev", TRUE)),
         Routes(RouteItem(1, Cond(None, "question", 1), "docs-dev", TRUE)),
         Routes(RouteItem(1, Cond(None, None, 1), "docs-dev", TRUE)),
         [good EXCEPT !.domains.items[1].evidence[1].id = "U1"],
         [good EXCEPT !.config.router.weak = 2],
         [good EXCEPT !.intents.ruleset_version = <<1, 0, 1>>]}

MCDocuments == MCAdmissible \cup MCUnnamed \cup MCFaulty

RegistryItem(id, enabled) ==
    [id |-> id, enabled |-> enabled, model |-> "model of " \o id]

MCRegistry ==
    [schema_version |-> <<1, 0>>,
     items |-> [i \in DOMAIN MCProfiles |->
                   RegistryItem(MCProfiles[i].id, MCProfiles[i].enabled)]]

\* The matching registry, one that disables a profile, one that lacks one
MCRegistries ==
    {MCRegistry, [MCRegistry EXCEPT !.items[1].enabled = FALSE],
     [MCRegistry EXCEPT !.items = Tail(@)]}

MCMessages ==
    {[t \in {"unity", "engine", "game", "tips", "write a manual", "audit"} |->
        CASE t = "unity" -> u [] t = "engine" -> e [] t = "game" -> g
          [] t = "tips" -> w [] t = "write a manual" -> m [] t = "audit" -> a] :
        u \in {"absent", "bounded"}, e \in {"absent", "inside", "bounded"},
        g \in {"absent", "bounded"}, w \in {"absent", "bounded"},
        m \in {"absent", "inside"}, a \in {"absent", "inside", "bounded"}}

MCRequests ==
    {[message |-> m, explicit_profile |-> None] : m \in MCMessages}
    \cup {[message |-> CHOOSE m \in MCMessages : TRUE, explicit_profile |-> p] :
             p \in {"docs-dev", "fiscal-finance", "nobody"}}
=============================================================================
