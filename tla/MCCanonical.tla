---------------------------- MODULE MCCanonical ----------------------------
(***************************************************************************)
(* A deployment whose lists are all out of order, an edit of each kind of  *)
(* item, and requests that the rules tell apart.                           *)
(***************************************************************************)
EXTENDS Canonical, TLC

Ev(id, strength, base) ==
    [id |-> id, type |-> "term", strength |-> strength,
     value |-> [base |-> base, accented |-> base = "revisao"]]

MCRank ==
    "docs-dev" :> 1 @@ "unity-dev" :> 2 @@ "mobile" :> 3 @@ "unity" :> 4
    @@ "documentation" :> 5 @@ "review" :> 6
    @@ "E1" :> 7 @@ "E2" :> 8 @@ "E3" :> 9 @@ "E4" :> 10 @@ "E5" :> 11 @@ "E6" :> 12

Doc(items) ==
    [schema_version |-> <<1, 0>>, ruleset_version |-> <<1, 0, 0>>, items |-> items]

RouteItem(id, domain, intent, profile) ==
    [id |-> id, enabled |-> TRUE, priority |-> 1, domain |-> domain, intent |-> intent,
     profile |-> profile]

MCDocuments ==
    [config |->
        [schema_version |-> <<1, 0>>, expected_major_version |-> 1,
         accent_insensitive_matching |-> TRUE,
         router |-> [strong |-> 3, medium |-> 2, weak |-> 1, minimum_score |-> 2,
                     minimum_margin |-> 1, weak_only_cannot_qualify |-> TRUE]],
     profiles |-> Doc(<< [id |-> "unity-dev", enabled |-> TRUE],
                         [id |-> "docs-dev", enabled |-> TRUE] >>),
     domains  |-> Doc(<< [id |-> "unity", evidence |-> << Ev("E2", "medium", "engine"),
                                                          Ev("E1", "strong", "unity") >>],
                         [id |-> "mobile", evidence |-> << Ev("E3", "weak", "app") >>] >>),
     intents  |-> Doc(<< [id |-> "review", route_capable |-> TRUE,
                          evidence |-> << Ev("E5", "strong", "revisao"),
                                          Ev("E4", "weak", "engine") >>],
                         [id |-> "documentation", route_capable |-> TRUE,
                          evidence |-> << Ev("E6", "strong", "manual") >>] >>),
     routing  |-> Doc(<< RouteItem(2, "unity", None, "unity-dev"),
                         RouteItem(1, None, "review", "docs-dev") >>)]

MCRegistry ==
    [schema_version |-> <<1, 0>>,
     items |-> << [id |-> "unity-dev", enabled |-> TRUE, model |-> "coder"],
                  [id |-> "docs-dev", enabled |-> TRUE, model |-> "writer"] >>]

\* One edit of each kind of item: a weight, the switch, an evidence, a route, a
\* version, a model, and a profile enabled in one of the two files only.
MCEdit(r, g) ==
    LET Files(ruleset, registry) == [ruleset |-> ruleset, registry |-> registry]
    IN  {Files([r EXCEPT !.config.router.minimum_score = 3], g),
         Files([r EXCEPT !.config.accent_insensitive_matching = FALSE], g),
         Files([r EXCEPT !.domains.items[1].evidence[1].strength = "weak"], g),
         Files([r EXCEPT !.routing.items[1].priority = 2], g),
         Files([r EXCEPT !.routing.items[1].enabled = FALSE], g),
         Files([l \in DOMAIN r |->
                   IF l = "config" THEN r[l]
                   ELSE [r[l] EXCEPT !.ruleset_version = <<1, 1, 0>>]], g),
         Files(r, [g EXCEPT !.items[1].model = "other"]),
         Files([r EXCEPT !.profiles.items[1].enabled = FALSE], g)}

MCRequests ==
    {[message |-> [t \in {"engine", "unity", "app", "revisao", "manual"} |->
                      IF t \in present THEN "bounded" ELSE "absent"],
      explicit_profile |-> None, accented |-> FALSE] :
        present \in SUBSET {"engine", "unity", "revisao"}}
=============================================================================
