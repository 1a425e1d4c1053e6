----------------------------- MODULE Admission ------------------------------
(***************************************************************************)
(* What a ruleset must satisfy to be admitted, and the immutable snapshot  *)
(* it becomes (config.py, models.py, validation.py, canonical.py).         *)
(*                                                                         *)
(* The five documents the loader reads are a record                        *)
(*   [config   |-> [schema_version, expected_major_version, router],       *)
(*    profiles |-> [schema_version, ruleset_version, items],               *)
(*    domains, intents, routing |-> the same]                              *)
(* where items is the document's list, in the order of the file, of        *)
(*   profiles [id, enabled], domains [id, evidence], intents               *)
(*   [id, route_capable, evidence], routes [id, enabled, priority,         *)
(*   domain, intent, profile],                                             *)
(* and evidence a list of [id, type, strength, value] (values as in        *)
(* module Decision).  A version is the tuple of its numbers; a text that   *)
(* is not dotted numbers is the empty tuple.  Route ids are integers, the  *)
(* negative ones standing for texts the identifier pattern refuses;        *)
(* MalformedIds are the other identifiers it refuses.                      *)
(***************************************************************************)
EXTENDS Decision

CONSTANT MalformedIds

Ids(items) == {items[i].id : i \in DOMAIN items}

\* The item a dictionary built from a list holds under an id: the last one.
ItemOf(items, id) ==
    items[CHOOSE i \in DOMAIN items :
             /\ items[i].id = id
             /\ \A j \in DOMAIN items : items[j].id = id => j <= i]

UniqueIds(items) ==
    \A i, j \in DOMAIN items : items[i].id = items[j].id => i = j

WellFormedIds(items) == Ids(items) \cap MalformedIds = {}

WellFormedRouteIds(routes) == \A id \in Ids(routes) : id >= 0

-----------------------------------------------------------------------------
(* The parts of validate_ruleset_semantics                                 *)

RulesetDocuments(d) == {d.profiles, d.domains, d.intents, d.routing}

\* What the pydantic models refuse while the documents are parsed
WellTyped(d) ==
    LET r == d.config.router
    IN  /\ \A n \in {r.strong, r.medium, r.weak, r.minimum_score,
                     r.minimum_margin, d.config.expected_major_version} : n > 0
        /\ \A i \in DOMAIN d.routing.items :
               ~ (/\ d.routing.items[i].domain = None
                  /\ d.routing.items[i].intent = None)

ValidSchemaVersions(d) ==
    LET versions == {doc.schema_version : doc \in RulesetDocuments(d)}
    IN  /\ versions = {d.config.schema_version}
        /\ Len(d.config.schema_version) = 2

ValidVersions(d) ==
    LET version == d.profiles.ruleset_version
    IN  /\ {doc.ruleset_version : doc \in RulesetDocuments(d)} = {version}
        /\ Len(version) = 3
        /\ version[1] = d.config.expected_major_version

ValidRouterConfig(d) ==
    /\ d.config.router.strong > d.config.router.medium
    /\ d.config.router.medium > d.config.router.weak

Targets(d) == d.domains.items \o d.intents.items

\* Where evidence stands: in which target, and where in its list
EvidencePlaces(d) ==
    UNION {{<<t, i>> : i \in DOMAIN Targets(d)[t].evidence} : t \in DOMAIN Targets(d)}

EvidenceAt(d, place) == Targets(d)[place[1]].evidence[place[2]]

\* evidence.value.strip().casefold() keeps diacritics, so an accented value
\* never equals a profile id, which is plain ASCII.
SpellsProfileId(value, profile) == value.base = profile /\ ~ value.accented

ValidEvidence(d) ==
    /\ \A p, q \in EvidencePlaces(d) :
           EvidenceAt(d, p).id = EvidenceAt(d, q).id => p = q
    /\ \A place \in EvidencePlaces(d) :
           LET value == EvidenceAt(d, place).value
           IN  /\ Normalized(value) # ""
               /\ \A p \in Ids(d.profiles.items) : ~ SpellsProfileId(value, p)

ValidValuesPerTarget(d) ==
    \A t \in DOMAIN Targets(d) :
        LET evidence == Targets(d)[t].evidence
        IN  \A i, j \in DOMAIN evidence :
                Normalized(evidence[i].value) = Normalized(evidence[j].value) => i = j

\* A mutant of ValidRoutes: an enabled route may target a disabled profile.
ValidRoutesAnyProfile(d) ==
    \A i \in DOMAIN d.routing.items :
        LET route == d.routing.items[i]
        IN  /\ route.profile \in Ids(d.profiles.items)
            /\ route.domain # None => route.domain \in Ids(d.domains.items)
            /\ route.intent # None =>
                   /\ route.intent \in Ids(d.intents.items)
                   /\ ItemOf(d.intents.items, route.intent).route_capable

ValidRoutes(d) ==
    \A i \in DOMAIN d.routing.items :
        LET route == d.routing.items[i]
        IN  /\ route.profile \in Ids(d.profiles.items)
            /\ route.enabled => ItemOf(d.profiles.items, route.profile).enabled
            /\ route.domain # None => route.domain \in Ids(d.domains.items)
            /\ route.intent # None =>
                   /\ route.intent \in Ids(d.intents.items)
                   /\ ItemOf(d.intents.items, route.intent).route_capable

ValidRuleset(d) ==
    /\ WellTyped(d)
    /\ ValidSchemaVersions(d)
    /\ ValidVersions(d)
    /\ ValidRouterConfig(d)
    /\ UniqueIds(d.profiles.items) /\ WellFormedIds(d.profiles.items)
    /\ UniqueIds(d.domains.items)  /\ WellFormedIds(d.domains.items)
    /\ UniqueIds(d.intents.items)  /\ WellFormedIds(d.intents.items)
    /\ UniqueIds(d.routing.items)  /\ WellFormedRouteIds(d.routing.items)
    /\ ValidEvidence(d)
    /\ ValidValuesPerTarget(d)
    /\ ValidRoutes(d)

-----------------------------------------------------------------------------
(* create_ruleset_snapshot: lists sorted by id, so that neither the order  *)
(* of the files' lists nor their spelling survives, only the items by id   *)

EvidenceOf(t) == {t.evidence[i] : i \in DOMAIN t.evidence}

ById(items, Image(_)) == [id \in Ids(items) |-> Image(ItemOf(items, id))]

RulesetSnapshot(d) ==
    [ruleset_version |-> d.profiles.ruleset_version,
     router   |-> d.config.router,
     profiles |-> ById(d.profiles.items, LAMBDA p : p.enabled),
     domains  |-> ById(d.domains.items,
                       LAMBDA t : [evidence |-> EvidenceOf(t)]),
     intents  |-> ById(d.intents.items,
                       LAMBDA t : [evidence |-> EvidenceOf(t),
                                   route_capable |-> t.route_capable]),
     routes   |-> ById(d.routing.items,
                       LAMBDA r : [enabled |-> r.enabled,
                                   priority |-> r.priority,
                                   domain |-> r.domain,
                                   intent |-> r.intent,
                                   profile |-> r.profile])]

-----------------------------------------------------------------------------
\* What parsing makes of the YAML: lists are lists, numbers are numbers, and a strength
\* is one of three.
Strengths == {"strong", "medium", "weak"}

IsList(list) == list \in Seq({list[i] : i \in DOMAIN list})

ParsedDocument(d) ==
    /\ \A items \in {d.profiles.items, d.domains.items, d.intents.items, d.routing.items} :
           IsList(items)
    /\ \A targets \in {d.domains.items, d.intents.items} :
           \A i \in DOMAIN targets :
               /\ IsList(targets[i].evidence)
               /\ \A e \in EvidenceOf(targets[i]) : e.strength \in Strengths
    /\ {d.config.router.strong, d.config.router.medium, d.config.router.weak,
        d.config.router.minimum_score, d.config.router.minimum_margin} \subseteq Int
    /\ \A i \in DOMAIN d.routing.items :
           d.routing.items[i].id \in Int /\ d.routing.items[i].priority \in Int
    /\ None \notin Ids(d.profiles.items)
=============================================================================
